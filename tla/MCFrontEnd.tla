----------------------------- MODULE MCFrontEnd -----------------------------
(* Small instances of FrontEnd.  The urls are interchangeable. *)
EXTENDS FrontEnd, TLC

UrlSymmetry == Permutations(Urls)
=============================================================================
