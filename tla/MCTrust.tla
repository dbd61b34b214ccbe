------------------------------- MODULE MCTrust -------------------------------
(* Small instances of Trust: a listener trusts a writer, which trusts a      *)
(* listener, which trusts one without any trusted publisher.                 *)
EXTENDS Trust, TLC

CONSTANTS a, b, c, d

Operators == (a :> {b}) @@ (b :> {c}) @@ (c :> {d}) @@ (d :> {})
Chains == {<<a, b>>, <<a, c>>, <<a, d>>, <<b, c>>, <<b, d>>, <<c, d>>}
=============================================================================
