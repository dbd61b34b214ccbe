-------------------------- MODULE MCWriterPipeline --------------------------
(* WriterPipeline for TLC; the bounds are in the configurations. *)
EXTENDS WriterPipeline, TLC
=============================================================================
