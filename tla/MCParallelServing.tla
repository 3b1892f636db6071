-------------------------- MODULE MCParallelServing --------------------------
(* Small instances of ParallelServing for TLC. *)
EXTENDS ParallelServing
=============================================================================
