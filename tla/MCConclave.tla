----------------------------- MODULE MCConclave -----------------------------
(* Small instance of Conclave for TLC. *)
EXTENDS Conclave

\* an answer without a number, one that ends with its number, one whose
\* beginning ends with another number
MCBestShots == {<<0>>, <<0, 1>>, <<2, 1>>}
=============================================================================
