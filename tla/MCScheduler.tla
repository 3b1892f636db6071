----------------------------- MODULE MCScheduler -----------------------------
(* A small instance of Scheduler for TLC. *)
EXTENDS Scheduler

\* two prompts of equal length that differ, one of one token, one that
\* fills the context of five cells, one too long for it
MCPrompts == {<<1, 2>>, <<2, 2>>, <<1>>, [i \in 1..5 |-> 1], [i \in 1..6 |-> 1]}
=============================================================================
