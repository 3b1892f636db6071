--------------------------- MODULE MCCachePrefetch ---------------------------
(* Small instances of CachePrefetch for TLC. *)
EXTENDS CachePrefetch

\* two small snapshots fit the budget of the runs, the big one never does
MCBytesOf == [k \in Snapshots |-> CASE k = "a" -> 1 [] k = "b" -> 2 [] OTHER -> 4]
=============================================================================
