--------------------------- MODULE ResponseCache ---------------------------
(***************************************************************************)
(* What core::ArcaCache (include/reame/core/arca_cache.hpp) promises the   *)
(* engine: a get() returns a completion that was once set under its key,   *)
(* or nothing; a set() may be lost.                                        *)
(***************************************************************************)
CONSTANTS Keys, Values, Callers,
          Archived      \* the pairs <<key, value>> it holds at the start

VARIABLES puts,     \* these and the pairs handed to a set() so far
          got       \* what the last get() of each caller returned:
                    \* <<>> for nothing, else <<key, value>>

cacheVars == <<puts, got>>

CacheInit == /\ puts = Archived
             /\ got = [t \in Callers |-> <<>>]

\* one or more pairs are handed over
set == /\ puts \subseteq puts' /\ puts' \subseteq Keys \X Values
       /\ UNCHANGED got

get(t, k) == /\ \E r \in {<<>>} \cup {p \in puts : p[1] = k} : got' = [got EXCEPT ![t] = r]
             /\ UNCHANGED puts

CacheNext == set \/ \E t \in Callers, k \in Keys : get(t, k)

CacheSpec == CacheInit /\ [][CacheNext]_cacheVars
=============================================================================
