---------------------------- MODULE CachePrefetch ----------------------------
(***************************************************************************)
(* The prefetch staging area of the KV-snapshot manager                    *)
(* (src/cache/cache_manager.cpp).  HTTP threads call prefetch() before     *)
(* they queue for the engine; the thread that owns the engine calls        *)
(* load_state() and store_state().  staging_mutex_ covers the staging map, *)
(* its LRU list and its byte count; nothing covers the disk store, so a    *)
(* call into it is an interval (from ...Get or ...Put to its end) that     *)
(* other threads may overlap.                                              *)
(*                                                                         *)
(* The disk store is the set of keys with a good snapshot.  Reading it     *)
(* finds a stored snapshot or, after an eviction, a corruption or a race   *)
(* with another thread, nothing.                                           *)
(***************************************************************************)
EXTENDS Integers, Sequences, FiniteSets, SequencesExt, Totals

CONSTANTS Snapshots,        \* the keys
          BytesOf,          \* decompressed bytes of each snapshot
          Threads,          \* HTTP threads that prefetch
          staging_budget,   \* Config::staging_bytes
          MaxPrefetches     \* bound: prefetch() calls in one behaviour

ASSUME PrefetchAssumption ==
  /\ BytesOf \in [Snapshots -> Nat \ {0}]
  /\ staging_budget \in Nat \ {0}
  /\ MaxPrefetches \in Nat

VARIABLES stored,          \* keys with a good snapshot on disk
          staged,          \* keys of the staging map
          staging_lru,     \* list of keys, oldest first
          staging_usati,   \* bytes counted against the budget
          prefetcher,      \* per thread: where prefetch() is, and its key
          engine,          \* the same for load_state() and store_state()
          calls,           \* prefetch() calls so far
          leaked           \* history: bytes of payloads that a second copy of
                           \* the same key replaced in the map

prefetchVars == <<stored, staged, staging_lru, staging_usati, prefetcher, engine, calls,
                  leaked>>

stagingVars == <<staged, staging_lru, staging_usati>>

Idle == [at |-> "idle"]

At(place, k) == [at |-> place, key |-> k]

PrefetchInit ==
  /\ stored = {}
  /\ staged = {} /\ staging_lru = <<>> /\ staging_usati = 0
  /\ prefetcher = [t \in Threads |-> Idle]
  /\ engine = Idle
  /\ calls = 0
  /\ leaked = 0

-----------------------------------------------------------------------------
(* prefetch()                                                              *)

\* Under the lock: a key already staged needs nothing more.
PrefetchBegin(t, k) ==
  /\ prefetcher[t] = Idle
  /\ calls < MaxPrefetches
  /\ calls' = calls + 1
  /\ prefetcher' = [prefetcher EXCEPT ![t] = IF k \in staged THEN Idle ELSE At("get", k)]
  /\ UNCHANGED <<stored, stagingVars, engine, leaked>>

\* store_.get() and the checks of the envelope, the checksum and the
\* decompression, without any lock.
PrefetchRead(t) ==
  /\ prefetcher[t].at = "get"
  /\ prefetcher[t].key \in stored
  /\ prefetcher' = [prefetcher EXCEPT ![t].at = "insert"]
  /\ UNCHANGED <<stored, stagingVars, engine, calls, leaked>>

\* Missing or corrupt: what was there is removed.
PrefetchMiss(t) ==
  /\ prefetcher[t].at = "get"
  /\ stored' = stored \ {prefetcher[t].key}
  /\ prefetcher' = [prefetcher EXCEPT ![t] = Idle]
  /\ UNCHANGED <<stagingVars, engine, calls, leaked>>

Bytes(S) == Total([k \in S |-> BytesOf[k]])

\* What the first n iterations of the eviction loop give back: a popped key
\* returns its bytes once, if it is still staged.
Freed(S, lru, n) == Bytes(S \cap ToSet(SubSeq(lru, 1, n)))

\* Iterations of the eviction loop: the front is popped while the count is
\* over the budget and another key follows.
Evictions(S, lru, usati) ==
  CHOOSE n \in 0..(Len(lru) - 1) :
    /\ n = Len(lru) - 1 \/ usati - Freed(S, lru, n) <= staging_budget
    /\ \A m \in 0..(n - 1) : usati - Freed(S, lru, m) > staging_budget

\* Under the lock: the payload enters the map and the list, then the loop.
\* The key was looked up before the read, not again here: a payload that
\* another thread has staged since is replaced, its bytes stay counted and
\* its place in the list stays too.
PrefetchInsert(t) ==
  /\ prefetcher[t].at = "insert"
  /\ LET k == prefetcher[t].key
         S == staged \cup {k}
         lru == Append(staging_lru, k)
         usati == staging_usati + BytesOf[k]
         n == Evictions(S, lru, usati)
     IN /\ staged' = S \ ToSet(SubSeq(lru, 1, n))
        /\ staging_lru' = SubSeq(lru, n + 1, Len(lru))
        /\ staging_usati' = usati - Freed(S, lru, n)
        /\ leaked' = leaked + (IF k \in staged THEN BytesOf[k] ELSE 0)
  /\ prefetcher' = [prefetcher EXCEPT ![t] = Idle]
  /\ UNCHANGED <<stored, engine, calls>>

-----------------------------------------------------------------------------
(* load_state() and store_state(), on the thread that owns the engine      *)

\* staging_lru_.remove(k): every occurrence of k leaves the list.
Removing(k) ==
  LET remove[lru \in Seq(Snapshots)] ==
        IF lru = <<>> THEN <<>>
        ELSE IF Head(lru) = k THEN remove[Tail(lru)]
        ELSE <<Head(lru)>> \o remove[Tail(lru)]
  IN remove

\* Mutant: the bytes of the payload stay counted.
TakeStagedKeepsBytes(k) ==
  /\ staged' = staged \ {k}
  /\ staging_lru' = Removing(k)[staging_lru]
  /\ UNCHANGED staging_usati

\* preleva_staging(): under the lock, a staged payload is moved out.
TakeStaged(k) ==
  /\ staged' = staged \ {k}
  /\ staging_lru' = Removing(k)[staging_lru]
  /\ staging_usati' = staging_usati - BytesOf[k]

\* A staged copy is spent; if the backend rejects it, the stored one goes
\* too, which is a call into the store.
LoadStaged(k) ==
  /\ engine = Idle
  /\ k \in staged
  /\ TakeStaged(k)
  /\ engine' \in {Idle, At("remove", k)}
  /\ UNCHANGED <<stored, prefetcher, calls, leaked>>

LoadFromStore(k) ==
  /\ engine = Idle
  /\ k \notin staged
  /\ engine' = At("get", k)
  /\ UNCHANGED <<stored, stagingVars, prefetcher, calls, leaked>>

\* get() and the checks end: a hit, or a miss that leaves no entry
LoadEnd ==
  /\ engine.at \in {"get", "remove"}
  /\ \/ engine.at = "get" /\ engine.key \in stored /\ UNCHANGED stored
     \/ stored' = stored \ {engine.key}
  /\ engine' = Idle
  /\ UNCHANGED <<stagingVars, prefetcher, calls, leaked>>

StoreBegin(k) ==
  /\ engine = Idle
  /\ engine' = At("put", k)
  /\ UNCHANGED <<stored, stagingVars, prefetcher, calls, leaked>>

\* put() ends: the entry is in and any others may have been evicted, or it
\* was refused and the old one is gone.
StoreEnd ==
  /\ engine.at = "put"
  /\ \/ \E gone \in SUBSET (stored \ {engine.key}) :
          stored' = (stored \ gone) \cup {engine.key}
     \/ stored' = stored \ {engine.key}
  /\ engine' = Idle
  /\ UNCHANGED <<stagingVars, prefetcher, calls, leaked>>

-----------------------------------------------------------------------------
PrefetchNext ==
  \/ \E t \in Threads : \/ \E k \in Snapshots : PrefetchBegin(t, k)
                        \/ PrefetchRead(t)
                        \/ PrefetchMiss(t)
                        \/ PrefetchInsert(t)
  \/ \E k \in Snapshots : LoadStaged(k) \/ LoadFromStore(k) \/ StoreBegin(k)
  \/ LoadEnd
  \/ StoreEnd

PrefetchSpec == PrefetchInit /\ [][PrefetchNext]_prefetchVars

-----------------------------------------------------------------------------
(* Properties *)

\* Types of the staging area; its unsigned byte count stays a natural number.
PrefetchTypeOK ==
  /\ stored \subseteq Snapshots
  /\ staged \subseteq Snapshots
  /\ staging_lru \in Seq(Snapshots)
  /\ staging_usati \in Nat
  /\ prefetcher \in [Threads -> {Idle} \cup [at : {"get", "insert"}, key : Snapshots]]
  /\ engine \in {Idle} \cup [at : {"get", "remove", "put"}, key : Snapshots]
  /\ calls \in 0..MaxPrefetches
  /\ leaked \in Nat

\* The byte count is what is staged and what double staging has leaked, to
\* the byte: neither subtraction of the unsigned staging_usati_ can wrap
\* around, and nothing but a key staged over itself loses bytes.
CountMatchesStaged == staging_usati = Bytes(staged) + leaked

\* What is staged can be evicted: every staged key is in the list.  As long as
\* nothing has leaked the list is each staged key once, so that the loop,
\* which leaves the last of the list, never drops the key just entered.
ListMatchesStaged ==
  /\ staged \subseteq ToSet(staging_lru)
  /\ leaked = 0 => ToSet(staging_lru) = staged /\ IsInjective(staging_lru)

\* The budget holds for the staged payloads and the leaked bytes together,
\* except for a single payload: what has leaked is room lost for good.
StagingWithinBudget == staging_usati <= staging_budget \/ Cardinality(staged) <= 1

\* How the staging map, its list and its byte count are related, however the
\* look-ups, the reads of the disk store and the insertions of the threads
\* interleave with the engine's loads.  They agree until two threads stage
\* the same key over each other (prefetch() looks it up under one lock and
\* enters it under another).  From then on the bytes of the replaced payload
\* are counted for ever, and the key's second place in the list may make the
\* loop drop a payload that has just entered.
StagingConsistent == /\ PrefetchTypeOK
                     /\ CountMatchesStaged
                     /\ ListMatchesStaged
                     /\ StagingWithinBudget
=============================================================================
