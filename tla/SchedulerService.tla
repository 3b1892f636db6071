-------------------------- MODULE SchedulerService --------------------------
(***************************************************************************)
(* What the interleaved scheduler promises to its callers, with slots,     *)
(* sequences and batches left out (include/reame/core/scheduler.hpp):      *)
(* submit() hands out consecutive ids, and every id handed out ends up in  *)
(* the completion map, once, with or without an error.                     *)
(***************************************************************************)
EXTENDS Naturals

CONSTANT MaxRequests     \* bound: ids handed out in one behaviour

ASSUME MaxRequestsAssumption == MaxRequests \in Nat

VARIABLES next_id,       \* the id the next submit() returns
          done           \* completion map: "absent" until the id has an entry

serviceVars == <<next_id, done>>

Ids == 1..MaxRequests

Outcomes == {"ok", "error"}

\* ids submitted and not yet completed: !idle() is Outstanding # {}
Outstanding == {i \in 1..(next_id - 1) : done[i] = "absent"}

ServiceTypeOK == /\ next_id \in 1..(MaxRequests + 1)
                 /\ done \in [Ids -> Outcomes \cup {"absent"}]

ServiceInit == /\ next_id = 1
               /\ done = [i \in Ids |-> "absent"]

\* submit(): the request is queued and owed a completion.
ServiceSubmit == /\ next_id <= MaxRequests
                 /\ next_id' = next_id + 1
                 /\ UNCHANGED done

\* finish(): requests S get their completion entry. One batch failure
\* completes every request in flight together, hence a set.
Complete(S, res) ==
  /\ done' = [i \in Ids |-> IF i \in S THEN res ELSE done[i]]
  /\ UNCHANGED next_id

ServiceComplete == \E S \in (SUBSET Outstanding) \ {{}}, res \in Outcomes :
                      Complete(S, res)

ServiceNext == ServiceSubmit \/ ServiceComplete

ServiceSpec == ServiceInit /\ [][ServiceNext]_serviceVars
=============================================================================
