---------------------------- MODULE ServingProofs ----------------------------
(* Safety of Scheduler for every number of slots, context length, prompts  *)
(* and requests, and of the threads around it (ParallelServing) for any    *)
(* number of callers.                                                      *)
EXTENDS Scheduler, ParallelServing, DataLemmas

USE MaxRequestsAssumption, SchedulerAssumption

-----------------------------------------------------------------------------
(* Facts about numbers and sequences                                       *)

\* What RemoveAt() leaves of a sequence.
LEMMA RemoveAtSeq ==
  ASSUME NEW S, NEW s \in Seq(S), NEW i \in 1..Len(s)
  PROVE  /\ RemoveAt(s, i) \in Seq(S)
         /\ Len(RemoveAt(s, i)) = Len(s) - 1
         /\ \A j \in 1..(Len(s) - 1) :
               RemoveAt(s, i)[j] = IF j < i THEN s[j] ELSE s[j + 1]
<1> DEFINE a == SubSeq(s, 1, i - 1)
           b == SubSeq(s, i + 1, Len(s))
<1>1. a \in Seq(S) /\ Len(a) = i - 1 /\ \A j \in 1..(i - 1) : a[j] = s[j]
  OBVIOUS
<1>2. b \in Seq(S) /\ Len(b) = Len(s) - i /\ \A j \in 1..(Len(s) - i) : b[j] = s[i + j]
  OBVIOUS
<1> HIDE DEF a, b
<1>3. /\ a \o b \in Seq(S)
      /\ Len(a \o b) = Len(s) - 1
      /\ \A j \in 1..(Len(s) - 1) :
            (a \o b)[j] = IF j < i THEN s[j] ELSE s[j + 1]
  <2>1. a \o b \in Seq(S) /\ Len(a \o b) = Len(s) - 1
    <3>1. a \o b \in Seq(S) /\ Len(a \o b) = Len(a) + Len(b)
      BY <1>1, <1>2, ConcatProperties
    <3> QED
      BY <1>1, <1>2, <3>1
  <2>2. ASSUME NEW j \in 1..(Len(s) - 1), j < i
        PROVE  (a \o b)[j] = s[j]
    BY <1>1, <1>2, <2>2
  <2>3. ASSUME NEW j \in 1..(Len(s) - 1), ~(j < i)
        PROVE  (a \o b)[j] = s[j + 1]
    <3>1. (a \o b)[j] = b[j - Len(a)]
      BY <1>1, <1>2, <2>3
    <3>2. j - Len(a) \in 1..(Len(s) - i) /\ i + (j - Len(a)) = j + 1
      BY <1>1, <2>3
    <3> QED
      BY <1>2, <3>1, <3>2
  <2> QED
    BY <2>1, <2>2, <2>3
<1> QED
  BY <1>3 DEF RemoveAt, a, b

\* The history a slice completes.
LEMMA FrontThenLast ==
  ASSUME NEW S, NEW h \in Seq(S), h # <<>>
  PROVE  SubSeq(h, 1, Len(h) - 1) \o <<Last(h)>> = h
BY DEF Last

LEMMA EmptyPrefix ==
  ASSUME NEW S, NEW h \in Seq(S)
  PROVE  SubSeq(h, 1, 0) = <<>> /\ <<>> \o h = h
OBVIOUS

LEMMA BeforeAppend ==
  ASSUME NEW S, NEW h \in Seq(S), NEW t \in S
  PROVE  SubSeq(Append(h, t), 1, Len(h)) = h
OBVIOUS

-----------------------------------------------------------------------------
(* The inductive invariant                                                 *)

\* How a request stands between two batches: nothing of it is in the KV, or
\* all of it but its newest token.
Shape(r) == /\ r.prompt_len \in 1..Len(r.history)
            /\ r.n_past = IF r.needs_prefill THEN 0 ELSE Len(r.history) - 1

QueueShape ==
  \A i \in 1..Len(pending) :
    /\ pending[i].needs_prefill
    /\ pending[i].n_past = 0
    /\ pending[i].prompt_len = Len(pending[i].history)
    /\ pending[i].history # <<>>

ActiveShape ==
  \A i \in 1..Len(active) : active[i].seq_id \in Slots /\ Shape(active[i])

\* Where step() is fits what it works on.
StepShape == /\ pc \in {"decode", "sample"} => active # <<>>
             /\ pc = "sample" => cursor \in 1..Len(active)
             /\ pc = "dead" => CopyFaults

\* Ids below this one have left the queue.
FirstPending == next_id - Len(pending)

\* Requests in the queue and in flight are owed a completion, and ids in
\* flight are distinct and older than those in the queue.
IdsInFlight ==
  /\ \A j \in Ids : j >= FirstPending => done[j] = "absent"
  /\ \A i \in 1..Len(active) : /\ active[i].id < FirstPending
                               /\ done[active[i].id] = "absent"
  /\ \A i, j \in 1..Len(active) : active[i].id = active[j].id => i = j

\* An id that has left the queue is completed or in flight.
NoneForgotten ==
  pc # "dead" => \A j \in Ids : j < FirstPending /\ done[j] = "absent" =>
                    \E i \in 1..Len(active) : active[i].id = j

Inv == /\ TypeOK /\ QueueShape /\ ActiveShape /\ StepShape
       /\ SlotsMatchActive /\ KVHoldsHistory
       /\ AdmissionInOrder /\ IdsInFlight /\ NoneForgotten

LEMMA InitInv == InitScheduler => Inv
<1> SUFFICES ASSUME InitScheduler PROVE Inv
  OBVIOUS
<1> USE DEF InitScheduler, ServiceInit
<1>0. Len(pending) = 0 /\ Len(active) = 0
  OBVIOUS
<1>1. TypeOK
  BY DEF TypeOK, ServiceTypeOK, Ids
<1>2. QueueShape /\ ActiveShape /\ StepShape
  BY <1>0 DEF QueueShape, ActiveShape, StepShape
<1>3. SlotsMatchActive
  BY <1>0 DEF SlotsMatchActive
<1>4. KVHoldsHistory
  BY <1>0 DEF KVHoldsHistory
<1>5. AdmissionInOrder /\ IdsInFlight
  BY <1>0 DEF AdmissionInOrder, IdsInFlight
<1>6. NoneForgotten
  BY <1>0 DEF NoneForgotten, FirstPending, Ids
<1> QED
  BY <1>1, <1>2, <1>3, <1>4, <1>5, <1>6 DEF Inv

-----------------------------------------------------------------------------
(* What the parts of an action do                                          *)

\* admit() finds a free slot whenever its loop condition holds.
LEMMA FreeSlotFound ==
  ASSUME Inv, pc = "admit", CanAdmit
  PROVE  FreeSlot \in Slots /\ ~slot_used[FreeSlot]
<1> USE DEF Inv, TypeOK
<1> DEFINE Free == {s \in Slots : ~slot_used[s]}
<1>1. Free # {}
  <2> SUFFICES ASSUME \A s \in Slots : slot_used[s] PROVE FALSE
    OBVIOUS
  <2> DEFINE n == Len(active)
             f == [i \in 1..n |-> active[i].seq_id]
  <2>1. n \in Nat /\ n < n_parallel
    BY DEF CanAdmit
  <2>2. f \in [1..n -> Slots]
    BY DEF ActiveShape
  <2>3. \A s \in Slots : \E i \in 1..n : f[i] = s
    BY DEF SlotsMatchActive
  <2>4. f \in Surjection(1..n, Slots)
    BY <2>2, <2>3 DEF Surjection
  <2>5. Cardinality(Slots) <= n
    BY <2>1, <2>4, FS_SurjCardinalityBound DEF ExistsSurjection
  <2>6. Cardinality(Slots) = n_parallel
    <3>1. 0 \in Int /\ n_parallel - 1 \in Int /\ ~(0 > n_parallel - 1)
      OBVIOUS
    <3> QED
      BY <3>1, FS_Interval DEF Slots
  <2> QED
    BY <2>1, <2>5, <2>6
<1>2. PICK s \in Free : \A t \in Free : s <= t
  <2>1. Free \in SUBSET Nat
    BY DEF Slots
  <2> HIDE DEF Free
  <2> QED
    BY <1>1, <2>1, SmallestExists
<1>3. s \in Slots /\ ~slot_used[s] /\ \A t \in 0..(s - 1) : slot_used[t]
  BY <1>2 DEF Slots
<1> QED
  BY <1>3 DEF FreeSlot, LowestFree

\* The donor of a clone is in flight with the same prompt.
LEMMA DonorFound ==
  ASSUME Inv, pending # <<>>, Cloned
  PROVE  find_donor(Head(pending).history) \in Donors(Head(pending).history)
<1> DEFINE D == Donors(Head(pending).history)
<1>1. D \in SUBSET Nat /\ D # {}
  <2>1. Len(active) \in Nat
    BY DEF Inv, TypeOK
  <2> QED
    BY <2>1 DEF Cloned, Donors
<1>2. \E x \in D : \A y \in D : x <= y
  BY <1>1, SmallestExists
<1> HIDE DEF D
<1>3. (CHOOSE i \in D : \A j \in D : i <= j) \in D
  BY <1>2
<1> QED
  BY <1>3 DEF find_donor, D

\* What the sampling loop does to one request: it is retired, ...
Retire == /\ Sampling
          /\ \E res \in Outcomes : Complete({active[cursor].id}, res)
          /\ slot_used' = [slot_used EXCEPT ![active[cursor].seq_id] = FALSE]
          /\ kv' = [kv EXCEPT ![active[cursor].seq_id] = <<>>]
          /\ active' = RemoveAt(active, cursor)
          /\ cursor' = cursor
          /\ pc' = PcAfter(cursor')
          /\ UNCHANGED <<next_id, pending>>

\* ... or it goes on with one more token.
Continue == /\ Sampling
            /\ \E t \in Tokens :
                 active' = [active EXCEPT ![cursor] =
                              [Advanced EXCEPT !.history = Append(@, t),
                                               !.emitted = @ + 1]]
            /\ cursor' = cursor + 1
            /\ pc' = PcAfter(cursor')
            /\ UNCHANGED <<next_id, pending, done, slot_used, kv>>

LEMMA SampleCases ==
  ASSUME Inv, SampleEnd \/ SampleThrows \/ \E t \in Tokens, k \in BOOLEAN : SampleToken(t, k)
  PROVE  Retire \/ Continue
<1> USE DEF finish, Outcomes
<1>1. CASE SampleEnd
  BY <1>1 DEF SampleEnd, Retire
<1>2. CASE SampleThrows
  BY <1>2 DEF SampleThrows, Retire
<1>3. ASSUME NEW t \in Tokens, NEW k \in BOOLEAN, SampleToken(t, k)
      PROVE  Retire \/ Continue
  <2> DEFINE r == [Advanced EXCEPT !.history = Append(@, t), !.emitted = @ + 1]
  <2>1. active[cursor] \in Request
    <3>1. active \in Seq(Request) /\ cursor \in 1..Len(active)
      BY <1>3 DEF SampleToken, Sampling, Inv, TypeOK
    <3> QED
      BY <3>1, ElementOfSeq
  <2>2. r.id = active[cursor].id /\ r.seq_id = active[cursor].seq_id
    BY <2>1 DEF Advanced, Request
  <2>3. CASE ~k \/ LimitReached(r)
    <3>1. finish(r, "ok")
      BY <1>3, <2>3 DEF SampleToken
    <3> HIDE DEF r
    <3> QED
      BY <1>3, <2>2, <3>1 DEF SampleToken, Retire
  <2>4. CASE ~(~k \/ LimitReached(r))
    BY <1>3, <2>4 DEF SampleToken, Continue
  <2> QED
    BY <2>3, <2>4
<1> QED
  BY <1>1, <1>2, <1>3

\* What an iteration of admit() does: the front request takes a free slot,
\* with the part of its history it counts as decoded really in the KV.
Admitted ==
  /\ pc = "admit"
  /\ pending # <<>>
  /\ \E s \in Slots, r \in Request :
       /\ ~slot_used[s]
       /\ r.seq_id = s
       /\ r.id = Head(pending).id
       /\ Shape(r)
       /\ slot_used' = [slot_used EXCEPT ![s] = TRUE]
       /\ kv' = [kv EXCEPT ![s] = SubSeq(r.history, 1, r.n_past)]
       /\ active' = Append(active, r)
  /\ pending' = Tail(pending)
  /\ UNCHANGED <<next_id, done, pc, cursor>>

LEMMA PendingHead ==
  ASSUME Inv, pending # <<>>
  PROVE  /\ Head(pending) \in Request
         /\ Head(pending) = pending[1]
         /\ Head(pending).needs_prefill
         /\ Head(pending).n_past = 0
         /\ Head(pending).prompt_len = Len(Head(pending).history)
         /\ Head(pending).history \in Seq(Tokens)
         /\ Head(pending).history # <<>>
         /\ Head(pending).prompt_len \in Nat \ {0}
<1>1. pending \in Seq(Request) /\ Len(pending) \in Nat \ {0} /\ Head(pending) = pending[1]
  BY DEF Inv, TypeOK
<1>2. Head(pending) \in Request
  BY <1>1
<1>3. Head(pending).history \in Seq(Tokens)
  BY <1>2 DEF Request
<1> QED
  BY <1>1, <1>2, <1>3 DEF Inv, QueueShape

LEMMA AdmitCases ==
  ASSUME Inv, AdmitPrefill \/ AdmitClone
  PROVE  Admitted
<1> DEFINE s == FreeSlot
           q == Head(pending)
<1>1. pc = "admit" /\ CanAdmit /\ pending # <<>>
  BY DEF AdmitPrefill, AdmitClone, CanAdmit
<1>2. s \in Slots /\ ~slot_used[s]
  BY <1>1, FreeSlotFound
<1>3. /\ q \in Request
      /\ q.needs_prefill
      /\ q.n_past = 0
      /\ q.prompt_len = Len(q.history)
      /\ q.history \in Seq(Tokens)
      /\ q.prompt_len \in Nat \ {0}
  BY <1>1, PendingHead
<1> HIDE DEF s, q
<1>4. kv \in [Slots -> Seq(Tokens)] /\ kv[s] = <<>>
  <2>1. \A i \in 1..Len(active) : active[i].seq_id # s
    BY <1>1, <1>2 DEF Inv, SlotsMatchActive
  <2> QED
    BY <1>2, <2>1 DEF Inv, TypeOK, KVHoldsHistory
<1>5. CASE AdmitPrefill
  <2> DEFINE r == [q EXCEPT !.seq_id = s]
  <2>1. r \in Request /\ r.seq_id = s /\ r.id = q.id /\ Shape(r)
    BY <1>2, <1>3 DEF Request, Shape
  <2>2. SubSeq(r.history, 1, r.n_past) = <<>>
    BY <1>3, EmptyPrefix DEF Request
  <2>3. kv = [kv EXCEPT ![s] = SubSeq(r.history, 1, r.n_past)]
    BY <1>2, <1>4, <2>2
  <2>4. /\ slot_used' = [slot_used EXCEPT ![s] = TRUE]
        /\ active' = Append(active, r)
        /\ kv' = kv
    BY <1>5 DEF AdmitPrefill, s, q
  <2>5. pending' = Tail(pending) /\ UNCHANGED <<next_id, done, pc, cursor>>
    BY <1>5 DEF AdmitPrefill
  <2>6. r.id = Head(pending).id
    BY <2>1 DEF q
  <2> HIDE DEF r
  <2> QED
    BY <1>1, <1>2, <2>1, <2>3, <2>4, <2>5, <2>6 DEF Admitted
<1>6. CASE AdmitClone
  <2> DEFINE n == q.prompt_len - 1
             r == [q EXCEPT !.seq_id = s, !.n_past = n, !.needs_prefill = FALSE]
             d == find_donor(q.history)
  <2>1. r \in Request /\ r.seq_id = s /\ r.id = q.id /\ Shape(r)
        /\ r.history = q.history /\ r.n_past = n
    <3>1. r \in Request
      <4>1. n \in Nat /\ FALSE \in BOOLEAN
        BY <1>3
      <4> HIDE DEF n
      <4> QED
        BY <1>2, <1>3, <4>1 DEF Request
    <3>2. /\ r.seq_id = s /\ r.id = q.id /\ r.history = q.history
          /\ r.n_past = n /\ r.prompt_len = q.prompt_len
          /\ ~r.needs_prefill
      BY <1>3 DEF Request
    <3> HIDE DEF r
    <3>3. Shape(r)
      BY <1>3, <3>2 DEF Shape
    <3> QED
      BY <3>1, <3>2, <3>3
  <2>2. d \in 1..Len(active) /\ active[d].prompt_len = Len(q.history)
        /\ SubSeq(active[d].history, 1, Len(q.history)) = q.history
    BY <1>1, <1>6, DonorFound DEF AdmitClone, Donors, q
  <2>3. active[d].n_past >= active[d].prompt_len
    BY <1>1, <1>6 DEF CanAdmit, AdmitClone, Donor, q
  <2>4. active \in Seq(Request) /\ active[d] \in Request
    BY <2>2, ElementOfSeq DEF Inv, TypeOK
  <2>5. /\ active[d].history \in Seq(Tokens)
        /\ active[d].n_past \in Nat
        /\ active[d].n_past <= Len(active[d].history)
    <3>1. active[d].history \in Seq(Tokens) /\ active[d].n_past \in Nat
      BY <2>4 DEF Request
    <3>2. Shape(active[d])
      BY <2>2 DEF Inv, ActiveShape
    <3> QED
      BY <3>1, <3>2 DEF Shape
  <2>6. kv[active[d].seq_id] = SubSeq(active[d].history, 1, active[d].n_past)
    BY <1>1, <2>2 DEF Inv, KVHoldsHistory
  <2>7. /\ Len(q.history) \in 0..Len(active[d].history)
        /\ n \in 0..Len(q.history)
        /\ n \in 0..active[d].n_past
        /\ active[d].n_past \in 0..Len(active[d].history)
    BY <1>3, <2>2, <2>3, <2>5
  <2>8. SubSeq(kv[active[d].seq_id], 1, n) = SubSeq(active[d].history, 1, n)
    BY <2>5, <2>6, <2>7, PrefixOfPrefix
  <2>9. SubSeq(q.history, 1, n) = SubSeq(active[d].history, 1, n)
    BY <2>2, <2>5, <2>7, PrefixOfPrefix
  <2>10. /\ slot_used' = [slot_used EXCEPT ![s] = TRUE]
         /\ active' = Append(active, r)
         /\ kv' = [kv EXCEPT ![s] = SubSeq(kv[active[d].seq_id], 1, n)]
    BY <1>6 DEF AdmitClone, s, q, Donor
  <2>11. pending' = Tail(pending) /\ UNCHANGED <<next_id, done, pc, cursor>>
    BY <1>6 DEF AdmitClone
  <2>12. r.id = Head(pending).id
    BY <2>1 DEF q
  <2>13. kv' = [kv EXCEPT ![s] = SubSeq(r.history, 1, r.n_past)]
    BY <2>1, <2>8, <2>9, <2>10
  <2> HIDE DEF r, n
  <2> QED
    BY <1>1, <1>2, <2>1, <2>10, <2>11, <2>12, <2>13 DEF Admitted
<1> QED
  BY <1>5, <1>6

-----------------------------------------------------------------------------
(* Every action preserves the invariant                                    *)

\* the parts of TypeOK the steps below need one by one
LEMMA Types ==
  ASSUME Inv
  PROVE  /\ active \in Seq(Request) /\ Len(active) \in Nat
         /\ pending \in Seq(Request) /\ Len(pending) \in Nat
         /\ slot_used \in [Slots -> BOOLEAN]
         /\ kv \in [Slots -> Seq(Tokens)]
         /\ next_id \in 1..(MaxRequests + 1)
         /\ done \in [Ids -> Outcomes \cup {"absent"}]
         /\ cursor \in Nat \ {0}
         /\ FirstPending \in Int
BY DEF Inv, TypeOK, ServiceTypeOK, FirstPending

\* a request in flight
LEMMA ActiveTypes ==
  ASSUME Inv, NEW i \in 1..Len(active)
  PROVE  /\ active[i] \in Request
         /\ active[i].id \in Ids
         /\ active[i].history \in Seq(Tokens)
         /\ active[i].seq_id \in Slots
         /\ active[i].n_past \in Nat
         /\ active[i].prompt_len \in Nat
         /\ active[i].needs_prefill \in BOOLEAN
         /\ Shape(active[i])
<1>1. active[i] \in Request
  BY Types, ElementOfSeq
<1>2. active[i].seq_id \in Slots /\ Shape(active[i])
  BY DEF Inv, ActiveShape
<1> QED
  BY <1>1, <1>2 DEF Request

LEMMA QuietStep ==
  ASSUME Inv, StepBegin \/ AdmitEnd \/ Dead \/ UNCHANGED vars
  PROVE  Inv'
<1> USE DEF StepBegin, AdmitEnd, Dead, vars
<1>1. TypeOK'
  BY DEF Inv, TypeOK, ServiceTypeOK
<1>2. QueueShape' /\ ActiveShape'
  BY DEF Inv, QueueShape, ActiveShape, Shape
<1>3. StepShape'
  BY DEF Inv, StepShape
<1>4. SlotsMatchActive'
  BY DEF Inv, SlotsMatchActive
<1>5. KVHoldsHistory'
  BY DEF Inv, KVHoldsHistory
<1>6. AdmissionInOrder' /\ IdsInFlight'
  BY DEF Inv, AdmissionInOrder, IdsInFlight, FirstPending
<1>7. NoneForgotten'
  BY DEF Inv, NoneForgotten, FirstPending
<1> QED
  BY <1>1, <1>2, <1>3, <1>4, <1>5, <1>6, <1>7 DEF Inv

LEMMA SubmitStep ==
  ASSUME Inv, NEW p \in Prompts, NEW m \in MaxTokens, Submit(p, m)
  PROVE  Inv'
<1> DEFINE q == [id |-> next_id, history |-> p, prompt_len |-> Len(p),
                 max_tokens |-> m, emitted |-> 0, seq_id |-> NoSlot,
                 n_past |-> 0, needs_prefill |-> TRUE]
<1>1. /\ pending' = Append(pending, q)
      /\ next_id' = next_id + 1 /\ next_id <= MaxRequests
      /\ pc = "idle" /\ p # <<>> /\ Len(p) \in Nat \ {0}
      /\ UNCHANGED <<done, active, slot_used, kv, pc, cursor>>
  BY DEF Submit, ServiceSubmit
<1>2. q \in Request
  <2>1. /\ next_id \in Ids /\ Len(p) \in Nat /\ 0 \in Nat /\ NoSlot \in Slots \cup {NoSlot}
    BY <1>1, Types DEF Ids
  <2> QED
    BY <2>1 DEF Request
<1>3. q.id = next_id /\ q.needs_prefill /\ q.n_past = 0 /\ q.history # <<>>
      /\ q.prompt_len = Len(q.history)
  BY <1>1
<1> HIDE DEF q
<1>4. /\ pending' \in Seq(Request) /\ Len(pending') = Len(pending) + 1
      /\ \A i \in 1..Len(pending) : pending'[i] = pending[i]
      /\ pending'[Len(pending) + 1] = q
  <2>1. pending \in Seq(Request)
    BY Types
  <2>2. pending' = Append(pending, q)
    BY <1>1
  <2> QED
    BY ONLY <1>2, <2>1, <2>2, AppendFacts
<1>5. TypeOK'
  BY <1>1, <1>4 DEF Inv, TypeOK, ServiceTypeOK
<1>6. QueueShape'
  <2>1. \A i \in 1..Len(pending') : i \in 1..Len(pending) \/ i = Len(pending) + 1
    BY <1>4, Types
  <2>2. \A i \in 1..Len(pending) :
          /\ pending'[i].needs_prefill /\ pending'[i].n_past = 0
          /\ pending'[i].prompt_len = Len(pending'[i].history) /\ pending'[i].history # <<>>
    BY <1>4 DEF Inv, QueueShape
  <2>3. LET r == pending'[Len(pending) + 1] IN
          /\ r.needs_prefill /\ r.n_past = 0
          /\ r.prompt_len = Len(r.history) /\ r.history # <<>>
    BY <1>3, <1>4
  <2> QED
    BY ONLY <2>1, <2>2, <2>3 DEF QueueShape
<1>7. ActiveShape' /\ StepShape' /\ SlotsMatchActive'
  BY <1>1 DEF Inv, ActiveShape, Shape, StepShape, SlotsMatchActive
<1>8. KVHoldsHistory'
  BY <1>1 DEF Inv, KVHoldsHistory
<1>9. AdmissionInOrder'
  <2>1. ASSUME NEW i \in 1..Len(pending)
        PROVE  pending'[i].id = next_id' - Len(pending') + i - 1
    <3>1. pending[i].id = next_id - Len(pending) + i - 1
      BY DEF Inv, AdmissionInOrder
    <3> QED
      BY <1>1, <1>4, <3>1, Types
  <2>2. pending'[Len(pending) + 1].id
          = next_id' - Len(pending') + (Len(pending) + 1) - 1
    <3>1. pending'[Len(pending) + 1].id = next_id
      BY <1>3, <1>4
    <3>2. next_id \in Int /\ Len(pending) \in Int /\ next_id' = next_id + 1
          /\ Len(pending') = Len(pending) + 1
      BY <1>1, <1>4, Types
    <3> QED
      BY ONLY <3>1, <3>2
  <2>3. \A i \in 1..Len(pending') : i \in 1..Len(pending) \/ i = Len(pending) + 1
    BY <1>4, Types
  <2> QED
    BY <2>1, <2>2, <2>3 DEF AdmissionInOrder
<1>10. FirstPending' = FirstPending
  BY <1>1, <1>4, Types DEF FirstPending
<1>11. IdsInFlight'
  BY <1>1, <1>10 DEF Inv, IdsInFlight
<1>12. NoneForgotten'
  BY <1>1, <1>10 DEF Inv, NoneForgotten
<1> QED
  BY <1>5, <1>6, <1>7, <1>8, <1>9, <1>11, <1>12 DEF Inv

LEMMA AdmittedStep ==
  ASSUME Inv, Admitted
  PROVE  Inv'
<1> DEFINE n == Len(active)
<1>1. PICK s \in Slots, r \in Request :
        /\ ~slot_used[s]
        /\ r.seq_id = s
        /\ r.id = Head(pending).id
        /\ Shape(r)
        /\ slot_used' = [slot_used EXCEPT ![s] = TRUE]
        /\ kv' = [kv EXCEPT ![s] = SubSeq(r.history, 1, r.n_past)]
        /\ active' = Append(active, r)
  BY DEF Admitted
<1>2. /\ pc = "admit" /\ pending # <<>> /\ pending' = Tail(pending)
      /\ UNCHANGED <<next_id, done, pc, cursor>>
  BY DEF Admitted
<1>3. /\ active' \in Seq(Request) /\ Len(active') = n + 1 /\ n \in Nat
      /\ \A i \in 1..n : active'[i] = active[i]
      /\ active'[n + 1] = r
  BY <1>1, Types
<1>4. /\ pending' \in Seq(Request) /\ Len(pending') = Len(pending) - 1
      /\ Len(pending) \in Nat \ {0}
      /\ \A i \in 1..(Len(pending) - 1) : pending'[i] = pending[i + 1]
  BY <1>2, Types
<1>5. \A i \in 1..Len(active') : i \in 1..n \/ i = n + 1
  BY <1>3
<1>6. r.id = FirstPending /\ FirstPending' = FirstPending + 1
  <2>1. pending[1].id = next_id - Len(pending) + 1 - 1
    BY <1>4 DEF Inv, AdmissionInOrder
  <2>2. r.id = pending[1].id
    BY <1>1, <1>2, PendingHead
  <2> QED
    BY <1>2, <1>4, <2>1, <2>2, Types DEF FirstPending
<1>7. r.history \in Seq(Tokens) /\ r.n_past \in 0..Len(r.history) /\ r.id \in Ids
  BY <1>1 DEF Request, Shape
<1>8. \A i \in 1..n : active[i].seq_id # s
  BY <1>1, <1>2 DEF Inv, SlotsMatchActive
<1>9. TypeOK'
  <2>1. SubSeq(r.history, 1, r.n_past) \in Seq(Tokens)
    BY <1>7
  <2>2. kv' \in [Slots -> Seq(Tokens)]
    BY <1>1, <2>1, Types
  <2>3. slot_used' \in [Slots -> BOOLEAN]
    BY <1>1, Types
  <2> QED
    BY <1>2, <1>3, <1>4, <2>2, <2>3 DEF Inv, TypeOK, ServiceTypeOK
<1>10. QueueShape'
  BY <1>4 DEF Inv, QueueShape
<1>11. ActiveShape'
  BY <1>1, <1>3, <1>5 DEF Inv, ActiveShape, Shape
<1>12. StepShape'
  BY <1>2 DEF Inv, StepShape
<1>13. SlotsMatchActive'
  <2>1. \A i, j \in 1..Len(active') :
           active'[i].seq_id = active'[j].seq_id => i = j
    BY <1>1, <1>2, <1>3, <1>5, <1>8 DEF Inv, SlotsMatchActive
  <2>2. ASSUME NEW t \in Slots
        PROVE  slot_used'[t] <=> \E i \in 1..Len(active') : active'[i].seq_id = t
    <3>1. slot_used'[t] <=> (slot_used[t] \/ t = s)
      BY <1>1, Types
    <3>2. slot_used[t] <=> \E i \in 1..n : active[i].seq_id = t
      BY <1>2 DEF Inv, SlotsMatchActive
    <3> QED
      BY <1>1, <1>3, <1>5, <3>1, <3>2
  <2> QED
    BY <2>1, <2>2 DEF SlotsMatchActive
<1>14. KVHoldsHistory'
  <2>1. ASSUME NEW i \in 1..n
        PROVE  kv'[active'[i].seq_id] = SubSeq(active'[i].history, 1, active'[i].n_past)
    <3>1. kv[active[i].seq_id] = SubSeq(active[i].history, 1, active[i].n_past)
      BY <1>2 DEF Inv, KVHoldsHistory
    <3> QED
      BY <1>1, <1>3, <1>8, <3>1, Types, ActiveTypes
  <2>2. kv'[r.seq_id] = SubSeq(r.history, 1, r.n_past)
    BY <1>1, Types
  <2>3. ASSUME NEW t \in Slots, \A i \in 1..Len(active') : active'[i].seq_id # t
        PROVE  kv'[t] = <<>>
    <3>1. t # s /\ \A i \in 1..n : active[i].seq_id # t
      BY <1>1, <1>3, <2>3
    <3>2. kv[t] = <<>>
      BY <3>1 DEF Inv, KVHoldsHistory
    <3> QED
      BY <1>1, <3>1, <3>2, Types
  <2> QED
    BY <1>2, <1>3, <1>5, <2>1, <2>2, <2>3 DEF KVHoldsHistory
<1>15. AdmissionInOrder'
  <2> SUFFICES ASSUME NEW i \in 1..(Len(pending) - 1)
               PROVE  pending'[i].id = next_id' - Len(pending') + i - 1
    BY <1>4 DEF AdmissionInOrder
  <2>1. pending[i + 1].id = next_id - Len(pending) + (i + 1) - 1
    BY <1>4 DEF Inv, AdmissionInOrder
  <2> QED
    BY <1>2, <1>4, <2>1, Types
<1>16. IdsInFlight'
  <2>1. \A j \in Ids : j >= FirstPending' => done'[j] = "absent"
    BY <1>2, <1>6, Types DEF Inv, IdsInFlight, Ids
  <2>2. \A i \in 1..Len(active') : /\ active'[i].id < FirstPending'
                                   /\ done'[active'[i].id] = "absent"
    <3>1. ASSUME NEW i \in 1..n
          PROVE  active[i].id < FirstPending + 1 /\ done[active[i].id] = "absent"
      <4>1. active[i].id < FirstPending /\ done[active[i].id] = "absent"
        BY DEF Inv, IdsInFlight
      <4>2. active[i].id \in Int
        BY ActiveTypes DEF Ids
      <4> QED
        BY <4>1, <4>2, Types
    <3>2. r.id < FirstPending + 1 /\ done[r.id] = "absent"
      BY <1>6, <1>7, Types DEF Inv, IdsInFlight, Ids
    <3> QED
      BY <1>2, <1>3, <1>5, <1>6, <3>1, <3>2
  <2>3. \A i, j \in 1..Len(active') : active'[i].id = active'[j].id => i = j
    <3>1. ASSUME NEW i \in 1..n
          PROVE  active[i].id # r.id
      <4>1. active[i].id < FirstPending
        BY DEF Inv, IdsInFlight
      <4> QED
        BY <1>6, <4>1, Types
    <3>2. \A i, j \in 1..n : active[i].id = active[j].id => i = j
      BY DEF Inv, IdsInFlight
    <3> QED
      BY <1>3, <1>5, <3>1, <3>2
  <2> QED
    BY <2>1, <2>2, <2>3 DEF IdsInFlight
<1>17. NoneForgotten'
  <2> SUFFICES ASSUME NEW j \in Ids, j < FirstPending', done'[j] = "absent"
               PROVE  \E i \in 1..Len(active') : active'[i].id = j
    BY DEF NoneForgotten
  <2>1. CASE j = FirstPending
    BY <1>3, <1>6, <2>1
  <2>2. CASE j < FirstPending
    <3>1. PICK i \in 1..n : active[i].id = j
      BY <1>2, <2>2 DEF Inv, NoneForgotten
    <3> QED
      BY <1>3, <3>1
  <2>3. j = FirstPending \/ j < FirstPending
    BY <1>6, Types DEF Ids
  <2> QED
    BY <2>1, <2>2, <2>3
<1> QED
  BY <1>9, <1>10, <1>11, <1>12, <1>13, <1>14, <1>15, <1>16, <1>17 DEF Inv

\* copy_seq() throws: the request is lost, nothing else breaks.
LEMMA ThrowsStep ==
  ASSUME Inv, AdmitThrows
  PROVE  Inv'
<1>1. /\ pc = "admit" /\ pending # <<>> /\ pending' = Tail(pending) /\ pc' = "dead"
      /\ CopyFaults
      /\ slot_used' = [slot_used EXCEPT ![FreeSlot] = TRUE]
      /\ UNCHANGED <<next_id, done, active, kv, cursor>>
  BY DEF AdmitThrows, CanAdmit
<1>2. /\ pending' \in Seq(Request) /\ Len(pending') = Len(pending) - 1
      /\ Len(pending) \in Nat \ {0}
      /\ \A i \in 1..(Len(pending) - 1) : pending'[i] = pending[i + 1]
  BY <1>1, Types
<1>3. FirstPending' = FirstPending + 1
  BY <1>1, <1>2, Types DEF FirstPending
<1>4. TypeOK'
  <2>1. slot_used' \in [Slots -> BOOLEAN]
    BY <1>1, Types
  <2> QED
    BY <1>1, <1>2, <2>1 DEF Inv, TypeOK, ServiceTypeOK
<1>5. QueueShape'
  BY <1>2 DEF Inv, QueueShape
<1>6. ActiveShape' /\ StepShape' /\ SlotsMatchActive' /\ NoneForgotten'
  BY <1>1 DEF Inv, ActiveShape, Shape, StepShape, SlotsMatchActive, NoneForgotten
<1>7. KVHoldsHistory'
  BY <1>1 DEF Inv, KVHoldsHistory
<1>8. AdmissionInOrder'
  <2> SUFFICES ASSUME NEW i \in 1..(Len(pending) - 1)
               PROVE  pending'[i].id = next_id' - Len(pending') + i - 1
    BY <1>2 DEF AdmissionInOrder
  <2>1. pending[i + 1].id = next_id - Len(pending) + (i + 1) - 1
    BY <1>2 DEF Inv, AdmissionInOrder
  <2> QED
    BY <1>1, <1>2, <2>1, Types
<1>9. IdsInFlight'
  BY <1>1, <1>3, Types, ActiveTypes DEF Inv, IdsInFlight, Ids
<1> QED
  BY <1>4, <1>5, <1>6, <1>7, <1>8, <1>9 DEF Inv

\* After a successful batch every sequence holds the request's history.
LEMMA DecodedIsHistory ==
  ASSUME Inv, pc = "decode", NEW i \in 1..Len(active)
  PROVE  Decoded(active[i]) = active[i].history
<1> DEFINE r == active[i]
           h == r.history
<1>1. /\ h \in Seq(Tokens) /\ r.n_past \in Nat /\ r.needs_prefill \in BOOLEAN
      /\ Shape(r)
  BY ActiveTypes
<1>2. kv[r.seq_id] = SubSeq(h, 1, r.n_past)
  BY DEF Inv, KVHoldsHistory
<1>3. h # <<>> /\ Len(h) \in Nat
  BY <1>1 DEF Shape
<1>4. CASE r.needs_prefill
  <2>1. kv[r.seq_id] = <<>> /\ SliceTokens(r) = h
    BY <1>1, <1>2, <1>4, EmptyPrefix DEF Shape, SliceTokens
  <2> QED
    BY <1>1, <2>1, EmptyPrefix DEF Decoded
<1>5. CASE ~r.needs_prefill
  <2>1. kv[r.seq_id] = SubSeq(h, 1, Len(h) - 1) /\ SliceTokens(r) = <<Last(h)>>
    BY <1>1, <1>2, <1>5 DEF Shape, SliceTokens
  <2> HIDE DEF h
  <2>2. SubSeq(h, 1, Len(h) - 1) \o <<Last(h)>> = h
    BY <1>1, <1>3, FrontThenLast
  <2> QED
    BY <2>1, <2>2 DEF Decoded, h
<1> QED
  BY <1>4, <1>5

LEMMA DecodeOkStep ==
  ASSUME Inv, DecodeOk
  PROVE  Inv'
<1>1. /\ pc = "decode" /\ pc' = "sample" /\ cursor' = 1
      /\ UNCHANGED <<next_id, done, pending, active, slot_used>>
  BY DEF DecodeOk
<1>2. ASSUME NEW i \in 1..Len(active)
      PROVE  kv'[active[i].seq_id] = active[i].history
  <2> DEFINE s == active[i].seq_id
             k == CHOOSE j \in 1..Len(active) : active[j].seq_id = s
  <2>1. s \in Slots
    BY ActiveTypes
  <2>2. k = i
    BY <1>1 DEF Inv, SlotsMatchActive
  <2>3. kv'[s] = Decoded(active[k])
    BY <2>1 DEF DecodeOk
  <2> QED
    BY <1>1, <2>2, <2>3, DecodedIsHistory
<1>3. ASSUME NEW s \in Slots, \A i \in 1..Len(active) : active[i].seq_id # s
      PROVE  kv'[s] = <<>>
  <2>1. kv'[s] = kv[s]
    BY <1>3 DEF DecodeOk
  <2> QED
    BY <1>3, <2>1 DEF Inv, KVHoldsHistory
<1>4. kv' \in [Slots -> Seq(Tokens)]
  <2>1. ASSUME NEW s \in Slots PROVE kv'[s] \in Seq(Tokens)
    <3>1. ASSUME NEW i \in 1..Len(active), active[i].seq_id = s
          PROVE  kv'[s] \in Seq(Tokens)
      <4>1. kv'[s] = active[i].history
        BY <1>2, <3>1
      <4>2. active[i].history \in Seq(Tokens)
        BY ActiveTypes
      <4> QED
        BY <4>1, <4>2
    <3>2. CASE \A i \in 1..Len(active) : active[i].seq_id # s
      <4>1. kv'[s] = <<>>
        BY <1>3, <3>2
      <4> QED
        BY <4>1
    <3> QED
      BY <3>1, <3>2
  <2>2. kv' = [s \in Slots |-> kv'[s]]
    BY DEF DecodeOk
  <2> QED
    BY <2>1, <2>2
<1>5. TypeOK'
  BY <1>1, <1>4 DEF Inv, TypeOK, ServiceTypeOK
<1>6. QueueShape' /\ ActiveShape' /\ SlotsMatchActive'
  BY <1>1 DEF Inv, QueueShape, ActiveShape, Shape, SlotsMatchActive
<1>7. StepShape'
  <2>1. active # <<>>
    BY <1>1 DEF Inv, StepShape
  <2> QED
    BY <1>1, <2>1, Types DEF StepShape
<1>8. KVHoldsHistory'
  BY <1>1, <1>2, <1>3, Types DEF KVHoldsHistory
<1>9. AdmissionInOrder' /\ IdsInFlight' /\ NoneForgotten'
  BY <1>1 DEF Inv, AdmissionInOrder, IdsInFlight, NoneForgotten, FirstPending
<1> QED
  BY <1>4, <1>5, <1>6, <1>7, <1>8, <1>9 DEF Inv

LEMMA DecodeFailStep ==
  ASSUME Inv, DecodeFail
  PROVE  Inv'
<1> DEFINE S == {active[i].id : i \in 1..Len(active)}
<1>1. /\ pc = "decode" /\ pc' = "idle" /\ active' = <<>>
      /\ UNCHANGED <<next_id, pending, cursor>>
  BY DEF DecodeFail
<1>2. done' = [i \in Ids |-> IF i \in S THEN "error" ELSE done[i]]
  BY DEF DecodeFail, Complete
<1>3. active' \in Seq(Request) /\ Len(active') = 0
  BY <1>1
<1>4. slot_used' = [s \in Slots |-> FALSE]
  <2>1. ASSUME NEW s \in Slots PROVE ~slot_used'[s]
    BY <1>1 DEF Inv, SlotsMatchActive, DecodeFail
  <2>2. slot_used' \in [Slots -> BOOLEAN]
    BY DEF DecodeFail
  <2> QED
    BY <2>1, <2>2
<1>5. kv' = [s \in Slots |-> <<>>]
  BY DEF DecodeFail, Inv, KVHoldsHistory
<1>6. TypeOK'
  <2>1. done' \in [Ids -> Outcomes \cup {"absent"}]
    BY <1>2, Types DEF Outcomes
  <2> QED
    BY <1>1, <1>3, <1>4, <1>5, <2>1 DEF Inv, TypeOK, ServiceTypeOK
<1>7. QueueShape' /\ ActiveShape' /\ StepShape'
  BY <1>1, <1>3 DEF Inv, QueueShape, ActiveShape, StepShape
<1>8. SlotsMatchActive'
  BY <1>3, <1>4 DEF SlotsMatchActive
<1>9. KVHoldsHistory'
  BY <1>3, <1>5 DEF KVHoldsHistory
<1>10. AdmissionInOrder'
  BY <1>1 DEF Inv, AdmissionInOrder
<1>11. FirstPending' = FirstPending
  BY <1>1 DEF FirstPending
<1>12. IdsInFlight'
  <2> SUFFICES ASSUME NEW j \in Ids, j >= FirstPending PROVE done'[j] = "absent"
    BY <1>3, <1>11 DEF IdsInFlight
  <2>1. j \notin S
    BY Types, ActiveTypes DEF Inv, IdsInFlight, Ids
  <2> QED
    BY <1>2, <2>1 DEF Inv, IdsInFlight
<1>13. NoneForgotten'
  <2> SUFFICES ASSUME NEW j \in Ids, j < FirstPending, done'[j] = "absent" PROVE FALSE
    BY <1>11 DEF NoneForgotten
  <2>1. j \notin S /\ done[j] = "absent"
    BY <1>2
  <2> QED
    BY <1>1, <2>1 DEF Inv, NoneForgotten
<1> QED
  BY <1>6, <1>7, <1>8, <1>9, <1>10, <1>12, <1>13 DEF Inv

\* What retiring the request at the cursor leaves in flight.
LEMMA Survivors ==
  ASSUME Inv, Retire
  PROVE  /\ active' \in Seq(Request)
         /\ Len(active') = Len(active) - 1
         /\ cursor \in 1..Len(active)
         /\ \A j \in 1..Len(active') :
              /\ j < cursor => active'[j] = active[j] /\ j \in 1..Len(active)
              /\ ~(j < cursor) => active'[j] = active[j + 1] /\ j + 1 \in 1..Len(active)
         /\ \A i \in 1..Len(active) :
              i # cursor => \E j \in 1..Len(active') : active'[j] = active[i]
<1>1. cursor \in 1..Len(active) /\ active' = RemoveAt(active, cursor)
  BY DEF Retire, Sampling
<1>2. /\ active' \in Seq(Request)
      /\ Len(active') = Len(active) - 1
      /\ \A j \in 1..(Len(active) - 1) :
            active'[j] = IF j < cursor THEN active[j] ELSE active[j + 1]
  BY <1>1, Types, RemoveAtSeq
<1>3. ASSUME NEW j \in 1..Len(active')
      PROVE  /\ j < cursor => active'[j] = active[j] /\ j \in 1..Len(active)
             /\ ~(j < cursor) => active'[j] = active[j + 1] /\ j + 1 \in 1..Len(active)
  BY <1>2, Types
<1>4. ASSUME NEW i \in 1..Len(active), i # cursor
      PROVE  \E j \in 1..Len(active') : active'[j] = active[i]
  <2>1. CASE i < cursor
    <3>1. i \in 1..(Len(active) - 1)
      BY <1>1, <2>1, Types
    <3> QED
      BY <1>2, <2>1, <3>1
  <2>2. CASE i > cursor
    <3>1. i - 1 \in 1..(Len(active) - 1) /\ ~(i - 1 < cursor) /\ (i - 1) + 1 = i
      BY <1>1, <2>2, Types
    <3>2. active'[i - 1] = active[i]
      BY <1>2, <3>1
    <3> QED
      BY <1>2, <3>1, <3>2
  <2> QED
    BY <1>1, <1>4, <2>1, <2>2
<1> QED
  BY <1>1, <1>2, <1>3, <1>4

LEMMA RetireStep ==
  ASSUME Inv, Retire
  PROVE  Inv'
<1> DEFINE r == active[cursor]
           From(j) == IF j < cursor THEN j ELSE j + 1
<1>1. /\ pc = "sample" /\ cursor' = cursor
      /\ pc' = IF cursor > Len(active') THEN "idle" ELSE "sample"
      /\ slot_used' = [slot_used EXCEPT ![r.seq_id] = FALSE]
      /\ kv' = [kv EXCEPT ![r.seq_id] = <<>>]
      /\ UNCHANGED <<next_id, pending>>
  BY DEF Retire, Sampling, PcAfter
<1>2. PICK res \in Outcomes :
        done' = [i \in Ids |-> IF i \in {r.id} THEN res ELSE done[i]]
  BY DEF Retire, Complete
<1>3. /\ active' \in Seq(Request)
      /\ Len(active') = Len(active) - 1
      /\ cursor \in 1..Len(active)
  BY Survivors
<1>4. \A j \in 1..Len(active') :
        /\ active'[j] = active[From(j)]
        /\ From(j) \in 1..Len(active)
        /\ From(j) # cursor
        /\ (From(j) >= cursor) <=> (j >= cursor)
  BY <1>3, Survivors, Types
<1>5. \A i, j \in 1..Len(active') : From(i) = From(j) => i = j
  BY <1>3, Types
<1>6. \A i \in 1..Len(active) :
        i # cursor => \E j \in 1..Len(active') : active'[j] = active[i]
  BY Survivors
<1>7. r.id \in Ids /\ r.seq_id \in Slots
  BY <1>3, ActiveTypes
<1> HIDE DEF From
<1>8. \A j \in 1..Len(active) :
        j # cursor => active[j].seq_id # r.seq_id /\ active[j].id # r.id
  BY <1>1, <1>3 DEF Inv, SlotsMatchActive, IdsInFlight
<1>9. TypeOK'
  <2>1. done' \in [Ids -> Outcomes \cup {"absent"}]
    BY <1>2, Types
  <2>2. kv' \in [Slots -> Seq(Tokens)]
    BY <1>1, <1>7, Types
  <2>3. slot_used' \in [Slots -> BOOLEAN]
    BY <1>1, <1>7, Types
  <2> QED
    BY <1>1, <1>3, <2>1, <2>2, <2>3 DEF Inv, TypeOK, ServiceTypeOK
<1>10. QueueShape'
  BY <1>1 DEF Inv, QueueShape
<1>11. ActiveShape'
  BY <1>4 DEF Inv, ActiveShape, Shape
<1>12. StepShape'
  BY <1>1, <1>3, Types DEF StepShape
<1>13. SlotsMatchActive'
  <2>1. \A i, j \in 1..Len(active') :
           active'[i].seq_id = active'[j].seq_id => i = j
    BY <1>1, <1>4, <1>5 DEF Inv, SlotsMatchActive
  <2>2. ASSUME NEW t \in Slots
        PROVE  slot_used'[t] <=> \E i \in 1..Len(active') : active'[i].seq_id = t
    <3>1. slot_used'[t] <=> (slot_used[t] /\ t # r.seq_id)
      BY <1>1, <1>7, Types
    <3>2. slot_used[t] <=> \E i \in 1..Len(active) : active[i].seq_id = t
      BY <1>1 DEF Inv, SlotsMatchActive
    <3>3. ASSUME NEW i \in 1..Len(active'), active'[i].seq_id = t
          PROVE  slot_used'[t]
      BY <1>4, <1>8, <3>1, <3>2, <3>3
    <3>4. ASSUME slot_used'[t]
          PROVE  \E i \in 1..Len(active') : active'[i].seq_id = t
      <4>1. PICK i \in 1..Len(active) : active[i].seq_id = t /\ i # cursor
        BY <3>1, <3>2, <3>4
      <4>2. PICK j \in 1..Len(active') : active'[j] = active[i]
        BY <1>6, <4>1
      <4> QED
        BY <4>1, <4>2
    <3> QED
      BY <3>3, <3>4
  <2> QED
    BY <2>1, <2>2 DEF SlotsMatchActive
<1>14. KVHoldsHistory'
  <2>1. ASSUME NEW j \in 1..Len(active')
        PROVE  kv'[active'[j].seq_id] = IF pc' = "sample" /\ j >= cursor'
                                        THEN active'[j].history
                                        ELSE SubSeq(active'[j].history, 1, active'[j].n_past)
    <3> DEFINE i == From(j)
    <3>1. /\ i \in 1..Len(active) /\ active'[j] = active[i] /\ i # cursor
          /\ (i >= cursor) <=> (j >= cursor)
      BY <1>4
    <3> HIDE DEF i
    <3>2. kv'[active[i].seq_id] = kv[active[i].seq_id]
      BY <1>1, <1>7, <1>8, <3>1, Types, ActiveTypes
    <3>3. kv[active[i].seq_id] = IF i >= cursor
                                 THEN active[i].history
                                 ELSE SubSeq(active[i].history, 1, active[i].n_past)
      BY <1>1, <3>1 DEF Inv, KVHoldsHistory
    <3>4. j >= cursor => pc' = "sample"
      BY <1>1, <1>3, Types
    <3> QED
      BY <1>1, <3>1, <3>2, <3>3, <3>4
  <2>2. ASSUME NEW t \in Slots, \A i \in 1..Len(active') : active'[i].seq_id # t
        PROVE  kv'[t] = <<>>
    <3>1. CASE t = r.seq_id
      BY <1>1, <1>7, <3>1, Types
    <3>2. CASE t # r.seq_id
      <4>1. \A i \in 1..Len(active) : active[i].seq_id # t
        BY <1>6, <2>2, <3>2
      <4>2. kv[t] = <<>>
        BY <4>1 DEF Inv, KVHoldsHistory
      <4> QED
        BY <1>1, <3>2, <4>2, Types
    <3> QED
      BY <3>1, <3>2
  <2> QED
    BY <2>1, <2>2 DEF KVHoldsHistory
<1>15. AdmissionInOrder' /\ FirstPending' = FirstPending
  BY <1>1 DEF Inv, AdmissionInOrder, FirstPending
<1>16. IdsInFlight'
  <2>1. ASSUME NEW j \in Ids, j >= FirstPending PROVE done'[j] = "absent"
    <3>1. r.id < FirstPending /\ done[j] = "absent"
      BY <1>3, <2>1 DEF Inv, IdsInFlight
    <3> QED
      BY <1>2, <1>7, <2>1, <3>1, Types DEF Ids
  <2>2. ASSUME NEW j \in 1..Len(active')
        PROVE  active'[j].id < FirstPending /\ done'[active'[j].id] = "absent"
    <3>1. /\ From(j) \in 1..Len(active) /\ active'[j] = active[From(j)]
          /\ active[From(j)].id # r.id
      BY <1>4, <1>8
    <3>2. /\ active[From(j)].id < FirstPending
          /\ done[active[From(j)].id] = "absent"
          /\ active[From(j)].id \in Ids
      BY <3>1, ActiveTypes DEF Inv, IdsInFlight
    <3> QED
      BY <1>2, <3>1, <3>2
  <2>3. \A i, j \in 1..Len(active') : active'[i].id = active'[j].id => i = j
    BY <1>4, <1>5 DEF Inv, IdsInFlight
  <2> QED
    BY <1>15, <2>1, <2>2, <2>3 DEF IdsInFlight
<1>17. NoneForgotten'
  <2> SUFFICES ASSUME NEW j \in Ids, j < FirstPending, done'[j] = "absent"
               PROVE  \E i \in 1..Len(active') : active'[i].id = j
    BY <1>15 DEF NoneForgotten
  <2>1. j # r.id /\ done[j] = "absent"
    BY <1>2 DEF Outcomes
  <2>2. PICK i \in 1..Len(active) : active[i].id = j /\ i # cursor
    BY <1>1, <2>1 DEF Inv, NoneForgotten
  <2>3. PICK k \in 1..Len(active') : active'[k] = active[i]
    BY <1>6, <2>2
  <2> QED
    BY <2>2, <2>3
<1> QED
  BY <1>9, <1>10, <1>11, <1>12, <1>13, <1>14, <1>15, <1>16, <1>17 DEF Inv

LEMMA ContinueStep ==
  ASSUME Inv, Continue
  PROVE  Inv'
<1> DEFINE r == active[cursor]
           n == Len(active)
<1>1. PICK t \in Tokens :
        active' = [active EXCEPT ![cursor] =
                     [Advanced EXCEPT !.history = Append(@, t), !.emitted = @ + 1]]
  BY DEF Continue
<1> DEFINE q == [Advanced EXCEPT !.history = Append(@, t), !.emitted = @ + 1]
<1>2. /\ pc = "sample" /\ cursor \in 1..n /\ cursor' = cursor + 1
      /\ pc' = IF cursor + 1 > Len(active') THEN "idle" ELSE "sample"
      /\ UNCHANGED <<next_id, pending, done, slot_used, kv>>
  BY DEF Continue, Sampling, PcAfter
<1>3. /\ r \in Request /\ r.history \in Seq(Tokens) /\ r.n_past \in Nat
      /\ r.needs_prefill \in BOOLEAN /\ r.prompt_len \in Nat
      /\ r.seq_id \in Slots /\ Shape(r)
  BY <1>2, ActiveTypes
<1>4. r.n_past + Len(SliceTokens(r)) = Len(r.history)
  <2>1. CASE r.needs_prefill
    BY <1>3, <2>1 DEF Shape, SliceTokens
  <2>2. CASE ~r.needs_prefill
    BY <1>3, <2>2 DEF Shape, SliceTokens
  <2> QED
    BY <2>1, <2>2
<1>5. /\ q \in Request
      /\ q.id = r.id /\ q.seq_id = r.seq_id /\ q.prompt_len = r.prompt_len
      /\ q.history = Append(r.history, t)
      /\ q.n_past = Len(r.history)
      /\ q.needs_prefill = FALSE
  <2>1. Advanced = [r EXCEPT !.n_past = Len(r.history), !.needs_prefill = FALSE]
    BY <1>4 DEF Advanced
  <2>2. Len(r.history) \in Nat /\ FALSE \in BOOLEAN
    BY <1>3
  <2>3. /\ Advanced \in Request
        /\ Advanced.id = r.id /\ Advanced.seq_id = r.seq_id
        /\ Advanced.prompt_len = r.prompt_len
        /\ Advanced.history = r.history
        /\ Advanced.n_past = Len(r.history)
        /\ Advanced.needs_prefill = FALSE
    BY <1>3, <2>1, <2>2 DEF Request
  <2>4. Advanced.emitted + 1 \in Nat /\ Append(r.history, t) \in Seq(Tokens)
    BY <1>3, <2>3 DEF Request
  <2>5. q = [Advanced EXCEPT !.history = Append(r.history, t),
                             !.emitted = Advanced.emitted + 1]
    BY <2>3
  <2> HIDE DEF q, r
  <2> QED
    BY <2>3, <2>4, <2>5 DEF Request
<1>6. Shape(q)
  <2> HIDE DEF q
  <2>1. Len(q.history) = Len(r.history) + 1 /\ Len(r.history) \in Nat
    BY <1>3, <1>5
  <2> QED
    BY <1>3, <1>5, <2>1 DEF Shape
<1> HIDE DEF q
<1>7. /\ active' \in Seq(Request) /\ Len(active') = n
      /\ active'[cursor] = q
      /\ \A i \in 1..n : i # cursor => active'[i] = active[i]
  <2>1. active' = [active EXCEPT ![cursor] = q]
    BY <1>1 DEF q
  <2> QED
    BY <1>2, <1>5, <2>1, Types, ExceptSeq
<1>8. \A i \in 1..n : active'[i].id = active[i].id /\ active'[i].seq_id = active[i].seq_id
  BY <1>5, <1>7
<1>9. TypeOK'
  BY <1>2, <1>7 DEF Inv, TypeOK, ServiceTypeOK
<1>10. QueueShape' /\ AdmissionInOrder' /\ FirstPending' = FirstPending
  BY <1>2 DEF Inv, QueueShape, AdmissionInOrder, FirstPending
<1>11. ActiveShape'
  <2>1. ASSUME NEW i \in 1..n
        PROVE  active'[i].seq_id \in Slots /\ Shape(active'[i])
    BY <1>3, <1>5, <1>6, <1>7 DEF Inv, ActiveShape
  <2> QED
    BY <1>7, <2>1 DEF ActiveShape, Shape
<1>12. StepShape'
  BY <1>2, <1>7, Types DEF StepShape
<1>13. SlotsMatchActive'
  BY <1>2, <1>7, <1>8 DEF Inv, SlotsMatchActive
<1>14. KVHoldsHistory'
  <2>1. ASSUME NEW i \in 1..n, i # cursor
        PROVE  kv'[active'[i].seq_id] = IF pc' = "sample" /\ i >= cursor'
                                        THEN active'[i].history
                                        ELSE SubSeq(active'[i].history, 1, active'[i].n_past)
    <3>1. active'[i] = active[i] /\ (i >= cursor <=> i >= cursor + 1)
      BY <1>2, <1>7, <2>1, Types
    <3>2. kv[active[i].seq_id] = IF i >= cursor
                                 THEN active[i].history
                                 ELSE SubSeq(active[i].history, 1, active[i].n_past)
      BY <1>2 DEF Inv, KVHoldsHistory
    <3>3. i >= cursor + 1 => pc' = "sample"
      BY <1>2, <1>7, Types
    <3> QED
      BY <1>2, <3>1, <3>2, <3>3
  <2>2. kv'[q.seq_id] = SubSeq(q.history, 1, q.n_past)
    <3>1. kv[r.seq_id] = r.history
      BY <1>2, Types DEF Inv, KVHoldsHistory
    <3>2. SubSeq(Append(r.history, t), 1, Len(r.history)) = r.history
      BY <1>3, BeforeAppend
    <3> QED
      BY <1>2, <1>5, <3>1, <3>2
  <2>3. ~(cursor >= cursor')
    BY <1>2, Types
  <2>4. ASSUME NEW s \in Slots, \A i \in 1..Len(active') : active'[i].seq_id # s
        PROVE  kv'[s] = <<>>
    BY <1>2, <1>7, <1>8, <2>4 DEF Inv, KVHoldsHistory
  <2> QED
    BY <1>7, <2>1, <2>2, <2>3, <2>4 DEF KVHoldsHistory
<1>15. IdsInFlight'
  BY <1>2, <1>7, <1>8, <1>10 DEF Inv, IdsInFlight
<1>16. NoneForgotten'
  BY <1>2, <1>7, <1>8, <1>10 DEF Inv, NoneForgotten
<1> QED
  BY <1>9, <1>10, <1>11, <1>12, <1>13, <1>14, <1>15, <1>16 DEF Inv

LEMMA InvStep == Inv /\ [Next]_vars => Inv'
<1> SUFFICES ASSUME Inv, [Next]_vars PROVE Inv'
  OBVIOUS
<1>1. ASSUME NEW p \in Prompts, NEW m \in MaxTokens, Submit(p, m) PROVE Inv'
  BY <1>1, SubmitStep
<1>2. CASE StepBegin \/ AdmitEnd \/ Dead \/ UNCHANGED vars
  BY <1>2, QuietStep
<1>3. CASE AdmitPrefill \/ AdmitClone
  BY <1>3, AdmitCases, AdmittedStep
<1>4. CASE AdmitThrows
  BY <1>4, ThrowsStep
<1>5. CASE DecodeOk
  BY <1>5, DecodeOkStep
<1>6. CASE DecodeFail
  BY <1>6, DecodeFailStep
<1>7. CASE SampleEnd \/ SampleThrows \/ \E t \in Tokens, k \in BOOLEAN : SampleToken(t, k)
  BY <1>7, SampleCases, RetireStep, ContinueStep
<1> QED
  BY <1>1, <1>2, <1>3, <1>4, <1>5, <1>6, <1>7 DEF Next, StepRest

LEMMA SpecInv == Spec => []Inv
BY InitInv, InvStep, PTL DEF Spec

-----------------------------------------------------------------------------
(* The size of a batch                                                     *)

SliceLengths == [i \in 1..Len(active) |-> Len(SliceTokens(active[i]))]

\* Admission leaves room for every slice.  Between two steps a request needs
\* one token, and no more requests are in flight than cells were needed to
\* admit them.
BatchRoom ==
  /\ pc \in {"admit", "decode"} => Total(SliceLengths) <= n_ctx
  /\ pc \in {"sample", "idle"} => Len(active) <= n_ctx
  /\ pc = "idle" => \A i \in 1..Len(active) : ~active[i].needs_prefill
  /\ pc = "sample" => \A i \in 1..Len(active) : i < cursor => ~active[i].needs_prefill

\* The slices of requests in flight are one token or the whole history.
LEMMA SliceFacts ==
  ASSUME Inv, NEW i \in 1..Len(active)
  PROVE  /\ Len(SliceTokens(active[i])) \in Nat /\ Len(active[i].history) \in Nat
         /\ 1 <= Len(SliceTokens(active[i]))
         /\ Len(SliceTokens(active[i])) <= Len(active[i].history)
         /\ ~active[i].needs_prefill => Len(SliceTokens(active[i])) = 1
<1> DEFINE r == active[i]
           h == r.history
<1>1. h \in Seq(Tokens) /\ r.needs_prefill \in BOOLEAN /\ r.prompt_len \in 1..Len(h)
  BY ActiveTypes DEF Shape
<1>2. Len(h) \in Nat /\ 1 <= Len(h)
  BY <1>1
<1>3. CASE r.needs_prefill
  <2>1. SliceTokens(r) = h
    BY <1>3 DEF SliceTokens
  <2> QED
    BY <1>2, <1>3, <2>1
<1>4. CASE ~r.needs_prefill
  <2>1. SliceTokens(r) = <<Last(h)>>
    BY <1>4 DEF SliceTokens
  <2>2. Len(<<Last(h)>>) = 1
    OBVIOUS
  <2> QED
    BY <1>2, <2>1, <2>2
<1> QED
  BY <1>1, <1>3, <1>4

\* A batch has a token for each request, and no more than the histories.
LEMMA BatchBounds ==
  ASSUME Inv
  PROVE  /\ Total(SliceLengths) \in Nat /\ Len(active) <= Total(SliceLengths)
         /\ cells_used \in Nat /\ Total(SliceLengths) <= cells_used
<1> DEFINE N == 1..Len(active)
           one == [i \in N |-> 1]
           sl == SliceLengths
           hl == [i \in N |-> Len(active[i].history)]
           g == [i \in N |-> i]
<1>1. Len(active) \in Nat
  BY Types
<1>2. DOMAIN one = N /\ DOMAIN sl = N /\ DOMAIN hl = N
  BY DEF SliceLengths
<1>3. /\ \A i \in N : one[i] = 1 /\ one[i] \in Nat /\ g[i] = i
      /\ \A i \in N : sl[i] \in Nat /\ hl[i] \in Nat /\ one[i] <= sl[i] /\ sl[i] <= hl[i]
  BY SliceFacts DEF SliceLengths
<1>4. g \in [N -> N]
  OBVIOUS
<1>5. IsFiniteSet(N)
  <2>1. \A a, b \in Int : IsFiniteSet(a..b)
    BY FS_Interval
  <2> QED
    BY <1>1, <2>1
<1>6. cells_used = Total(hl)
  BY DEF cells_used
<1>7. IsFiniteSet(Cells(one)) /\ Total(one) = Len(active)
  <2> HIDE DEF one
  <2> QED
    BY <1>1, <1>2, <1>3, TotalOfOnes
<1> HIDE DEF N, one, sl, hl, g
<1>8. IsFiniteSet(Cells(sl)) /\ IsFiniteSet(Cells(hl))
  BY <1>2, <1>3, <1>5, CellsFinite
<1>9. Total(one) <= Total(sl)
  <2>1. /\ g \in [DOMAIN one -> DOMAIN sl]
        /\ \A i \in DOMAIN one : one[i] \in Nat /\ sl[g[i]] \in Nat /\ one[i] <= sl[g[i]]
        /\ \A i, j \in DOMAIN one : g[i] = g[j] => i = j
    BY <1>2, <1>3, <1>4
  <2> QED
    BY <1>8, <2>1, TotalInto
<1>10. Total(sl) <= Total(hl)
  <2>1. /\ g \in [DOMAIN sl -> DOMAIN hl]
        /\ \A i \in DOMAIN sl : sl[i] \in Nat /\ hl[g[i]] \in Nat /\ sl[i] <= hl[g[i]]
        /\ \A i, j \in DOMAIN sl : g[i] = g[j] => i = j
    BY <1>2, <1>3, <1>4
  <2> QED
    BY <1>8, <2>1, TotalInto
<1>11. Total(sl) \in Nat /\ Total(hl) \in Nat
  BY <1>8, TotalIsNatural
<1> QED
  BY <1>1, <1>6, <1>7, <1>9, <1>10, <1>11 DEF sl

BatchBounded == /\ Total(SliceLengths) \in Nat /\ cells_used \in Nat
                /\ Total(SliceLengths) <= cells_used

LEMMA BoundsNext == Inv' => BatchBounded'
<1>1. Inv => BatchBounded
  BY BatchBounds DEF BatchBounded
<1> QED
  BY <1>1, PTL

LEMMA BatchOfOnes ==
  ASSUME Inv, \A i \in 1..Len(active) : ~active[i].needs_prefill
  PROVE  Total(SliceLengths) = Len(active)
<1>1. /\ Len(active) \in Nat /\ DOMAIN SliceLengths = 1..Len(active)
      /\ \A i \in 1..Len(active) : SliceLengths[i] = 1
  BY Types, SliceFacts DEF SliceLengths
<1> QED
  BY <1>1, TotalOfOnes

\* The loop condition of admit() bounds what it will have counted.
LEMMA AdmittedFits ==
  ASSUME Inv, Inv', AdmitPrefill \/ AdmitClone
  PROVE  Total(SliceLengths)' <= n_ctx
<1> DEFINE n == Len(active)
           hl == [i \in 1..n |-> Len(active[i].history)]
<1>1. PICK h : h = Head(pending).history
  OBVIOUS
<1>2. pending # <<>> /\ cells_used + Len(h) <= n_ctx
  BY <1>1 DEF AdmitPrefill, AdmitClone, CanAdmit
<1>3. Head(pending) \in Request /\ h \in Seq(Tokens) /\ Len(h) \in Nat
  BY <1>1, <1>2, PendingHead
<1>4. PICK r : active' = Append(active, r) /\ r.history = h
  <2>1. CASE AdmitPrefill
    <3>1. active' = Append(active, [Head(pending) EXCEPT !.seq_id = FreeSlot])
      BY <2>1 DEF AdmitPrefill
    <3>2. [Head(pending) EXCEPT !.seq_id = FreeSlot].history = h
      BY <1>1, <1>3 DEF Request
    <3> QED
      BY <3>1, <3>2
  <2>2. CASE AdmitClone
    <3>1. active' = Append(active, [Head(pending) EXCEPT !.seq_id = FreeSlot,
                              !.n_past = Head(pending).prompt_len - 1, !.needs_prefill = FALSE])
      BY <2>2 DEF AdmitClone
    <3>2. [Head(pending) EXCEPT !.seq_id = FreeSlot,
             !.n_past = Head(pending).prompt_len - 1, !.needs_prefill = FALSE].history = h
      BY <1>1, <1>3 DEF Request
    <3> QED
      BY <3>1, <3>2
  <2> QED
    BY <2>1, <2>2
<1>5. active \in Seq(Request) /\ n \in Nat
  BY Types
<1>6. /\ Len(active') = n + 1 /\ active'[n + 1] = r
      /\ \A i \in 1..n : active'[i] = active[i]
  BY <1>4, <1>5
<1>7. PICK hl2 : hl2 = [i \in 1..Len(active') |-> Len(active'[i].history)]
  OBVIOUS
<1>8. /\ DOMAIN hl = 1..n /\ n + 1 \notin DOMAIN hl
      /\ \A i \in 1..n : hl[i] = Len(active[i].history) /\ hl[i] \in Nat
  BY <1>5, SliceFacts
<1>9. /\ DOMAIN hl2 = DOMAIN hl \cup {n + 1} /\ hl2[n + 1] = Len(h)
      /\ \A i \in DOMAIN hl : hl2[i] = hl[i]
  BY <1>4, <1>5, <1>6, <1>7, <1>8
<1>10. cells_used = Total(hl) /\ cells_used' = Total(hl2)
  BY <1>7 DEF cells_used
<1>11. IsFiniteSet(1..n)
  <2>1. \A a, b \in Int : IsFiniteSet(a..b)
    BY FS_Interval
  <2> QED
    BY <1>5, <2>1
<1> HIDE DEF hl, n
<1>12. IsFiniteSet(Cells(hl))
  BY <1>8, <1>11, CellsFinite
<1>13. Total(hl2) = Total(hl) + Len(h)
  <2>1. PICK k : k = n + 1
    OBVIOUS
  <2>2. PICK m \in Nat : m = Len(h)
    BY <1>3
  <2>3. k \notin DOMAIN hl /\ DOMAIN hl2 = DOMAIN hl \cup {k} /\ hl2[k] = m
    BY <1>8, <1>9, <2>1, <2>2
  <2>4. \A i \in DOMAIN hl : hl2[i] = hl[i]
    BY <1>9
  <2>5. Total(hl2) = Total(hl) + m
    BY <1>12, <2>3, <2>4, TotalWith
  <2> QED
    BY <2>2, <2>5
<1>14. Total(SliceLengths)' \in Nat /\ cells_used' \in Nat /\ Total(SliceLengths)' <= cells_used'
  BY BoundsNext DEF BatchBounded
<1> QED
  BY <1>2, <1>10, <1>13, <1>14

\* A request that goes on has its prompt behind it.
LEMMA ContinuedRequest ==
  ASSUME Inv, Continue
  PROVE  /\ Len(active') = Len(active) /\ cursor \in 1..Len(active)
         /\ ~active'[cursor].needs_prefill
         /\ \A i \in 1..Len(active) : i # cursor => active'[i] = active[i]
<1>1. PICK t \in Tokens :
        active' = [active EXCEPT ![cursor] =
                     [Advanced EXCEPT !.history = Append(@, t), !.emitted = @ + 1]]
  BY DEF Continue
<1>2. cursor \in 1..Len(active) /\ active \in Seq(Request)
  BY Types DEF Continue, Sampling
<1>3. active[cursor] \in Request
  BY <1>2, ElementOfSeq
<1>4. PICK q : q = [Advanced EXCEPT !.history = Append(@, t), !.emitted = @ + 1]
  OBVIOUS
<1>5. q.needs_prefill = FALSE
  <2>1. PICK r \in Request : r = active[cursor]
    BY <1>3
  <2>2. Advanced = [r EXCEPT !.n_past = r.n_past + Len(SliceTokens(r)), !.needs_prefill = FALSE]
    BY <2>1 DEF Advanced
  <2> QED
    BY <1>4, <2>1, <2>2 DEF Request
<1>6. active' = [active EXCEPT ![cursor] = q]
  BY <1>1, <1>4
<1>7. /\ Len(active') = Len(active) /\ active'[cursor] = q
      /\ \A i \in 1..Len(active) : i # cursor => active'[i] = active[i]
  BY <1>2, <1>6
<1> QED
  BY <1>2, <1>5, <1>7

LEMMA BatchStep == Inv /\ Inv' /\ BatchRoom /\ [Next]_vars => BatchRoom'
<1> SUFFICES ASSUME Inv, Inv', BatchRoom, [Next]_vars PROVE BatchRoom'
  OBVIOUS
<1>0. n_ctx \in Nat /\ 0 <= n_ctx /\ Len(active) \in Nat /\ cursor \in Nat
  BY Types
<1>1. ASSUME UNCHANGED <<active, pc, cursor>> PROVE BatchRoom'
  BY <1>1 DEF BatchRoom, SliceLengths, SliceTokens
<1>2. ASSUME NEW p \in Prompts, NEW m \in MaxTokens, Submit(p, m) PROVE BatchRoom'
  BY <1>1, <1>2 DEF Submit
<1>3. CASE Dead \/ UNCHANGED vars
  BY <1>1, <1>3 DEF Dead, vars
<1>4. CASE StepBegin
  <2>1. pc = "idle" /\ pc' = "admit" /\ active' = active
    BY <1>4 DEF StepBegin
  <2>2. Total(SliceLengths) = Len(active) /\ Len(active) <= n_ctx
    BY <2>1, BatchOfOnes DEF BatchRoom
  <2>3. SliceLengths' = SliceLengths
    BY <2>1 DEF SliceLengths, SliceTokens
  <2> QED
    BY <2>1, <2>2, <2>3 DEF BatchRoom
<1>5. CASE AdmitEnd
  <2>1. /\ pc = "admit" /\ active' = active
        /\ active = <<>> => pc' = "idle"
        /\ active # <<>> => pc' = "decode"
    BY <1>5 DEF AdmitEnd
  <2>2. SliceLengths' = SliceLengths
    BY <2>1 DEF SliceLengths, SliceTokens
  <2>3. CASE active = <<>>
    <3>1. Len(active') = 0 /\ pc' = "idle"
      BY <2>1, <2>3
    <3> QED
      BY <1>0, <3>1 DEF BatchRoom
  <2>4. CASE active # <<>>
    BY <2>1, <2>2, <2>4 DEF BatchRoom
  <2> QED
    BY <2>3, <2>4
<1>6. CASE AdmitPrefill \/ AdmitClone
  <2>1. pc' = "admit"
    BY <1>6 DEF AdmitPrefill, AdmitClone
  <2>2. Total(SliceLengths)' <= n_ctx
    BY <1>6, AdmittedFits
  <2> QED
    BY <2>1, <2>2 DEF BatchRoom
<1>7. CASE AdmitThrows
  BY <1>7 DEF AdmitThrows, BatchRoom
<1>8. CASE DecodeOk
  <2>1. pc = "decode" /\ pc' = "sample" /\ cursor' = 1 /\ active' = active
    BY <1>8 DEF DecodeOk
  <2>2. Len(active) <= n_ctx
    BY <1>0, <2>1, BatchBounds DEF BatchRoom
  <2> QED
    BY <1>0, <2>1, <2>2 DEF BatchRoom
<1>9. CASE DecodeFail
  <2>1. pc' = "idle" /\ Len(active') = 0
    BY <1>9 DEF DecodeFail
  <2> QED
    BY <1>0, <2>1 DEF BatchRoom
<1>10. ASSUME Retire PROVE BatchRoom'
  <2>1. /\ pc = "sample" /\ cursor' = cursor /\ cursor \in 1..Len(active)
        /\ Len(active') = Len(active) - 1
        /\ pc' = IF cursor > Len(active') THEN "idle" ELSE "sample"
    BY <1>10, Survivors DEF Retire, Sampling, PcAfter
  <2>2. \A j \in 1..Len(active') : j < cursor => active'[j] = active[j] /\ j \in 1..Len(active)
    BY <1>10, Survivors
  <2>3. \A j \in 1..Len(active') : j < cursor => ~active'[j].needs_prefill
    BY <2>1, <2>2 DEF BatchRoom
  <2>4. Len(active') <= n_ctx
    BY <1>0, <2>1 DEF BatchRoom
  <2> QED
    BY <1>0, <2>1, <2>3, <2>4 DEF BatchRoom
<1>11. ASSUME Continue PROVE BatchRoom'
  <2>1. /\ pc = "sample" /\ cursor' = cursor + 1
        /\ pc' = IF cursor + 1 > Len(active') THEN "idle" ELSE "sample"
    BY <1>11 DEF Continue, Sampling, PcAfter
  <2>2. /\ Len(active') = Len(active) /\ cursor \in 1..Len(active)
        /\ ~active'[cursor].needs_prefill
        /\ \A i \in 1..Len(active) : i # cursor => active'[i] = active[i]
    BY <1>11, ContinuedRequest
  <2>3. \A i \in 1..Len(active') : i < cursor + 1 => ~active'[i].needs_prefill
    <3>1. SUFFICES ASSUME NEW i \in 1..Len(active), i < cursor + 1
                   PROVE  ~active'[i].needs_prefill
      BY <2>2
    <3>2. CASE i = cursor
      BY <2>2, <3>2
    <3>3. CASE i < cursor
      BY <2>1, <2>2, <3>3 DEF BatchRoom
    <3> QED
      BY <1>0, <3>1, <3>2, <3>3
  <2> QED
    BY <1>0, <2>1, <2>2, <2>3 DEF BatchRoom
<1>12. CASE SampleEnd \/ SampleThrows \/ \E t \in Tokens, k \in BOOLEAN : SampleToken(t, k)
  BY <1>10, <1>11, <1>12, SampleCases
<1> QED
  BY <1>2, <1>3, <1>4, <1>5, <1>6, <1>7, <1>8, <1>9, <1>12 DEF Next, StepRest

-----------------------------------------------------------------------------
(* Theorems                                                                *)

\* The queue, the requests in flight, the slots and the KV keep their types
\* through admissions, clones, failed batches and retirements.
THEOREM TypeCorrect == Spec => []TypeOK
<1>1. Inv => TypeOK
  BY DEF Inv
<1> QED
  BY <1>1, SpecInv, PTL

\* No two requests in flight share a sequence and slot_used marks exactly
\* the sequences in flight, for any n_parallel.
THEOREM SlotsCorrect == Spec => []SlotsMatchActive
<1>1. Inv => SlotsMatchActive
  BY DEF Inv
<1> QED
  BY <1>1, SpecInv, PTL

\* The KV of each sequence in flight holds exactly its request's history up
\* to n_past, also for clones and reused slots.
THEOREM KVCorrect == Spec => []KVHoldsHistory
<1>1. Inv => KVHoldsHistory
  BY DEF Inv
<1> QED
  BY <1>1, SpecInv, PTL

\* The slices of a batch continue their sequences without gap or overlap.
THEOREM SlicesCorrect == Spec => []SlicesContiguous
<1>1. Inv => SlicesContiguous
  <2> SUFFICES ASSUME Inv, pc = "decode", NEW i \in 1..Len(active)
               PROVE  SlicePos(active[i]) = Len(kv[active[i].seq_id])
    BY DEF SlicesContiguous
  <2>1. /\ active[i].history \in Seq(Tokens) /\ active[i].n_past \in Nat
        /\ active[i].needs_prefill \in BOOLEAN /\ Shape(active[i])
    BY ActiveTypes
  <2>2. kv[active[i].seq_id] = SubSeq(active[i].history, 1, active[i].n_past)
    BY DEF Inv, KVHoldsHistory
  <2>3. active[i].n_past \in 0..Len(active[i].history)
    BY <2>1 DEF Shape
  <2>4. Len(kv[active[i].seq_id]) = active[i].n_past
    BY <2>1, <2>2, <2>3
  <2> QED
    BY <2>1, <2>4 DEF SlicePos, Shape
<1> QED
  BY <1>1, SpecInv, PTL

\* Requests are admitted in the order of their ids.
THEOREM OrderCorrect == Spec => []AdmissionInOrder
<1>1. Inv => AdmissionInOrder
  BY DEF Inv
<1> QED
  BY <1>1, SpecInv, PTL

\* Every id handed out is in exactly one of the queue, the batch and the
\* completion map, until copy_seq() ends the process.
THEOREM NothingLost == Spec => []NoRequestLost
<1>1. Inv => NoRequestLost
  <2> SUFFICES ASSUME Inv, pc # "dead", NEW req \in 1..(next_id - 1)
               PROVE  LET P == {i \in 1..Len(pending) : pending[i].id = req}
                          A == {i \in 1..Len(active) : active[i].id = req}
                      IN  IF done[req] # "absent"
                          THEN P = {} /\ A = {}
                          ELSE \/ P = {} /\ \E i \in A : A = {i}
                               \/ A = {} /\ \E i \in P : P = {i}
    BY DEF NoRequestLost
  <2> DEFINE P == {i \in 1..Len(pending) : pending[i].id = req}
             A == {i \in 1..Len(active) : active[i].id = req}
  <2>1. /\ req \in Ids /\ req \in Int /\ req < next_id /\ next_id \in Int
        /\ Len(pending) \in Nat /\ FirstPending \in Int
    BY Types DEF Ids
  <2>2. \A i \in 1..Len(pending) : pending[i].id = FirstPending + i - 1
    BY <2>1 DEF Inv, AdmissionInOrder, FirstPending
  <2>3. \A i \in 1..Len(active) :
           active[i].id < FirstPending /\ done[active[i].id] = "absent"
    BY DEF Inv, IdsInFlight
  <2>4. CASE req >= FirstPending
    <3>1. done[req] = "absent"
      BY <2>1, <2>4 DEF Inv, IdsInFlight
    <3>2. A = {}
      BY <2>1, <2>3, <2>4
    <3> DEFINE n == req - FirstPending + 1
    <3>3. n \in 1..Len(pending)
      BY <2>1, <2>4 DEF FirstPending
    <3>4. \A i \in 1..Len(pending) : pending[i].id = req <=> i = n
      BY <2>1, <2>2, <3>3, SMTT(30)
    <3>5. n \in P /\ P = {n}
      BY <3>3, <3>4
    <3> QED
      BY <3>1, <3>2, <3>5
  <2>5. CASE req < FirstPending
    <3>1. P = {}
      BY <2>1, <2>2, <2>5
    <3>2. CASE done[req] # "absent"
      BY <2>3, <3>1, <3>2
    <3>3. CASE done[req] = "absent"
      <4>1. PICK n \in 1..Len(active) : active[n].id = req
        BY <2>1, <2>5, <3>3 DEF Inv, NoneForgotten
      <4>2. n \in A /\ A = {n}
        BY <4>1 DEF Inv, IdsInFlight
      <4> QED
        BY <3>1, <3>3, <4>2
    <3> QED
      BY <3>2, <3>3
  <2> QED
    BY <2>1, <2>4, <2>5
<1> QED
  BY <1>1, SpecInv, PTL

\* ids in flight are owed a completion
LEMMA InFlightOutstanding ==
  ASSUME Inv, NEW i \in 1..Len(active)
  PROVE  active[i].id \in Outstanding
<1>1. active[i].id < FirstPending /\ done[active[i].id] = "absent"
  BY DEF Inv, IdsInFlight
<1>2. active[i].id \in Ids /\ next_id \in Int /\ Len(pending) \in Nat
  BY ActiveTypes, Types
<1> QED
  BY <1>1, <1>2 DEF Outstanding, FirstPending, Ids

LEMMA ServiceStep == Inv /\ [Next]_vars => [ServiceNext]_serviceVars
<1> SUFFICES ASSUME Inv, [Next]_vars PROVE [ServiceNext]_serviceVars
  OBVIOUS
<1>1. ASSUME NEW p \in Prompts, NEW m \in MaxTokens, Submit(p, m)
      PROVE  [ServiceNext]_serviceVars
  BY <1>1 DEF Submit, ServiceNext
<1>2. CASE StepBegin \/ AdmitEnd \/ AdmitPrefill \/ AdmitClone \/ AdmitThrows
  BY <1>2 DEF StepBegin, AdmitEnd, AdmitPrefill, AdmitClone, AdmitThrows, serviceVars
<1>3. CASE DecodeOk \/ Dead \/ UNCHANGED vars
  BY <1>3 DEF DecodeOk, Dead, vars, serviceVars
<1>4. CASE DecodeFail
  <2> DEFINE S == {active[i].id : i \in 1..Len(active)}
  <2>1. S \in SUBSET Outstanding
    BY InFlightOutstanding
  <2>2. 1 \in 1..Len(active)
    BY <1>4, Types DEF DecodeFail, Inv, StepShape
  <2>3. S # {}
    BY <2>2
  <2>4. Complete(S, "error")
    BY <1>4 DEF DecodeFail
  <2> QED
    BY <2>1, <2>3, <2>4 DEF ServiceNext, ServiceComplete, Outcomes
<1>5. CASE SampleEnd \/ SampleThrows \/ \E t \in Tokens, k \in BOOLEAN : SampleToken(t, k)
  <2>1. CASE Retire
    <3>1. PICK res \in Outcomes : Complete({active[cursor].id}, res)
      BY <2>1 DEF Retire
    <3>2. {active[cursor].id} \in (SUBSET Outstanding) \ {{}}
      BY <2>1, InFlightOutstanding DEF Retire, Sampling
    <3> QED
      BY <3>1, <3>2 DEF ServiceNext, ServiceComplete
  <2>2. CASE Continue
    BY <2>2 DEF Continue, serviceVars
  <2> QED
    BY <1>5, <2>1, <2>2, SampleCases
<1> QED
  BY <1>1, <1>2, <1>3, <1>4, <1>5 DEF Next, StepRest

\* The scheduler implements its service: every step of submit(), admit(),
\* the batch and the sampling loop is a submission, a completion of
\* requests that were owed one, or invisible to callers.
THEOREM ImplementsService == Spec => ServiceSpec
<1>1. InitScheduler => ServiceInit
  BY DEF InitScheduler
<1> QED
  BY <1>1, SpecInv, ServiceStep, PTL DEF Spec, ServiceSpec

\* A completed request stays completed, and in the sampling loop only the
\* request whose turn it is can be completed.
THEOREM FaultsIsolated == Spec => FaultsAreIsolated
<1> DEFINE Step == LET Ended == {i \in Ids : done'[i] # done[i]} IN
                     /\ \A i \in Ended : done[i] = "absent"
                     /\ pc = "sample" => \A i \in Ended : i = active[cursor].id
<1>1. ASSUME Inv, [Next]_vars PROVE [Step]_vars
  <2>1. ASSUME UNCHANGED done PROVE Step
    BY <2>1
  <2>2. ASSUME NEW p \in Prompts, NEW m \in MaxTokens, Submit(p, m) PROVE Step
    BY <2>1, <2>2 DEF Submit, ServiceSubmit
  <2>3. CASE StepBegin \/ AdmitEnd \/ AdmitPrefill \/ AdmitClone \/ AdmitThrows
    BY <2>1, <2>3 DEF StepBegin, AdmitEnd, AdmitPrefill, AdmitClone, AdmitThrows
  <2>4. CASE DecodeOk \/ Dead \/ UNCHANGED vars
    BY <2>1, <2>4 DEF DecodeOk, Dead, vars
  <2>5. CASE DecodeFail
    <3> DEFINE S == {active[i].id : i \in 1..Len(active)}
    <3>1. pc = "decode" /\ done' = [i \in Ids |-> IF i \in S THEN "error" ELSE done[i]]
      BY <2>5 DEF DecodeFail, Complete
    <3>2. \A i \in S : done[i] = "absent"
      BY <1>1, InFlightOutstanding DEF Outstanding
    <3> QED
      BY <3>1, <3>2
  <2>6. CASE SampleEnd \/ SampleThrows \/ \E t \in Tokens, k \in BOOLEAN : SampleToken(t, k)
    <3>1. CASE Retire
      <4>1. PICK res \in Outcomes :
              done' = [i \in Ids |-> IF i \in {active[cursor].id} THEN res ELSE done[i]]
        BY <3>1 DEF Retire, Complete
      <4>2. done[active[cursor].id] = "absent"
        BY <1>1, <3>1, InFlightOutstanding DEF Retire, Sampling, Outstanding
      <4> QED
        BY <4>1, <4>2
    <3>2. CASE Continue
      BY <2>1, <3>2 DEF Continue
    <3> QED
      BY <1>1, <2>6, <3>1, <3>2, SampleCases
  <2> QED
    BY <1>1, <2>2, <2>3, <2>4, <2>5, <2>6 DEF Next, StepRest
<1> QED
  BY <1>1, SpecInv, PTL DEF Spec, FaultsAreIsolated

\* The batch handed to decode_seqs() never exceeds n_batch: with any mix of
\* prefills and single tokens, although histories outgrow n_ctx together.
THEOREM BatchesFit == Spec => []BatchFits
<1>1. InitScheduler => BatchRoom
  <2>1. ASSUME InitScheduler PROVE pc = "idle" /\ Len(active) = 0
    BY <2>1 DEF InitScheduler
  <2> QED
    BY <2>1 DEF BatchRoom
<1>2. BatchRoom => BatchFits
  BY DEF BatchRoom, BatchFits, SliceLengths
<1> QED
  BY <1>1, <1>2, SpecInv, BatchStep, PTL DEF Spec

-----------------------------------------------------------------------------
(* The worker, the callers and the destructor of ParallelServing           *)

USE CallersAssumption

ServingInv == ServingTypeOK /\ MutexHeldInside /\ NoWaitAfterStop /\ StopWakeupNotLost
              /\ WaitsForOwnRequest /\ ReturnsCompletedOrStopping

\* What a step of the scheduler service does to its completion map.
LEMMA CompleteType ==
  ASSUME ServiceTypeOK, NEW S, NEW res \in Outcomes, Complete(S, res)
  PROVE  /\ ServiceTypeOK'
         /\ next_id' = next_id
         /\ \A i \in Ids : done[i] # "absent" => done'[i] # "absent"
BY DEF ServiceTypeOK, Complete, Outcomes, Ids

LEMMA ServingInitInv == Init => ServingInv
<1> SUFFICES ASSUME Init PROVE ServingInv
  OBVIOUS
<1> USE DEF Init
<1>1. ServingTypeOK
  <2>1. ServiceTypeOK
    BY DEF ServiceInit, ServiceTypeOK, Ids
  <2>2. /\ work_mutex \in Callers \cup {"free", "worker"}
        /\ caller \in [Callers -> {"start", "notify", "lock", "pred", "block",
                                   "asleep", "returned"}]
        /\ id \in [Callers -> 0..MaxRequests]
    OBVIOUS
  <2> QED
    BY <2>1, <2>2, Zenon DEF ServingTypeOK
<1>2. MutexHeldInside
  BY DEF MutexHeldInside
<1>3. NoWaitAfterStop
  BY Zenon DEF NoWaitAfterStop
<1>4. StopWakeupNotLost
  BY DEF StopWakeupNotLost
<1>5. WaitsForOwnRequest
  BY DEF WaitsForOwnRequest
<1>6. ReturnsCompletedOrStopping
  BY DEF ReturnsCompletedOrStopping
<1> QED
  BY <1>1, <1>2, <1>3, <1>4, <1>5, <1>6 DEF ServingInv

-----------------------------------------------------------------------------
(* One lemma per part of the invariant.                                    *)

LEMMA TypeStep == ServingInv /\ [ServingNext]_servingVars => ServingTypeOK'
<1> SUFFICES ASSUME ServingInv, [ServingNext]_servingVars PROVE ServingTypeOK'
  OBVIOUS
<1> USE DEF ServingInv, ServingTypeOK
<1>1. CASE WorkerLock
  BY <1>1 DEF WorkerLock, schedulerState, ServiceTypeOK
<1>2. CASE WorkerHead
  BY <1>2 DEF WorkerHead, schedulerState, ServiceTypeOK
<1>3. CASE WorkerStepBegin
  BY <1>3 DEF WorkerStepBegin, schedulerState, ServiceTypeOK
<1>4. ASSUME NEW i \in Ids, WorkerComplete(i)
      PROVE  ServingTypeOK'
  <2>1. ServiceTypeOK'
    BY <1>4, CompleteType DEF WorkerComplete
  <2> QED
    BY <1>4, <2>1 DEF WorkerComplete
<1>5. CASE WorkerStepEnd
  BY <1>5 DEF WorkerStepEnd, schedulerState, ServiceTypeOK
<1>6. CASE WorkerNotify
  BY <1>6 DEF WorkerNotify, schedulerState, ServiceTypeOK
<1>7. CASE WorkerPred
  BY <1>7 DEF WorkerPred, schedulerState, ServiceTypeOK
<1>8. CASE WorkerBlock
  BY <1>8 DEF WorkerBlock, schedulerState, ServiceTypeOK
<1>9. CASE WorkerWake
  BY <1>9 DEF WorkerWake, schedulerState, ServiceTypeOK
<1>10. ASSUME NEW c \in Callers, CallerSubmit(c)
       PROVE  ServingTypeOK'
  BY <1>10 DEF CallerSubmit, ServiceSubmit, ServiceTypeOK, Ids
<1>11. ASSUME NEW c \in Callers, CallerRest(c)
       PROVE  ServingTypeOK'
  <2>1. CASE CallerNotify(c)
    <3>1. missed' \in BOOLEAN
      BY <2>1 DEF CallerNotify
    <3> QED
      BY <2>1, <3>1 DEF CallerNotify, schedulerState, ServiceTypeOK
  <2>2. CASE CallerLock(c) \/ CallerPred(c)
    BY <2>2 DEF CallerLock, CallerPred, schedulerState, ServiceTypeOK
  <2>3. CASE CallerBlock(c) \/ CallerWake(c)
    BY <2>3 DEF CallerBlock, CallerWake, schedulerState, ServiceTypeOK
  <2> QED
    BY <1>11, <2>1, <2>2, <2>3 DEF CallerRest
<1>12. CASE StopSet \/ StopNotify \/ StopJoin
  BY <1>12 DEF StopSet, StopNotify, StopJoin, schedulerState, ServiceTypeOK
<1>13. CASE UNCHANGED servingVars
  BY <1>13 DEF servingVars, ServiceTypeOK
<1> QED
  BY <1>1, <1>2, <1>3, <1>4, <1>5, <1>6, <1>7, <1>8, <1>9, <1>10, <1>11,
     <1>12, <1>13 DEF ServingNext, WorkerNext

LEMMA MutexStep == ServingInv /\ [ServingNext]_servingVars => MutexHeldInside'
<1> SUFFICES ASSUME ServingInv, [ServingNext]_servingVars PROVE MutexHeldInside'
  OBVIOUS
<1> USE DEF ServingInv, ServingTypeOK, MutexHeldInside
<1>1. CASE WorkerLock
  BY <1>1 DEF WorkerLock
<1>2. CASE WorkerHead
  BY <1>2 DEF WorkerHead
<1>3. CASE WorkerStepBegin
  BY <1>3 DEF WorkerStepBegin
<1>4. CASE WorkerStepEnd
  BY <1>4 DEF WorkerStepEnd
<1>5. CASE WorkerNotify
  BY <1>5 DEF WorkerNotify
<1>6. CASE WorkerPred
  BY <1>6 DEF WorkerPred
<1>7. CASE WorkerBlock
  BY <1>7 DEF WorkerBlock
<1>8. CASE WorkerWake
  BY <1>8 DEF WorkerWake
<1>9. ASSUME NEW i \in Ids, WorkerComplete(i)
      PROVE  MutexHeldInside'
  BY <1>9, CompleteType DEF WorkerComplete
<1>10. ASSUME NEW c \in Callers, CallerSubmit(c)
       PROVE  MutexHeldInside'
  BY <1>10 DEF CallerSubmit, ServiceSubmit
<1>11. ASSUME NEW c \in Callers, CallerNotify(c)
       PROVE  MutexHeldInside'
  BY <1>11 DEF CallerNotify
<1>12. ASSUME NEW c \in Callers, CallerLock(c)
       PROVE  MutexHeldInside'
  BY <1>12 DEF CallerLock
<1>13. ASSUME NEW c \in Callers, CallerPred(c)
       PROVE  MutexHeldInside'
  BY <1>13 DEF CallerPred
<1>14. ASSUME NEW c \in Callers, CallerBlock(c)
       PROVE  MutexHeldInside'
  BY <1>14 DEF CallerBlock
<1>15. ASSUME NEW c \in Callers, CallerWake(c)
       PROVE  MutexHeldInside'
  BY <1>15 DEF CallerWake
<1>16. CASE StopSet
  BY <1>16 DEF StopSet
<1>17. CASE StopNotify
  BY <1>17 DEF StopNotify
<1>18. CASE StopJoin
  BY <1>18 DEF StopJoin
<1>19. CASE UNCHANGED servingVars
  BY <1>19 DEF servingVars
<1> QED
  BY <1>1, <1>2, <1>3, <1>4, <1>5, <1>6, <1>7, <1>8, <1>9,
     <1>10, <1>11, <1>12, <1>13, <1>14, <1>15, <1>16, <1>17, <1>18, <1>19
  DEF ServingNext, WorkerNext, CallerRest

LEMMA NoWaitStep == ServingInv /\ [ServingNext]_servingVars => NoWaitAfterStop'
<1> SUFFICES ASSUME ServingInv, [ServingNext]_servingVars PROVE NoWaitAfterStop'
  OBVIOUS
<1> USE DEF ServingInv, ServingTypeOK, NoWaitAfterStop, MutexHeldInside
<1>1. CASE WorkerLock
  BY <1>1 DEF WorkerLock
<1>2. CASE WorkerHead
  BY <1>2 DEF WorkerHead
<1>3. CASE WorkerStepBegin
  BY <1>3 DEF WorkerStepBegin
<1>4. CASE WorkerStepEnd
  BY <1>4 DEF WorkerStepEnd
<1>5. CASE WorkerNotify
  BY <1>5 DEF WorkerNotify
<1>6. CASE WorkerPred
  BY <1>6 DEF WorkerPred
<1>7. CASE WorkerBlock
  BY <1>7 DEF WorkerBlock
<1>8. CASE WorkerWake
  BY <1>8 DEF WorkerWake
<1>9. ASSUME NEW i \in Ids, WorkerComplete(i)
      PROVE  NoWaitAfterStop'
  BY <1>9, CompleteType DEF WorkerComplete
<1>10. ASSUME NEW c \in Callers, CallerSubmit(c)
       PROVE  NoWaitAfterStop'
  BY <1>10 DEF CallerSubmit, ServiceSubmit
<1>11. ASSUME NEW c \in Callers, CallerNotify(c)
       PROVE  NoWaitAfterStop'
  BY <1>11 DEF CallerNotify
<1>12. ASSUME NEW c \in Callers, CallerLock(c)
       PROVE  NoWaitAfterStop'
  BY <1>12 DEF CallerLock
<1>13. ASSUME NEW c \in Callers, CallerPred(c)
       PROVE  NoWaitAfterStop'
  BY <1>13 DEF CallerPred
<1>14. ASSUME NEW c \in Callers, CallerBlock(c)
       PROVE  NoWaitAfterStop'
  BY <1>14 DEF CallerBlock
<1>15. ASSUME NEW c \in Callers, CallerWake(c)
       PROVE  NoWaitAfterStop'
  BY <1>15 DEF CallerWake
<1>16. CASE StopSet
  BY <1>16 DEF StopSet
<1>17. CASE StopNotify
  BY <1>17 DEF StopNotify
<1>18. CASE StopJoin
  BY <1>18 DEF StopJoin
<1>19. CASE UNCHANGED servingVars
  BY <1>19 DEF servingVars
<1> QED
  BY <1>1, <1>2, <1>3, <1>4, <1>5, <1>6, <1>7, <1>8, <1>9,
     <1>10, <1>11, <1>12, <1>13, <1>14, <1>15, <1>16, <1>17, <1>18, <1>19
  DEF ServingNext, WorkerNext, CallerRest

LEMMA StopWakeupStep == ServingInv /\ [ServingNext]_servingVars => StopWakeupNotLost'
<1> SUFFICES ASSUME ServingInv, [ServingNext]_servingVars PROVE StopWakeupNotLost'
  OBVIOUS
<1> USE DEF ServingInv, ServingTypeOK, NoWaitAfterStop, StopWakeupNotLost
<1>1. CASE WorkerLock
  BY <1>1 DEF WorkerLock
<1>2. CASE WorkerHead
  BY <1>2 DEF WorkerHead
<1>3. CASE WorkerStepBegin
  BY <1>3 DEF WorkerStepBegin
<1>4. CASE WorkerStepEnd
  BY <1>4 DEF WorkerStepEnd
<1>5. CASE WorkerNotify
  BY <1>5 DEF WorkerNotify
<1>6. CASE WorkerPred
  BY <1>6 DEF WorkerPred
<1>7. CASE WorkerBlock
  BY <1>7 DEF WorkerBlock
<1>8. CASE WorkerWake
  BY <1>8 DEF WorkerWake
<1>9. ASSUME NEW i \in Ids, WorkerComplete(i)
      PROVE  StopWakeupNotLost'
  BY <1>9, CompleteType DEF WorkerComplete
<1>10. ASSUME NEW c \in Callers, CallerSubmit(c)
       PROVE  StopWakeupNotLost'
  BY <1>10 DEF CallerSubmit, ServiceSubmit
<1>11. ASSUME NEW c \in Callers, CallerNotify(c)
       PROVE  StopWakeupNotLost'
  BY <1>11 DEF CallerNotify
<1>12. ASSUME NEW c \in Callers, CallerLock(c)
       PROVE  StopWakeupNotLost'
  BY <1>12 DEF CallerLock
<1>13. ASSUME NEW c \in Callers, CallerPred(c)
       PROVE  StopWakeupNotLost'
  BY <1>13 DEF CallerPred
<1>14. ASSUME NEW c \in Callers, CallerBlock(c)
       PROVE  StopWakeupNotLost'
  BY <1>14 DEF CallerBlock
<1>15. ASSUME NEW c \in Callers, CallerWake(c)
       PROVE  StopWakeupNotLost'
  BY <1>15 DEF CallerWake
<1>16. CASE StopSet
  BY <1>16 DEF StopSet
<1>17. CASE StopNotify
  BY <1>17 DEF StopNotify
<1>18. CASE StopJoin
  BY <1>18 DEF StopJoin
<1>19. CASE UNCHANGED servingVars
  BY <1>19 DEF servingVars
<1> QED
  BY <1>1, <1>2, <1>3, <1>4, <1>5, <1>6, <1>7, <1>8, <1>9,
     <1>10, <1>11, <1>12, <1>13, <1>14, <1>15, <1>16, <1>17, <1>18, <1>19
  DEF ServingNext, WorkerNext, CallerRest

LEMMA WaitsStep == ServingInv /\ [ServingNext]_servingVars => WaitsForOwnRequest'
<1> SUFFICES ASSUME ServingInv, [ServingNext]_servingVars PROVE WaitsForOwnRequest'
  OBVIOUS
<1> USE DEF ServingInv, ServingTypeOK, WaitsForOwnRequest
<1>1. CASE WorkerLock
  BY <1>1 DEF WorkerLock, schedulerState, ServiceTypeOK
<1>2. CASE WorkerHead
  BY <1>2 DEF WorkerHead, schedulerState, ServiceTypeOK
<1>3. CASE WorkerStepBegin
  BY <1>3 DEF WorkerStepBegin, schedulerState, ServiceTypeOK
<1>4. CASE WorkerStepEnd
  BY <1>4 DEF WorkerStepEnd, schedulerState, ServiceTypeOK
<1>5. CASE WorkerNotify
  BY <1>5 DEF WorkerNotify, schedulerState, ServiceTypeOK
<1>6. CASE WorkerPred
  BY <1>6 DEF WorkerPred, schedulerState, ServiceTypeOK
<1>7. CASE WorkerBlock
  BY <1>7 DEF WorkerBlock, schedulerState, ServiceTypeOK
<1>8. CASE WorkerWake
  BY <1>8 DEF WorkerWake, schedulerState, ServiceTypeOK
<1>9. ASSUME NEW i \in Ids, WorkerComplete(i)
      PROVE  WaitsForOwnRequest'
  BY <1>9, CompleteType DEF WorkerComplete, schedulerState, ServiceTypeOK
<1>10. ASSUME NEW c \in Callers, CallerSubmit(c)
       PROVE  WaitsForOwnRequest'
  BY <1>10 DEF CallerSubmit, ServiceSubmit, schedulerState, ServiceTypeOK
<1>11. ASSUME NEW c \in Callers, CallerNotify(c)
       PROVE  WaitsForOwnRequest'
  BY <1>11 DEF CallerNotify, schedulerState, ServiceTypeOK
<1>12. ASSUME NEW c \in Callers, CallerLock(c)
       PROVE  WaitsForOwnRequest'
  BY <1>12 DEF CallerLock, schedulerState, ServiceTypeOK
<1>13. ASSUME NEW c \in Callers, CallerPred(c)
       PROVE  WaitsForOwnRequest'
  BY <1>13 DEF CallerPred, schedulerState, ServiceTypeOK
<1>14. ASSUME NEW c \in Callers, CallerBlock(c)
       PROVE  WaitsForOwnRequest'
  BY <1>14 DEF CallerBlock, schedulerState, ServiceTypeOK
<1>15. ASSUME NEW c \in Callers, CallerWake(c)
       PROVE  WaitsForOwnRequest'
  BY <1>15 DEF CallerWake, schedulerState, ServiceTypeOK
<1>16. CASE StopSet
  BY <1>16 DEF StopSet, schedulerState, ServiceTypeOK
<1>17. CASE StopNotify
  BY <1>17 DEF StopNotify, schedulerState, ServiceTypeOK
<1>18. CASE StopJoin
  BY <1>18 DEF StopJoin, schedulerState, ServiceTypeOK
<1>19. CASE UNCHANGED servingVars
  BY <1>19 DEF servingVars, schedulerState, ServiceTypeOK
<1> QED
  BY <1>1, <1>2, <1>3, <1>4, <1>5, <1>6, <1>7, <1>8, <1>9,
     <1>10, <1>11, <1>12, <1>13, <1>14, <1>15, <1>16, <1>17, <1>18, <1>19
  DEF ServingNext, WorkerNext, CallerRest

LEMMA ReturnsStep == ServingInv /\ [ServingNext]_servingVars => ReturnsCompletedOrStopping'
<1> SUFFICES ASSUME ServingInv, [ServingNext]_servingVars PROVE ReturnsCompletedOrStopping'
  OBVIOUS
<1> USE DEF ServingInv, ServingTypeOK, ReturnsCompletedOrStopping, WaitsForOwnRequest
<1>1. CASE WorkerLock
  BY <1>1 DEF WorkerLock, schedulerState, ServiceTypeOK, Ids
<1>2. CASE WorkerHead
  BY <1>2 DEF WorkerHead, schedulerState, ServiceTypeOK, Ids
<1>3. CASE WorkerStepBegin
  BY <1>3 DEF WorkerStepBegin, schedulerState, ServiceTypeOK, Ids
<1>4. CASE WorkerStepEnd
  BY <1>4 DEF WorkerStepEnd, schedulerState, ServiceTypeOK, Ids
<1>5. CASE WorkerNotify
  BY <1>5 DEF WorkerNotify, schedulerState, ServiceTypeOK, Ids
<1>6. CASE WorkerPred
  BY <1>6 DEF WorkerPred, schedulerState, ServiceTypeOK, Ids
<1>7. CASE WorkerBlock
  BY <1>7 DEF WorkerBlock, schedulerState, ServiceTypeOK, Ids
<1>8. CASE WorkerWake
  BY <1>8 DEF WorkerWake, schedulerState, ServiceTypeOK, Ids
<1>9. ASSUME NEW i \in Ids, WorkerComplete(i)
      PROVE  ReturnsCompletedOrStopping'
  BY <1>9, CompleteType DEF WorkerComplete, schedulerState, ServiceTypeOK, Ids
<1>10. ASSUME NEW c \in Callers, CallerSubmit(c)
       PROVE  ReturnsCompletedOrStopping'
  BY <1>10 DEF CallerSubmit, ServiceSubmit, schedulerState, ServiceTypeOK, Ids
<1>11. ASSUME NEW c \in Callers, CallerNotify(c)
       PROVE  ReturnsCompletedOrStopping'
  BY <1>11 DEF CallerNotify, schedulerState, ServiceTypeOK, Ids
<1>12. ASSUME NEW c \in Callers, CallerLock(c)
       PROVE  ReturnsCompletedOrStopping'
  BY <1>12 DEF CallerLock, schedulerState, ServiceTypeOK, Ids
<1>13. ASSUME NEW c \in Callers, CallerPred(c)
       PROVE  ReturnsCompletedOrStopping'
  BY <1>13 DEF CallerPred, schedulerState, ServiceTypeOK, Ids
<1>14. ASSUME NEW c \in Callers, CallerBlock(c)
       PROVE  ReturnsCompletedOrStopping'
  BY <1>14 DEF CallerBlock, schedulerState, ServiceTypeOK, Ids
<1>15. ASSUME NEW c \in Callers, CallerWake(c)
       PROVE  ReturnsCompletedOrStopping'
  BY <1>15 DEF CallerWake, schedulerState, ServiceTypeOK, Ids
<1>16. CASE StopSet
  BY <1>16 DEF StopSet, schedulerState, ServiceTypeOK, Ids
<1>17. CASE StopNotify
  BY <1>17 DEF StopNotify, schedulerState, ServiceTypeOK, Ids
<1>18. CASE StopJoin
  BY <1>18 DEF StopJoin, schedulerState, ServiceTypeOK, Ids
<1>19. CASE UNCHANGED servingVars
  BY <1>19 DEF servingVars, schedulerState, ServiceTypeOK, Ids
<1> QED
  BY <1>1, <1>2, <1>3, <1>4, <1>5, <1>6, <1>7, <1>8, <1>9,
     <1>10, <1>11, <1>12, <1>13, <1>14, <1>15, <1>16, <1>17, <1>18, <1>19
  DEF ServingNext, WorkerNext, CallerRest

LEMMA ServingInvStep == ServingInv /\ [ServingNext]_servingVars => ServingInv'
BY TypeStep, MutexStep, NoWaitStep, StopWakeupStep, WaitsStep, ReturnsStep
DEF ServingInv

LEMMA ServingSpecInv == ServingSpec => []ServingInv
BY ServingInitInv, ServingInvStep, PTL DEF ServingSpec

-----------------------------------------------------------------------------
\* Every variable of the worker, callers and destructor keeps its type.
THEOREM ServingTypeCorrect == ServingSpec => []ServingTypeOK
<1>1. ServingInv => ServingTypeOK
  BY DEF ServingInv
<1> QED
  BY <1>1, ServingSpecInv, PTL

\* work_mutex is held by exactly the thread between its lock and its unlock
\* or wait, however many callers there are.
THEOREM MutexCorrect == ServingSpec => []MutexHeldInside
<1>1. ServingInv => MutexHeldInside
  BY DEF ServingInv
<1> QED
  BY <1>1, ServingSpecInv, PTL

\* The wakeup ~Impl() sends to the worker is never lost, because stopping
\* is set under work_mutex.
THEOREM StopWakeupCorrect == ServingSpec => []StopWakeupNotLost
<1>1. ServingInv => StopWakeupNotLost
  BY DEF ServingInv
<1> QED
  BY <1>1, ServingSpecInv, PTL

\* generate_stream() returns with its own request completed unless the
\* engine is being destroyed.
THEOREM ReturnsCorrect == ServingSpec => []ReturnsCompletedOrStopping
<1>1. ServingInv => ReturnsCompletedOrStopping
  BY DEF ServingInv
<1> QED
  BY <1>1, ServingSpecInv, PTL
=============================================================================
