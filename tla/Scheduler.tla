------------------------------ MODULE Scheduler ------------------------------
(***************************************************************************)
(* The interleaved multi-request scheduler (src/core/scheduler.cpp).       *)
(*                                                                         *)
(* step() holds `mutex` from its first to its last line, so submit() only  *)
(* runs while pc = "idle".  One step() is the run of actions from          *)
(* StepBegin back to pc = "idle": the iterations of admit(), one           *)
(* decode_seqs(), then one SampleOne per active request.                   *)
(*                                                                         *)
(* The backend is external.  kv[s] is the token sequence its KV cache      *)
(* holds for sequence s: a forward pass adds the slice's tokens, whatever   *)
(* is there already, and only clear_seq() removes cells.  Sampling is a    *)
(* free choice of a token, of an end-of-generation token, or of an         *)
(* exception (sampler or callback).                                        *)
(***************************************************************************)
EXTENDS SchedulerService, Integers, Sequences, FiniteSets, SequencesExt, Totals

CONSTANTS Tokens,         \* vocabulary without the end-of-generation tokens
          Prompts,        \* what callers submit
          MaxTokens,      \* the values of gen.max_tokens callers use
          n_parallel,     \* Config::n_parallel
          n_ctx,          \* backend.context_length(): total KV cells
          DecodeFaults,   \* may decode_seqs() throw while cells are left?
          CopyFaults      \* may copy_seq() throw?  nucleo's always does

ASSUME SchedulerAssumption ==
  /\ Prompts \subseteq Seq(Tokens)
  /\ MaxTokens \subseteq Nat
  /\ n_parallel \in Nat \ {0}
  /\ n_ctx \in Nat \ {0}
  /\ DecodeFaults \in BOOLEAN
  /\ CopyFaults \in BOOLEAN

VARIABLES pending,    \* deque<Request>
          active,     \* vector<Request>; while sampling, the part before
                      \* `cursor` is still_active and the rest is unprocessed
          slot_used,  \* seq_id occupancy
          kv,         \* external: the backend's KV cache, per sequence
          pc,         \* where step() is; "idle" when `mutex` is free
          cursor      \* loop index of the sampling loop

vars == <<next_id, done, pending, active, slot_used, kv, pc, cursor>>

Slots == 0..(n_parallel - 1)

NoSlot == -1

Request == [id : Ids, history : Seq(Tokens), prompt_len : Nat,
            max_tokens : MaxTokens, emitted : Nat,
            seq_id : Slots \cup {NoSlot}, n_past : Nat,
            needs_prefill : BOOLEAN]

InitScheduler ==
  /\ ServiceInit
  /\ pending = <<>>
  /\ active = <<>>
  /\ slot_used = [s \in Slots |-> FALSE]
  /\ kv = [s \in Slots |-> <<>>]
  /\ pc = "idle"
  /\ cursor = 1

-----------------------------------------------------------------------------
(* submit(): a prompt that is empty or longer than the context throws      *)
(* before the lock is taken and changes nothing.                           *)

Submit(p, m) ==
  /\ pc = "idle"
  /\ Len(p) \in 1..n_ctx
  /\ ServiceSubmit
  /\ pending' = Append(pending,
                  [id |-> next_id, history |-> p, prompt_len |-> Len(p),
                   max_tokens |-> m, emitted |-> 0, seq_id |-> NoSlot,
                   n_past |-> 0, needs_prefill |-> TRUE])
  /\ UNCHANGED <<active, slot_used, kv, pc, cursor>>

-----------------------------------------------------------------------------
(* admit()                                                                 *)

cells_used == Total([i \in 1..Len(active) |-> Len(active[i].history)])

\* positions in `active` whose prompt equals p, and the first of them
Donors(p) == {i \in 1..Len(active) :
                /\ active[i].prompt_len = Len(p)
                /\ SubSeq(active[i].history, 1, Len(p)) = p}

find_donor(p) == CHOOSE i \in Donors(p) : \A j \in Donors(p) : i <= j

\* The front request is cloned from a donor: prompts of one token are not
\* worth a clone.
Cloned == Len(Head(pending).history) > 1 /\ Donors(Head(pending).history) # {}

Donor == active[find_donor(Head(pending).history)]

\* Mutant: admission without the KV budget.
CanAdmitAnyway ==
  /\ pending # <<>>
  /\ Len(active) < n_parallel
  /\ Cloned => Donor.n_past >= Donor.prompt_len

\* Mutant: the budget comparison is off by one.
CanAdmitStrict ==
  /\ pending # <<>>
  /\ Len(active) < n_parallel
  /\ cells_used + Len(Head(pending).history) < n_ctx
  /\ Cloned => Donor.n_past >= Donor.prompt_len

\* The loop condition of admit() and its two breaks.
CanAdmit ==
  /\ pending # <<>>
  /\ Len(active) < n_parallel
  /\ cells_used + Len(Head(pending).history) <= n_ctx
  /\ Cloned => Donor.n_past >= Donor.prompt_len

\* Only meaningful with a free slot: CanAdmit implies there is one (SlotsMatchActive).
LowestFree == CHOOSE s \in Slots : ~slot_used[s] /\ \A t \in 0..(s - 1) : slot_used[t]

\* Mutant: slots counted down from n_parallel.
FreeSlotFromTop == n_parallel - LowestFree

FreeSlot == LowestFree

StepBegin ==
  /\ pc = "idle"
  /\ pc' = "admit"
  /\ UNCHANGED <<next_id, done, pending, active, slot_used, kv, cursor>>

\* One iteration that takes a slot and leaves the prompt for the next batch.
AdmitPrefill ==
  /\ pc = "admit"
  /\ CanAdmit
  /\ ~Cloned
  /\ LET s == FreeSlot IN
       /\ slot_used' = [slot_used EXCEPT ![s] = TRUE]
       /\ active' = Append(active, [Head(pending) EXCEPT !.seq_id = s])
  /\ pending' = Tail(pending)
  /\ UNCHANGED <<next_id, done, kv, pc, cursor>>

\* One iteration that copies the donor's prompt KV, all but the last token.
AdmitClone ==
  /\ pc = "admit"
  /\ CanAdmit
  /\ Cloned
  /\ LET s == FreeSlot
         r == Head(pending)
         shared == r.prompt_len - 1 IN
       /\ slot_used' = [slot_used EXCEPT ![s] = TRUE]
       /\ kv' = [kv EXCEPT ![s] = SubSeq(kv[Donor.seq_id], 1, shared)]
       /\ active' = Append(active, [r EXCEPT !.seq_id = s, !.n_past = shared,
                                             !.needs_prefill = FALSE])
  /\ pending' = Tail(pending)
  /\ UNCHANGED <<next_id, done, pc, cursor>>

\* copy_seq() throws out of admit() and step(): the request has left
\* `pending`, its slot is taken, and nothing on the worker thread catches
\* the exception, so the process terminates.
AdmitThrows ==
  /\ pc = "admit"
  /\ CanAdmit
  /\ Cloned
  /\ CopyFaults
  /\ slot_used' = [slot_used EXCEPT ![FreeSlot] = TRUE]
  /\ pending' = Tail(pending)
  /\ pc' = "dead"
  /\ UNCHANGED <<next_id, done, active, kv, cursor>>

\* admit() returns; with nothing active step() returns as well.
AdmitEnd ==
  /\ pc = "admit"
  /\ ~CanAdmit
  /\ pc' = IF active = <<>> THEN "idle" ELSE "decode"
  /\ UNCHANGED <<next_id, done, pending, active, slot_used, kv, cursor>>

-----------------------------------------------------------------------------
(* The batched forward pass                                                *)

\* SeqSlice of a request: everything from position 0, or the newest token.
SliceTokens(r) == IF r.needs_prefill THEN r.history ELSE <<Last(r.history)>>

SlicePos(r) == IF r.needs_prefill THEN 0 ELSE r.n_past

\* what sequence r.seq_id holds after its slice
Decoded(r) == kv[r.seq_id] \o SliceTokens(r)

\* KV cells the backend needs for the batch; n_ctx is all it has.  A copied
\* position may share its cell with the original: at most one cell for each
\* position of each sequence, at least one for each distinct prefix.
CellsAtMost == Total([i \in 1..Len(active) |-> Len(Decoded(active[i]))])

CellsAtLeast ==
  Cardinality(UNION {Prefixes(Decoded(active[i])) \ {<<>>} : i \in 1..Len(active)})

\* A forward pass may fail for want of cells, or for the backend's own
\* reasons (nucleo's refuses any number of slices but one).
DecodeCanFail == DecodeFaults \/ CellsAtMost > n_ctx

DecodeOk ==
  /\ pc = "decode"
  /\ CellsAtLeast <= n_ctx
  /\ kv' = [s \in Slots |->
              IF \E i \in 1..Len(active) : active[i].seq_id = s
              THEN Decoded(active[CHOOSE i \in 1..Len(active) : active[i].seq_id = s])
              ELSE kv[s]]
  /\ pc' = "sample"
  /\ cursor' = 1
  /\ UNCHANGED <<next_id, done, pending, active, slot_used>>

\* Mutant: a failed batch leaves its requests in flight.
DecodeFailKeepsActive ==
  /\ pc = "decode"
  /\ DecodeCanFail
  /\ Complete({active[i].id : i \in 1..Len(active)}, "error")
  /\ pc' = "idle"
  /\ UNCHANGED <<next_id, pending, active, slot_used, kv, cursor>>

\* Mutant: a failed batch reports only the first request it carried.
DecodeFailReportsOne ==
  /\ pc = "decode"
  /\ DecodeCanFail
  /\ Complete({active[1].id}, "error")
  /\ slot_used' = [s \in Slots |-> FALSE]
  /\ kv' = [s \in Slots |-> <<>>]
  /\ active' = <<>>
  /\ pc' = "idle"
  /\ UNCHANGED <<next_id, pending, cursor>>

\* The whole batch failed: everything in flight is finished with the error.
DecodeFail ==
  /\ pc = "decode"
  /\ DecodeCanFail
  /\ Complete({active[i].id : i \in 1..Len(active)}, "error")
  /\ slot_used' = [s \in Slots |->
                     slot_used[s] /\ \A i \in 1..Len(active) : active[i].seq_id # s]
  /\ kv' = [s \in Slots |->
              IF \E i \in 1..Len(active) : active[i].seq_id = s THEN <<>> ELSE kv[s]]
  /\ active' = <<>>
  /\ pc' = "idle"
  /\ UNCHANGED <<next_id, pending, cursor>>

-----------------------------------------------------------------------------
(* Sampling, one request at a time                                         *)

\* the request at the cursor after its slice is accounted for
Advanced == LET r == active[cursor] IN
              [r EXCEPT !.n_past = r.n_past + Len(SliceTokens(r)),
                        !.needs_prefill = FALSE]

\* Mutant: the slot is never freed.
finishLeaksSlot(r, res) ==
  /\ Complete({r.id}, res)
  /\ slot_used' = slot_used
  /\ kv' = [kv EXCEPT ![r.seq_id] = <<>>]
  /\ active' = RemoveAt(active, cursor)
  /\ cursor' = cursor

\* Mutant: the sequence keeps its KV.
finishKeepsKV(r, res) ==
  /\ Complete({r.id}, res)
  /\ slot_used' = [slot_used EXCEPT ![r.seq_id] = FALSE]
  /\ kv' = kv
  /\ active' = RemoveAt(active, cursor)
  /\ cursor' = cursor

\* finish(): drop the KV, free the slot, publish the outcome.
finish(r, res) ==
  /\ Complete({r.id}, res)
  /\ slot_used' = [slot_used EXCEPT ![r.seq_id] = FALSE]
  /\ kv' = [kv EXCEPT ![r.seq_id] = <<>>]
  /\ active' = RemoveAt(active, cursor)
  /\ cursor' = cursor

\* Leaving the loop after the last request ends step().
PcAfter(n) == IF n > Len(active') THEN "idle" ELSE "sample"

Sampling == pc = "sample" /\ cursor \in 1..Len(active)

\* is_eog(next): the request ends without delivering a token.
SampleEnd ==
  /\ Sampling
  /\ finish(active[cursor], "ok")
  /\ pc' = PcAfter(cursor')
  /\ UNCHANGED <<next_id, pending>>

\* Mutant: one request's exception fails the whole batch.
SampleThrowsForAll ==
  /\ Sampling
  /\ Complete({active[i].id : i \in 1..Len(active)}, "error")
  /\ slot_used' = [s \in Slots |-> FALSE]
  /\ kv' = [s \in Slots |-> <<>>]
  /\ active' = <<>>
  /\ cursor' = cursor
  /\ pc' = "idle"
  /\ UNCHANGED <<next_id, pending>>

\* The sampler or the callback threw: this request alone fails.
SampleThrows ==
  /\ Sampling
  /\ finish(active[cursor], "error")
  /\ pc' = PcAfter(cursor')
  /\ UNCHANGED <<next_id, pending>>

LimitReached(r) == r.emitted >= r.max_tokens \/ Len(r.history) >= n_ctx

\* A token t is delivered; keep_going is the callback's answer.
SampleToken(t, keep_going) ==
  /\ Sampling
  /\ LET r == [Advanced EXCEPT !.history = Append(@, t), !.emitted = @ + 1]
     IN IF ~keep_going \/ LimitReached(r)
        THEN finish(r, "ok")
        ELSE /\ active' = [active EXCEPT ![cursor] = r]
             /\ cursor' = cursor + 1
             /\ UNCHANGED <<done, slot_used, kv>>
  /\ pc' = PcAfter(cursor')
  /\ UNCHANGED <<next_id, pending>>

-----------------------------------------------------------------------------
\* the rest of a step() that has begun
StepRest == \/ AdmitPrefill
            \/ AdmitClone
            \/ AdmitThrows
            \/ AdmitEnd
            \/ DecodeOk
            \/ DecodeFail
            \/ SampleEnd
            \/ SampleThrows
            \/ \E t \in Tokens, k \in BOOLEAN : SampleToken(t, k)

\* The process is gone.
Dead == pc = "dead" /\ UNCHANGED vars

Next == \/ \E p \in Prompts, m \in MaxTokens : Submit(p, m)
        \/ StepBegin
        \/ StepRest
        \/ Dead

Spec == InitScheduler /\ [][Next]_vars

\* The worker calls step() again while it reports work, and a step() that
\* has begun runs to its end.
FairSpec == Spec /\ WF_vars(StepBegin /\ Outstanding # {}) /\ WF_vars(StepRest)

-----------------------------------------------------------------------------
(* Properties *)

\* Types of step()'s state; a queued or active request keeps its record shape.
TypeOK ==
  /\ ServiceTypeOK
  /\ pending \in Seq(Request)
  /\ active \in Seq(Request)
  /\ slot_used \in [Slots -> BOOLEAN]
  /\ kv \in [Slots -> Seq(Tokens)]
  /\ pc \in {"idle", "admit", "decode", "sample", "dead"}
  /\ cursor \in Nat \ {0}

\* Two requests in flight never share a sequence, and a sequence is marked
\* used exactly while a request in flight owns it: admit() can always find
\* a free slot (slot_used in admit() against finish()).
SlotsMatchActive ==
  pc # "dead" =>
  /\ \A i, j \in 1..Len(active) :
        active[i].seq_id = active[j].seq_id => i = j
  /\ \A s \in Slots :
        slot_used[s] <=> \E i \in 1..Len(active) : active[i].seq_id = s

\* The KV of a request in flight is its own history up to n_past, whether
\* it was prefilled, cloned from a donor or resumed in a reused slot, and
\* sequences nobody owns are empty (copy_seq's "dst must be empty").
KVHoldsHistory ==
  /\ \A i \in 1..Len(active) : LET r == active[i] IN
        kv[r.seq_id] = IF pc = "sample" /\ i >= cursor
                       THEN r.history
                       ELSE SubSeq(r.history, 1, r.n_past)
  /\ \A s \in Slots :
        (\A i \in 1..Len(active) : active[i].seq_id # s) => kv[s] = <<>>

\* Every slice goes to the position right after what its sequence holds.
SlicesContiguous ==
  pc = "decode" => \A i \in 1..Len(active) :
                      SlicePos(active[i]) = Len(kv[active[i].seq_id])

\* A request that was handed an id is in exactly one of pending, active and
\* done: none is dropped by admit(), a failed batch or the sampling loop,
\* as long as copy_seq() has not ended the process.
NoRequestLost ==
  pc # "dead" => \A id \in 1..(next_id - 1) :
    LET P == {i \in 1..Len(pending) : pending[i].id = id}
        A == {i \in 1..Len(active) : active[i].id = id}
    IN  IF done[id] # "absent"
        THEN P = {} /\ A = {}
        ELSE \/ P = {} /\ \E i \in A : A = {i}
             \/ A = {} /\ \E i \in P : P = {i}

\* Requests leave the queue in the order submit() numbered them: what is
\* pending is always the newest ids, oldest first, so nobody is overtaken.
AdmissionInOrder ==
  \A i \in 1..Len(pending) : pending[i].id = next_id - Len(pending) + i - 1

\* The batch handed to decode_seqs() never has more tokens than the
\* backend's n_batch, which is n_ctx, although the histories in flight may
\* together outgrow n_ctx.
BatchFits ==
  pc = "decode" => Total([i \in 1..Len(active) |-> Len(SliceTokens(active[i]))]) <= n_ctx

\* While a request is in flight its completed siblings stay completed, and
\* a fault of one request's sampling or callback fails only that request:
\* only a failed batch completes several requests in one action.
FaultsAreIsolated ==
  [][LET Ended == {i \in Ids : done'[i] # done[i]} IN
       /\ \A i \in Ended : done[i] = "absent"
       /\ pc = "sample" => \A i \in Ended : i = active[cursor].id]_vars

\* Every submitted request is completed, also behind requests that do not
\* fit yet or wait for a donor, and through failed batches: what a caller
\* blocked in generate_stream() relies on.
EveryRequestCompletes ==
  \A i \in Ids : (i < next_id) ~> (done[i] # "absent" \/ pc = "dead")
=============================================================================
