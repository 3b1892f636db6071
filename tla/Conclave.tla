------------------------------ MODULE Conclave ------------------------------
(***************************************************************************)
(* The conclave: ReameEngine::generate_best() runs n candidates for one    *)
(* prompt, on n threads when the engine has a scheduler and one after the  *)
(* other when it has not, and elects an answer (src/core/engine.cpp,       *)
(* src/core/conclave.cpp).  Every candidate goes through generate_stream() *)
(* and so through the transparent ARCA cache.                              *)
(*                                                                         *)
(* A text is a sequence of pieces, a piece is a word or a number.  The     *)
(* model behind generate_stream() is external: candidate 0 of a greedy     *)
(* request always writes `best_shot`, the others write anything.           *)
(***************************************************************************)
EXTENDS Integers, Sequences, FiniteSets, SequencesExt, FiniteSetsExt

CONSTANTS n,           \* candidates
          Words,       \* pieces that are not numbers
          Numbers,     \* pieces that are numbers
          MaxPieces,   \* bound: length of a sampled answer
          BestShots,   \* greedy completions the model may have
          None,        \* no entry, no number
          MaxCalls,    \* bound: calls of generate_best()
          Faults       \* may a generation throw?

\* answer_similarity() is kept exact by counting in sixths, enough for
\* unions of at most three pieces.
ASSUME ConclaveAssumption ==
  /\ n \in Nat \ {0, 1}
  /\ Words \cap Numbers = {}
  /\ Cardinality(Words \cup Numbers) <= 3
  /\ MaxPieces \in Nat \ {0}
  /\ BestShots \subseteq Seq(Words \cup Numbers)
  /\ None \notin Numbers
  /\ MaxCalls \in Nat
  /\ Faults \in BOOLEAN

Pieces == Words \cup Numbers

Candidates == 0..(n - 1)

VARIABLES parallel,     \* is there a scheduler?  fixed at the start
          greedy,       \* is the request deterministic, hence cacheable?
          best_shot,    \* external: the whole greedy completion
          arca,         \* external: the entry under the request's key
          state,        \* per candidate: where it is
          text,         \* what its generation has delivered
          outs,         \* the deposited texts
          tally,        \* votes for each number
          stop, winner,
          elected, votes,   \* the result of the last call
          pc, calls,
          cut,          \* history: candidates whose text is not whole
          replayed      \* history: has the cache answered with such a text?

vars == <<parallel, greedy, best_shot, arca, state, text, outs, tally, stop,
          winner, elected, votes, pc, calls, cut, replayed>>

fixedVars == <<parallel, greedy, best_shot>>
resultVars == <<elected, votes>>

Init ==
  /\ parallel \in BOOLEAN /\ greedy \in BOOLEAN
  /\ best_shot \in BestShots
  /\ arca = None
  /\ state = [i \in Candidates |-> "none"]
  /\ text = [i \in Candidates |-> <<>>]
  /\ outs = [i \in Candidates |-> <<>>]
  /\ tally = [x \in Numbers |-> 0]
  /\ stop = FALSE /\ winner = -1
  /\ elected = -1 /\ votes = 0
  /\ pc = "idle" /\ calls = 0
  /\ cut = {} /\ replayed = FALSE

-----------------------------------------------------------------------------
(* Numbers and elections                                                   *)

\* final_number(): the last number of a text.
final_number(t) ==
  LET at == {i \in 1..Len(t) : t[i] \in Numbers} IN
  IF at = {} THEN None ELSE t[Max(at)]

SameNumber(i) == {j \in Candidates : final_number(outs[j]) = final_number(outs[i])}

votes_for(i) == IF final_number(outs[i]) = None THEN 1 ELSE Cardinality(SameNumber(i))

\* answer_similarity(): overlap of the word sets, in sixths.
answer_similarity(a, b) ==
  IF a = <<>> \/ b = <<>> THEN 0
  ELSE (6 * Cardinality(ToSet(a) \cap ToSet(b))) \div Cardinality(ToSet(a) \cup ToSet(b))

\* The sum of the similarities to the other candidates: every sixth counts one.
Score(i) == Cardinality({x \in (Candidates \ {i}) \X (1..6) :
                           x[2] <= answer_similarity(outs[i], outs[x[1]])})

\* First candidate with the highest measure.
FirstBest(measure) ==
  LET S == DOMAIN measure IN
  CHOOSE i \in S : /\ \A j \in S : measure[j] <= measure[i]
                   /\ \A j \in S : j < i => measure[j] < measure[i]

elect == FirstBest([i \in Candidates |-> Score(i)])

\* Mutant: the numeric vote accepts any number as a majority.
elect_any_number ==
  LET numeric == {i \in Candidates : final_number(outs[i]) # None}
  IN IF numeric # {} THEN Min(numeric) ELSE elect

\* elect_numeric(): the most frequent number when half the candidates have
\* one and somebody repeats it, otherwise the text medoid.
elect_numeric ==
  LET numeric == {i \in Candidates : final_number(outs[i]) # None}
      repeated == {i \in numeric : Cardinality(SameNumber(i)) > 1}
  IN IF 2 * Cardinality(numeric) >= n /\ repeated # {}
     THEN FirstBest([i \in repeated |-> Cardinality(SameNumber(i))])
     ELSE elect

-----------------------------------------------------------------------------
(* One candidate                                                           *)

\* generate_best() begins: in parallel mode every candidate has a thread.
Begin ==
  /\ pc = "idle" /\ calls < MaxCalls
  /\ calls' = calls + 1
  /\ state' = [i \in Candidates |-> IF parallel \/ i = 0 THEN "ready" ELSE "none"]
  /\ text' = [i \in Candidates |-> <<>>]
  /\ outs' = [i \in Candidates |-> <<>>]
  /\ tally' = [x \in Numbers |-> 0]
  /\ stop' = FALSE /\ winner' = -1
  /\ elected' = -1 /\ votes' = 0
  /\ cut' = {}
  /\ pc' = "running"
  /\ UNCHANGED <<fixedVars, arca, replayed>>

\* conclave_attempt(): candidate 0 keeps the request's config, the others
\* are sampled at 0.7 or more.
Anchor(i) == greedy /\ i = 0

\* Only a deterministic completion is looked up and stored; its key stands
\* for the model, the prompt and the token budget.
cacheable(i) == Anchor(i)

\* A hit delivers the whole entry in one piece, whatever the callback says.
CacheHit(i) ==
  /\ state[i] = "ready"
  /\ cacheable(i) /\ arca # None
  /\ text' = [text EXCEPT ![i] = arca]
  /\ state' = [state EXCEPT ![i] = "deposit"]
  /\ cut' = IF arca = best_shot THEN cut ELSE cut \cup {i}
  /\ replayed' = (replayed \/ arca # best_shot)
  /\ UNCHANGED <<fixedVars, arca, outs, tally, stop, winner, resultVars, pc, calls>>

\* A miss, or an archive that cannot be reached.
CacheMiss(i) ==
  /\ state[i] = "ready"
  /\ state' = [state EXCEPT ![i] = "generating"]
  /\ UNCHANGED <<fixedVars, arca, text, outs, tally, stop, winner, resultVars, pc, calls,
                 cut, replayed>>

\* May the model continue t with piece p, or end it?
MayWrite(i, p) ==
  IF Anchor(i) THEN Len(text[i]) < Len(best_shot) /\ p = best_shot[Len(text[i]) + 1]
  ELSE Len(text[i]) < MaxPieces

MayEnd(i) == Anchor(i) => text[i] = best_shot

\* The callback appends the piece, then looks at the flag; its relaxed load
\* may still find the flag down after it was raised.
Piece(i, p) ==
  /\ state[i] = "generating"
  /\ MayWrite(i, p)
  /\ text' = [text EXCEPT ![i] = Append(@, p)]
  /\ \/ UNCHANGED <<state, cut>>
     \/ /\ stop
        /\ state' = [state EXCEPT ![i] = "store"]
        /\ cut' = cut \cup {i}
  /\ UNCHANGED <<fixedVars, arca, outs, tally, stop, winner, resultVars, pc, calls,
                 replayed>>

EndOfText(i) ==
  /\ state[i] = "generating"
  /\ MayEnd(i)
  /\ state' = [state EXCEPT ![i] = "store"]
  /\ UNCHANGED <<fixedVars, arca, text, outs, tally, stop, winner, resultVars, pc, calls,
                 cut, replayed>>

\* generate_stream() returns after set(), which may fail silently.  It does
\* not know whether the callback cut the text short.
StoreAnswer(i) ==
  /\ state[i] = "store"
  /\ state' = [state EXCEPT ![i] = "deposit"]
  /\ arca' \in IF cacheable(i) THEN {arca, text[i]} ELSE {arca}
  /\ UNCHANGED <<fixedVars, text, outs, tally, stop, winner, resultVars, pc, calls,
                 cut, replayed>>

\* Mutant: a majority of the candidates that have arrived.
Majority_so_far(count) ==
  count * 2 > Cardinality({i \in Candidates : state[i] = "done"}) + 1

Majority(count) == count * 2 > n

\* A candidate that was cut off, or arrives after the verdict, does not vote.
MayVote(i) == ~stop /\ final_number(text[i]) # None

\* The locked part of run_attempt().
Deposit(i) ==
  /\ state[i] = "deposit"
  /\ outs' = [outs EXCEPT ![i] = text[i]]
  /\ text' = [text EXCEPT ![i] = <<>>]
  /\ LET num == final_number(text[i]) IN
     IF MayVote(i)
     THEN /\ tally' = [tally EXCEPT ![num] = @ + 1]
          /\ IF Majority(tally[num] + 1)
             THEN winner' = i /\ stop' = TRUE
             ELSE UNCHANGED <<winner, stop>>
     ELSE UNCHANGED <<tally, winner, stop>>
  /\ state' = [j \in Candidates |->
                 IF j = i THEN "done"
                 ELSE IF ~parallel /\ j = i + 1 /\ ~stop' THEN "ready" ELSE state[j]]
  /\ UNCHANGED <<fixedVars, arca, resultVars, pc, calls, cut, replayed>>

\* generate_stream() throws: nothing is deposited.
Throws(i) ==
  /\ Faults
  /\ state[i] = "generating"
  /\ state' = [state EXCEPT ![i] = "failed"]
  /\ UNCHANGED <<fixedVars, arca, text, outs, tally, stop, winner, resultVars, pc, calls,
                 cut, replayed>>

-----------------------------------------------------------------------------
(* The end of the call                                                     *)

Joined == pc = "running" /\ \A i \in Candidates : state[i] \in {"none", "done", "failed"}

\* An error of a candidate is rethrown once every thread has been joined.
Rethrow ==
  /\ Joined
  /\ \E i \in Candidates : state[i] = "failed"
  /\ pc' = "idle"
  /\ UNCHANGED <<fixedVars, arca, state, text, outs, tally, stop, winner, resultVars,
                 calls, cut, replayed>>

Elect ==
  /\ Joined
  /\ \A i \in Candidates : state[i] # "failed"
  /\ elected' = IF winner >= 0 THEN winner ELSE elect_numeric
  /\ votes' = votes_for(elected')
  /\ pc' = "idle"
  /\ UNCHANGED <<fixedVars, arca, state, text, outs, tally, stop, winner, calls,
                 cut, replayed>>

Quiet == pc = "idle" /\ calls = MaxCalls /\ UNCHANGED vars

Next == \/ Begin
        \/ \E i \in Candidates : \/ CacheHit(i)
                                 \/ CacheMiss(i)
                                 \/ \E p \in Pieces : Piece(i, p)
                                 \/ EndOfText(i)
                                 \/ StoreAnswer(i)
                                 \/ Deposit(i)
                                 \/ Throws(i)
        \/ Rethrow
        \/ Elect
        \/ Quiet

Spec == Init /\ [][Next]_vars

-----------------------------------------------------------------------------
(* Properties *)

\* Types of the state of generate_best(); a tally stops growing at the majority.
TypeOK ==
  /\ arca \in {None} \cup Seq(Pieces)
  /\ state \in [Candidates -> {"none", "ready", "generating", "store", "deposit",
                               "done", "failed"}]
  /\ text \in [Candidates -> Seq(Pieces)] /\ outs \in [Candidates -> Seq(Pieces)]
  /\ tally \in [Numbers -> 0..(n \div 2 + 1)]
  /\ stop \in BOOLEAN /\ winner \in {-1} \cup Candidates
  /\ elected \in {-1} \cup Candidates /\ votes \in 0..n
  /\ pc \in {"idle", "running"} /\ calls \in 0..MaxCalls
  /\ cut \subseteq Candidates /\ replayed \in BOOLEAN

Finished == {i \in Candidates : state[i] = "done"} \ cut

\* "No straggler can overturn it": an early verdict is never revised and
\* rests on more than half of all candidates, each of them finished, whole
\* and with the winner's number, until the cache replays a text that was cut.
VerdictStands ==
  /\ stop <=> winner >= 0
  /\ winner >= 0 /\ ~replayed =>
       /\ winner \in Finished
       /\ 2 * Cardinality(SameNumber(winner) \cap Finished) > n
       /\ pc = "idle" /\ elected >= 0 => elected = winner

\* A call never answers with a text that was cut off, and without an early
\* verdict nothing was cut off and no finished number is more frequent than
\* the elected one.
ElectedIsWhole ==
  /\ TypeOK
  /\ elected >= 0 /\ ~replayed =>
       /\ elected \in Finished
       /\ winner < 0 => /\ cut = {}
                        /\ \A i \in Candidates :
                             Cardinality(SameNumber(i)) > 1 /\ final_number(outs[i]) # None
                             /\ 2 * Cardinality({j \in Candidates : final_number(outs[j]) # None}) >= n
                             => votes_for(i) <= votes
=============================================================================
