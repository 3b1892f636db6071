--------------------------- MODULE ConclaveProofs ---------------------------
(* Safety of Conclave for any number of candidates, any pieces and any      *)
(* greedy completions.                                                     *)
EXTENDS Conclave, DataLemmas

\* Between calls no candidate is at work, during a call nothing is elected.
Phases ==
  /\ pc = "idle" => \A i \in Candidates : state[i] \in {"none", "done", "failed"}
  /\ pc = "running" => elected = -1

OutsDeposited == \A i \in Candidates : state[i] # "done" => outs[i] = <<>>

Voters(x) == {i \in Candidates : state[i] = "done" /\ final_number(outs[i]) = x}

\* Until the verdict the tally counts the finished candidates of each number,
\* and no number has a majority.
TallyExact ==
  ~stop => \A x \in Numbers : tally[x] = Cardinality(Voters(x)) /\ 2 * tally[x] <= n

\* Only the verdict cuts texts short.
NothingCut == ~stop /\ ~replayed => cut = {}

\* Every candidate gets its turn unless the verdict comes first.
InTurn ==
  pc = "running" /\ ~stop =>
    IF parallel THEN \A i \in Candidates : state[i] # "none"
    ELSE \E k \in Candidates :
           /\ \A j \in Candidates : (j < k => state[j] = "done") /\ (j > k => state[j] = "none")
           /\ state[k] # "none"
           /\ state[k] = "done" => k = n - 1

Inv ==
  /\ TypeOK /\ Phases /\ OutsDeposited /\ TallyExact /\ NothingCut /\ InTurn
  /\ VerdictStands /\ ElectedIsWhole

LEMMA CandidatesFinite ==
  /\ IsFiniteSet(Candidates) /\ Cardinality(Candidates) = n
  /\ n \in Nat /\ n >= 2 /\ 0 \in Candidates /\ Candidates \subseteq Nat
  /\ \A S \in SUBSET Candidates :
       IsFiniteSet(S) /\ Cardinality(S) \in Nat /\ Cardinality(S) <= n
<1>1. n \in Nat /\ n >= 2 /\ n \in Int
  BY ConclaveAssumption
<1>2. 0 \in Int /\ n - 1 \in Int
  BY <1>1
<1>3. IsFiniteSet(0..(n - 1)) /\ Cardinality(0..(n - 1)) = IF 0 > n - 1 THEN 0 ELSE (n - 1) - 0 + 1
  BY <1>2, FS_Interval
<1>4. IsFiniteSet(Candidates) /\ Cardinality(Candidates) = n
  BY <1>1, <1>3 DEF Candidates
<1>5. ASSUME NEW S \in SUBSET Candidates
      PROVE  IsFiniteSet(S) /\ Cardinality(S) \in Nat /\ Cardinality(S) <= n
  <2>1. IsFiniteSet(S) /\ Cardinality(S) <= Cardinality(Candidates)
    BY <1>4, FS_Subset
  <2> QED
    BY <1>4, <2>1, FS_CardinalityType
<1> QED
  BY <1>1, <1>4, <1>5 DEF Candidates

\* final_number() finds a number or nothing, and nothing in an empty text.
LEMMA FinalNumber ==
  ASSUME NEW t \in Seq(Pieces)
  PROVE  /\ final_number(t) \in Numbers \cup {None}
         /\ t = <<>> => final_number(t) = None
<1> DEFINE at == {i \in 1..Len(t) : t[i] \in Numbers}
<1>1. final_number(t) = IF at = {} THEN None ELSE t[Max(at)]
  BY DEF final_number
<1>2. ASSUME at # {} PROVE t[Max(at)] \in Numbers
  <2>1. Len(t) \in Nat /\ at \in SUBSET (0..Len(t))
    OBVIOUS
  <2>2. \E x \in at : \A y \in at : y <= x
    BY <1>2, <2>1, GreatestExists
  <2>3. \A y \in at : y \in Nat
    OBVIOUS
  <2>4. \E x \in at : \A y \in at : x >= y
    BY <2>2, <2>3
  <2>5. Max(at) \in at
    <3> HIDE DEF at
    <3> QED
      BY <2>4 DEF Max
  <2> QED
    BY <2>5
<1>3. t = <<>> => at = {}
  OBVIOUS
<1> QED
  BY <1>1, <1>2, <1>3

\* The election has a winner: the first of the best.
LEMMA FirstBestFacts ==
  ASSUME NEW S \in SUBSET Candidates, S # {}, NEW M \in Nat, NEW f \in [S -> 0..M]
  PROVE  FirstBest(f) \in S /\ \A j \in S : f[j] <= f[FirstBest(f)]
<1> DEFINE V == {f[j] : j \in S}
           B == {i \in S : \A j \in S : f[j] <= f[i]}
<1>0. \A j \in S : f[j] \in 0..M /\ j \in Nat
  BY CandidatesFinite
<1>1. V \in SUBSET (0..M) /\ V # {}
  BY <1>0
<1>2. PICK v \in V : \A w \in V : w <= v
  <2> HIDE DEF V
  <2> QED
    BY <1>1, GreatestExists
<1>3. PICK i \in S : f[i] = v
  OBVIOUS
<1>4. i \in B
  BY <1>2, <1>3
<1>5. B \in SUBSET Nat /\ B # {}
  BY <1>0, <1>4
<1>6. PICK b \in B : \A c \in B : b <= c
  <2> HIDE DEF B
  <2> QED
    BY <1>5, SmallestExists
<1>7. /\ b \in S /\ \A j \in S : f[j] <= f[b]
  BY DEF B
<1>8. ASSUME NEW j \in S, j < b PROVE f[j] < f[b]
  <2>1. SUFFICES ASSUME ~(f[j] < f[b]) PROVE FALSE
    OBVIOUS
  <2>2. f[j] = f[b]
    BY <1>0, <1>7, <2>1
  <2>3. j \in B
    BY <1>7, <2>2
  <2> QED
    BY <1>0, <1>6, <1>7, <1>8, <2>3
<1>9. \E x \in DOMAIN f : /\ \A j \in DOMAIN f : f[j] <= f[x]
                          /\ \A j \in DOMAIN f : j < x => f[j] < f[x]
  BY <1>7, <1>8
<1>10. DOMAIN f = S
  OBVIOUS
<1> HIDE DEF V, B
<1>11. FirstBest(f) = CHOOSE x \in DOMAIN f : /\ \A j \in DOMAIN f : f[j] <= f[x]
                                             /\ \A j \in DOMAIN f : j < x => f[j] < f[x]
  BY Zenon DEF FirstBest
<1>12. FirstBest(f) \in DOMAIN f /\ \A j \in DOMAIN f : f[j] <= f[FirstBest(f)]
  BY <1>9, <1>11, Zenon
<1> QED
  BY <1>10, <1>12

\* The text medoid is a candidate.
LEMMA ElectIsCandidate == elect \in Candidates
<1> DEFINE U == Candidates \X (1..6)
           M == Cardinality(U)
           f == [i \in Candidates |-> Score(i)]
<1>1. IsFiniteSet(1..6)
  <2>1. \A a, b \in Int : IsFiniteSet(a..b)
    BY FS_Interval
  <2>2. 1 \in Int /\ 6 \in Int
    OBVIOUS
  <2> QED
    BY <2>1, <2>2, Zenon
<1>2. IsFiniteSet(U) /\ M \in Nat
  <2>1. IsFiniteSet(U)
    BY <1>1, CandidatesFinite, FS_Product
  <2> HIDE DEF U
  <2> QED
    BY <2>1, FS_CardinalityType
<1>3. ASSUME NEW i \in Candidates PROVE Score(i) \in 0..M
  <2> DEFINE T == {x \in (Candidates \ {i}) \X (1..6) : x[2] <= answer_similarity(outs[i], outs[x[1]])}
  <2>1. T \in SUBSET U
    OBVIOUS
  <2>2. Score(i) = Cardinality(T)
    BY DEF Score
  <2> HIDE DEF T, U
  <2>3. IsFiniteSet(T) /\ Cardinality(T) <= M
    BY <1>2, <2>1, FS_Subset
  <2>4. Cardinality(T) \in Nat
    BY <2>3, FS_CardinalityType
  <2> HIDE DEF M
  <2> QED
    BY <1>2, <2>2, <2>3, <2>4
<1> HIDE DEF M
<1>4. f \in [Candidates -> 0..M]
  BY <1>3
<1> HIDE DEF f
<1>5. FirstBest(f) \in Candidates
  BY <1>2, <1>4, CandidatesFinite, FirstBestFacts
<1> QED
  BY <1>5 DEF elect, f

\* What elect_numeric() promises: a candidate, and a number at least as
\* frequent as any other when the numeric vote counts.
LEMMA ElectNumericFacts ==
  ASSUME outs \in [Candidates -> Seq(Pieces)], NEW e, e = elect_numeric
  PROVE  /\ e \in Candidates
         /\ \A i \in Candidates :
              /\ Cardinality(SameNumber(i)) > 1 /\ final_number(outs[i]) # None
              /\ 2 * Cardinality({j \in Candidates : final_number(outs[j]) # None}) >= n
              => /\ final_number(outs[e]) # None
                 /\ Cardinality(SameNumber(i)) <= Cardinality(SameNumber(e))
<1> DEFINE numeric == {i \in Candidates : final_number(outs[i]) # None}
           repeated == {i \in numeric : Cardinality(SameNumber(i)) > 1}
           f == [i \in repeated |-> Cardinality(SameNumber(i))]
<1>1. e = IF 2 * Cardinality(numeric) >= n /\ repeated # {} THEN FirstBest(f) ELSE elect
  BY DEF elect_numeric
<1>2. \A i \in Candidates : Cardinality(SameNumber(i)) \in 0..n
  <2>1. \A i \in Candidates : SameNumber(i) \in SUBSET Candidates
    BY DEF SameNumber
  <2> QED
    BY <2>1, CandidatesFinite
<1>3. repeated \in SUBSET Candidates /\ f \in [repeated -> 0..n] /\ n \in Nat
  BY <1>2, CandidatesFinite
<1>4. repeated # {} => FirstBest(f) \in repeated /\ \A j \in repeated : f[j] <= f[FirstBest(f)]
  <2> HIDE DEF repeated, f
  <2> QED
    BY <1>3, FirstBestFacts
<1>5. CASE 2 * Cardinality(numeric) >= n /\ repeated # {}
  <2>1. e \in repeated /\ \A j \in repeated : f[j] <= f[e]
    BY <1>1, <1>4, <1>5
  <2>2. \A j \in repeated : f[j] = Cardinality(SameNumber(j))
    OBVIOUS
  <2> QED
    BY <2>1, <2>2
<1>6. CASE ~(2 * Cardinality(numeric) >= n /\ repeated # {})
  <2>1. e \in Candidates
    BY <1>1, <1>6, ElectIsCandidate
  <2>2. ASSUME NEW i \in Candidates, Cardinality(SameNumber(i)) > 1, final_number(outs[i]) # None,
               2 * Cardinality(numeric) >= n
        PROVE  FALSE
    <3>1. i \in repeated
      BY <2>2
    <3> QED
      BY <1>6, <2>2, <3>1
  <2> QED
    BY <2>1, <2>2
<1> QED
  BY <1>5, <1>6

-----------------------------------------------------------------------------
(* The invariant holds at the start and when a call begins                 *)

LEMMA InitInv == Init => Inv
<1> SUFFICES ASSUME Init PROVE Inv
  OBVIOUS
<1>0. n \in Nat /\ n >= 2 /\ MaxCalls \in Nat /\ <<>> \in Seq(Pieces)
  BY ConclaveAssumption
<1>1. TypeOK
  <2>1. stop \in BOOLEAN /\ replayed \in BOOLEAN
    BY Zenon DEF Init
  <2>2. tally \in [Numbers -> 0..(n \div 2 + 1)]
    BY <1>0 DEF Init
  <2>3. text \in [Candidates -> Seq(Pieces)] /\ outs \in [Candidates -> Seq(Pieces)]
    BY <1>0 DEF Init
  <2> QED
    BY <1>0, <2>1, <2>2, <2>3 DEF Init, TypeOK
<1>2. /\ pc = "idle" /\ winner = -1 /\ elected = -1 /\ cut = {} /\ ~stop
      /\ \A i \in Candidates : state[i] = "none" /\ outs[i] = <<>>
      /\ \A x \in Numbers : tally[x] = 0
  BY DEF Init
<1>3. Phases /\ OutsDeposited /\ NothingCut /\ InTurn
  BY <1>2 DEF Phases, OutsDeposited, NothingCut, InTurn
<1>4. TallyExact
  <2>1. \A x \in Numbers : Voters(x) = {}
    BY <1>2 DEF Voters
  <2>2. \A x \in Numbers : Cardinality(Voters(x)) = 0
    BY <2>1, FS_EmptySet, Zenon
  <2> QED
    BY <1>0, <1>2, <2>2 DEF TallyExact
<1>5. VerdictStands /\ ElectedIsWhole
  BY <1>1, <1>2 DEF VerdictStands, ElectedIsWhole
<1> QED
  BY <1>1, <1>3, <1>4, <1>5 DEF Inv

LEMMA BeginStep ==
  ASSUME Inv, Begin
  PROVE  Inv'
<1>0. n \in Nat /\ n >= 2 /\ MaxCalls \in Nat /\ <<>> \in Seq(Pieces) /\ 0 \in Candidates
      /\ Candidates \subseteq Nat
  BY ConclaveAssumption, CandidatesFinite
<1>1. /\ calls < MaxCalls /\ calls' = calls + 1
      /\ state' = [i \in Candidates |-> IF parallel \/ i = 0 THEN "ready" ELSE "none"]
      /\ text' = [i \in Candidates |-> <<>>] /\ outs' = [i \in Candidates |-> <<>>]
      /\ tally' = [x \in Numbers |-> 0]
      /\ winner' = -1 /\ elected' = -1 /\ votes' = 0 /\ cut' = {} /\ pc' = "running"
      /\ UNCHANGED <<fixedVars, arca, replayed>>
  BY DEF Begin
<1>2. stop' = FALSE
  BY DEF Begin
<1>3. TypeOK'
  <2>1. stop' \in BOOLEAN /\ replayed' \in BOOLEAN
    BY <1>1, <1>2, Zenon DEF Inv, TypeOK
  <2>2. tally' \in [Numbers -> 0..(n \div 2 + 1)]
    BY <1>0, <1>1
  <2>3. text' \in [Candidates -> Seq(Pieces)] /\ outs' \in [Candidates -> Seq(Pieces)]
    BY <1>0, <1>1
  <2>4. calls' \in 0..MaxCalls /\ votes' \in 0..n
    BY <1>0, <1>1 DEF Inv, TypeOK
  <2>5. state' \in [Candidates -> {"none", "ready", "generating", "store", "deposit", "done", "failed"}]
    BY <1>1
  <2>6. arca' \in {None} \cup Seq(Pieces)
    BY <1>1 DEF Inv, TypeOK
  <2> QED
    BY <1>1, <2>1, <2>2, <2>3, <2>4, <2>5, <2>6 DEF TypeOK
<1>4. /\ \A i \in Candidates : state'[i] # "done" /\ outs'[i] = <<>>
      /\ \A i \in Candidates : state'[i] = IF parallel \/ i = 0 THEN "ready" ELSE "none"
      /\ \A x \in Numbers : tally'[x] = 0
  BY <1>1
<1>5. Phases' /\ OutsDeposited' /\ NothingCut'
  BY <1>1, <1>4 DEF Phases, OutsDeposited, NothingCut
<1>6. TallyExact'
  <2>1. \A x \in Numbers : Voters(x)' = {}
    BY <1>4 DEF Voters
  <2>2. \A x \in Numbers : Cardinality(Voters(x)') = 0
    BY <2>1, FS_EmptySet, Zenon
  <2> QED
    BY <1>0, <1>4, <2>2 DEF TallyExact
<1>7. InTurn'
  <2>1. parallel' = parallel
    BY <1>1 DEF fixedVars
  <2>2. CASE parallel
    BY <1>4, <2>1, <2>2 DEF InTurn
  <2>3. CASE ~parallel
    <3>1. /\ \A j \in Candidates : (j < 0 => state'[j] = "done") /\ (j > 0 => state'[j] = "none")
          /\ state'[0] = "ready"
      BY <1>0, <1>4, <2>3
    <3> QED
      BY <1>0, <2>1, <2>3, <3>1 DEF InTurn
  <2> QED
    BY <2>2, <2>3
<1>8. VerdictStands' /\ ElectedIsWhole'
  BY <1>1, <1>2, <1>3 DEF VerdictStands, ElectedIsWhole
<1> QED
  BY <1>3, <1>5, <1>6, <1>7, <1>8 DEF Inv

-----------------------------------------------------------------------------
(* A candidate at work                                                     *)

AtWork == {"ready", "generating", "store", "deposit"}

\* A candidate moves on without depositing: nothing that counts has changed.
LEMMA WorkStep ==
  ASSUME Inv, NEW i \in Candidates, state[i] \in AtWork,
         NEW v \in {"generating", "store", "deposit", "failed"},
         state' = [state EXCEPT ![i] = v],
         UNCHANGED <<fixedVars, outs, tally, stop, winner, resultVars, pc, calls>>,
         text' \in [Candidates -> Seq(Pieces)], arca' \in {None} \cup Seq(Pieces),
         replayed' \in BOOLEAN, replayed => replayed',
         cut' = cut \/ (cut' = cut \cup {i} /\ (stop \/ replayed'))
  PROVE  Inv'
<1>0. TypeOK /\ Phases /\ OutsDeposited /\ TallyExact /\ NothingCut /\ InTurn /\ VerdictStands
  BY DEF Inv
<1>1. state \in [Candidates -> {"none", "ready", "generating", "store", "deposit", "done", "failed"}]
  BY <1>0 DEF TypeOK
<1>2. pc = "running" /\ elected = -1
  BY <1>0 DEF Phases, TypeOK, AtWork
<1>3. /\ \A j \in Candidates : j # i => state'[j] = state[j]
      /\ state'[i] = v /\ state[i] # "done" /\ state[i] # "none" /\ v # "done" /\ v # "none"
  BY <1>1 DEF AtWork
<1>4. \A j \in Candidates : /\ state'[j] = "done" <=> state[j] = "done"
                            /\ state'[j] = "none" <=> state[j] = "none"
  BY <1>3
<1>5. Finished' = Finished
  BY <1>3, <1>4 DEF Finished
<1>6. /\ \A x : Voters(x)' = Voters(x)
      /\ \A j : SameNumber(j)' = SameNumber(j)
  BY <1>4 DEF Voters, SameNumber
<1>7. TypeOK'
  <2>1. stop' \in BOOLEAN
    BY <1>0, Zenon DEF TypeOK
  <2>2. state' \in [Candidates -> {"none", "ready", "generating", "store", "deposit", "done", "failed"}]
    BY <1>1
  <2>3. cut' \subseteq Candidates
    BY <1>0 DEF TypeOK
  <2> QED
    BY <1>0, <2>1, <2>2, <2>3 DEF TypeOK, resultVars
<1>8. Phases' /\ OutsDeposited'
  BY <1>0, <1>2, <1>4 DEF Phases, OutsDeposited, resultVars
<1>9. TallyExact'
  <2>1. \A x \in Numbers : Cardinality(Voters(x)') = Cardinality(Voters(x))
    BY <1>6, Zenon
  <2> QED
    BY <1>0, <2>1 DEF TallyExact
<1>10. NothingCut'
  BY <1>0 DEF NothingCut
<1>11. InTurn'
  <2> SUFFICES ASSUME ~stop
               PROVE  IF parallel THEN \A j \in Candidates : state'[j] # "none"
                      ELSE \E k \in Candidates :
                             /\ \A j \in Candidates : /\ j < k => state'[j] = "done"
                                                      /\ j > k => state'[j] = "none"
                             /\ state'[k] # "none"
                             /\ state'[k] = "done" => k = n - 1
    BY DEF InTurn, fixedVars
  <2>1. CASE parallel
    BY <1>0, <1>2, <1>4, <2>1 DEF InTurn
  <2>2. CASE ~parallel
    <3>1. PICK k \in Candidates :
             /\ \A j \in Candidates : (j < k => state[j] = "done") /\ (j > k => state[j] = "none")
             /\ state[k] # "none"
             /\ state[k] = "done" => k = n - 1
      BY <1>0, <1>2, <2>2 DEF InTurn
    <3> QED
      BY <1>4, <2>2, <3>1
  <2> QED
    BY <2>1, <2>2
<1>12. VerdictStands'
  <2>1. SameNumber(winner)' = SameNumber(winner)
    BY <1>6 DEF SameNumber
  <2>2. Cardinality((SameNumber(winner) \cap Finished)') = Cardinality(SameNumber(winner) \cap Finished)
    BY <1>5, <2>1
  <2> QED
    BY <1>0, <1>2, <1>5, <2>2 DEF VerdictStands, resultVars
<1>13. ElectedIsWhole'
  BY <1>2, <1>7 DEF ElectedIsWhole, resultVars
<1> QED
  BY <1>7, <1>8, <1>9, <1>10, <1>11, <1>12, <1>13 DEF Inv

LEMMA CacheHitStep ==
  ASSUME Inv, NEW i \in Candidates, CacheHit(i)
  PROVE  Inv'
<1>1. /\ state[i] = "ready" /\ state' = [state EXCEPT ![i] = "deposit"]
      /\ text' = [text EXCEPT ![i] = arca] /\ arca # None /\ arca' = arca
      /\ UNCHANGED <<fixedVars, outs, tally, stop, winner, resultVars, pc, calls>>
  BY DEF CacheHit
<1>2. replayed' \in BOOLEAN /\ (replayed => replayed')
  BY Zenon DEF CacheHit
<1>3. cut' = cut \/ (cut' = cut \cup {i} /\ replayed')
  BY DEF CacheHit
<1>4. arca \in {None} \cup Seq(Pieces) /\ text \in [Candidates -> Seq(Pieces)]
  BY DEF Inv, TypeOK
<1>5. text' \in [Candidates -> Seq(Pieces)] /\ arca' \in {None} \cup Seq(Pieces)
  BY <1>1, <1>4
<1> QED
  BY <1>1, <1>2, <1>3, <1>5, WorkStep DEF AtWork

\* Steps that leave the cache and the texts alone.
LEMMA MoveOnStep ==
  ASSUME Inv, NEW i \in Candidates, CacheMiss(i) \/ EndOfText(i) \/ Throws(i)
  PROVE  Inv'
<1>1. PICK v \in {"generating", "store", "failed"} :
         /\ state[i] \in AtWork /\ state' = [state EXCEPT ![i] = v]
         /\ UNCHANGED <<fixedVars, arca, text, outs, tally, stop, winner, resultVars, pc, calls,
                        cut>>
  BY DEF CacheMiss, EndOfText, Throws, AtWork
<1>2. replayed' \in BOOLEAN /\ (replayed => replayed')
  <2>1. replayed' = replayed
    BY DEF CacheMiss, EndOfText, Throws
  <2> QED
    BY <2>1, Zenon DEF Inv, TypeOK
<1>3. text' \in [Candidates -> Seq(Pieces)] /\ arca' \in {None} \cup Seq(Pieces)
  BY <1>1 DEF Inv, TypeOK
<1> QED
  BY <1>1, <1>2, <1>3, WorkStep

LEMMA PieceStep ==
  ASSUME Inv, NEW i \in Candidates, NEW p \in Pieces, Piece(i, p)
  PROVE  Inv'
<1>0. /\ state \in [Candidates -> {"none", "ready", "generating", "store", "deposit", "done", "failed"}]
      /\ text \in [Candidates -> Seq(Pieces)]
  BY DEF Inv, TypeOK
<1>1. /\ state[i] = "generating" /\ text' = [text EXCEPT ![i] = Append(@, p)]
      /\ UNCHANGED <<fixedVars, arca, outs, tally, stop, winner, resultVars, pc, calls>>
      /\ \/ state' = state /\ cut' = cut
         \/ stop /\ state' = [state EXCEPT ![i] = "store"] /\ cut' = cut \cup {i}
  BY DEF Piece
<1>2. replayed' \in BOOLEAN /\ (replayed => replayed')
  <2>1. replayed' = replayed
    BY DEF Piece
  <2> QED
    BY <2>1, Zenon DEF Inv, TypeOK
<1>3. PICK v \in {"generating", "store"} : state' = [state EXCEPT ![i] = v]
  <2>1. state = [state EXCEPT ![i] = "generating"]
    BY <1>0, <1>1
  <2> QED
    BY <1>1, <2>1
<1>4. text' \in [Candidates -> Seq(Pieces)]
  <2>1. Append(text[i], p) \in Seq(Pieces)
    BY <1>0, AppendFacts
  <2> QED
    BY <1>0, <1>1, <2>1
<1>5. arca' \in {None} \cup Seq(Pieces)
  BY <1>1 DEF Inv, TypeOK
<1> QED
  BY <1>1, <1>2, <1>3, <1>4, <1>5, WorkStep DEF AtWork

LEMMA StoreAnswerStep ==
  ASSUME Inv, NEW i \in Candidates, StoreAnswer(i)
  PROVE  Inv'
<1>0. text \in [Candidates -> Seq(Pieces)] /\ arca \in {None} \cup Seq(Pieces)
  BY DEF Inv, TypeOK
<1>1. /\ state[i] = "store" /\ state' = [state EXCEPT ![i] = "deposit"]
      /\ arca' = arca \/ arca' = text[i]
      /\ UNCHANGED <<fixedVars, text, outs, tally, stop, winner, resultVars, pc, calls, cut>>
  BY DEF StoreAnswer
<1>2. replayed' \in BOOLEAN /\ (replayed => replayed')
  <2>1. replayed' = replayed
    BY DEF StoreAnswer
  <2> QED
    BY <2>1, Zenon DEF Inv, TypeOK
<1>3. text' \in [Candidates -> Seq(Pieces)] /\ arca' \in {None} \cup Seq(Pieces)
  BY <1>0, <1>1
<1> QED
  BY <1>1, <1>2, <1>3, WorkStep DEF AtWork

-----------------------------------------------------------------------------
(* The locked part of run_attempt()                                        *)

\* Before the verdict a candidate that runs alone is the only one at work.
LEMMA TurnOf ==
  ASSUME Inv, NEW i \in Candidates, state[i] \in AtWork, ~stop, ~parallel
  PROVE  \A j \in Candidates : (j < i => state[j] = "done") /\ (j > i => state[j] = "none")
<1>1. pc = "running"
  BY DEF Inv, Phases, TypeOK, AtWork
<1>2. PICK k \in Candidates :
         /\ \A j \in Candidates : (j < k => state[j] = "done") /\ (j > k => state[j] = "none")
         /\ state[k] # "none"
         /\ state[k] = "done" => k = n - 1
  BY <1>1 DEF Inv, InTurn
<1>3. i \in Nat /\ k \in Nat
  BY CandidatesFinite
<1>4. ~(i < k) /\ ~(i > k)
  BY <1>2 DEF AtWork
<1>5. i = k
  BY <1>3, <1>4
<1> QED
  BY <1>2, <1>5

LEMMA DepositStep ==
  ASSUME Inv, NEW i \in Candidates, Deposit(i)
  PROVE  Inv'
<1>0. TypeOK /\ Phases /\ OutsDeposited /\ TallyExact /\ NothingCut /\ InTurn /\ VerdictStands
  BY DEF Inv
<1>a. PICK num : num = final_number(text[i])
  OBVIOUS
<1>1. /\ state[i] = "deposit"
      /\ outs' = [outs EXCEPT ![i] = text[i]] /\ text' = [text EXCEPT ![i] = <<>>]
      /\ state' = [j \in Candidates |->
                     IF j = i THEN "done"
                     ELSE IF ~parallel /\ j = i + 1 /\ ~stop' THEN "ready" ELSE state[j]]
      /\ UNCHANGED <<fixedVars, arca, resultVars, pc, calls, cut>>
  BY DEF Deposit
<1>2. replayed' = replayed
  BY DEF Deposit
<1>3. /\ MayVote(i) => /\ tally' = [tally EXCEPT ![num] = @ + 1]
                       /\ Majority(tally[num] + 1) => winner' = i /\ stop' = TRUE
                       /\ ~Majority(tally[num] + 1) => winner' = winner /\ stop' = stop
      /\ ~MayVote(i) => tally' = tally /\ winner' = winner /\ stop' = stop
  BY <1>a DEF Deposit
<1>4. /\ state \in [Candidates -> {"none", "ready", "generating", "store", "deposit", "done", "failed"}]
      /\ text \in [Candidates -> Seq(Pieces)] /\ outs \in [Candidates -> Seq(Pieces)]
      /\ tally \in [Numbers -> 0..(n \div 2 + 1)] /\ cut \subseteq Candidates
      /\ n \in Nat /\ n >= 2 /\ Candidates \subseteq Nat /\ None \notin Numbers
  BY <1>0, CandidatesFinite, ConclaveAssumption DEF TypeOK
<1>5. num \in Numbers \cup {None}
  BY <1>a, <1>4, FinalNumber
<1>6. pc = "running" /\ elected = -1 /\ state[i] \in AtWork
  BY <1>0, <1>1 DEF Phases, TypeOK, AtWork
<1>7. stop \in BOOLEAN /\ stop' \in BOOLEAN /\ (stop => stop')
  <2>1. stop \in BOOLEAN
    BY <1>0, Zenon DEF TypeOK
  <2>2. stop' = TRUE \/ stop' = stop
    BY <1>3
  <2> QED
    BY <2>1, <2>2, Zenon
<1>8. MayVote(i) <=> ~stop /\ num # None
  BY <1>a DEF MayVote
<1>9. /\ \A j \in Candidates : j # i => outs'[j] = outs[j]
      /\ outs'[i] = text[i]
      /\ outs' \in [Candidates -> Seq(Pieces)] /\ text' \in [Candidates -> Seq(Pieces)]
  <2>1. <<>> \in Seq(Pieces)
    OBVIOUS
  <2> QED
    BY <1>1, <1>4, <2>1
<1>10. \A j \in Candidates : state'[j] = "done" <=> state[j] = "done" \/ j = i
  <2> SUFFICES ASSUME NEW j \in Candidates, j # i PROVE state'[j] = "done" <=> state[j] = "done"
    BY <1>1
  <2>1. CASE ~parallel /\ j = i + 1 /\ ~stop'
    <3>1. j > i
      BY <1>4, <2>1
    <3>2. state[j] = "none"
      BY <1>6, <1>7, <2>1, <3>1, TurnOf
    <3> QED
      BY <1>1, <2>1, <3>2
  <2>2. CASE ~(~parallel /\ j = i + 1 /\ ~stop')
    BY <1>1, <2>2
  <2> QED
    BY <2>1, <2>2
<1>11. TypeOK'
  <2>1. replayed' \in BOOLEAN
    BY <1>0, <1>2, Zenon DEF TypeOK
  <2>2. state' \in [Candidates -> {"none", "ready", "generating", "store", "deposit", "done", "failed"}]
    BY <1>1, <1>4
  <2>3. tally' \in [Numbers -> 0..(n \div 2 + 1)]
    <3>1. CASE MayVote(i)
      <4>1. num \in Numbers /\ 2 * tally[num] <= n /\ tally[num] \in Nat
        BY <1>0, <1>4, <1>5, <1>8, <3>1 DEF TallyExact
      <4>2. tally[num] + 1 \in 0..(n \div 2 + 1)
        BY <1>4, <4>1
      <4> QED
        BY <1>3, <1>4, <3>1, <4>2
    <3>2. CASE ~MayVote(i)
      BY <1>3, <1>4, <3>2
    <3> QED
      BY <3>1, <3>2
  <2>4. winner' \in {-1} \cup Candidates
    BY <1>0, <1>3 DEF TypeOK
  <2> QED
    BY <1>0, <1>1, <1>7, <1>9, <2>1, <2>2, <2>3, <2>4 DEF TypeOK, resultVars
<1>12. Phases' /\ OutsDeposited'
  BY <1>0, <1>1, <1>6, <1>9, <1>10 DEF Phases, OutsDeposited, resultVars
<1>13. NothingCut'
  BY <1>0, <1>1, <1>2, <1>7 DEF NothingCut
<1>14. \A x : Voters(x)' = IF x = num THEN Voters(x) \cup {i} ELSE Voters(x)
  <2>1. \A j \in Candidates : j = i => final_number(outs'[j]) = num
    BY <1>a, <1>9
  <2>2. \A j \in Candidates : j # i => outs'[j] = outs[j]
    BY <1>9
  <2>3. \A x : Voters(x)' = {j \in Candidates : state'[j] = "done" /\ final_number(outs'[j]) = x}
    BY DEF Voters, final_number
  <2>4. state[i] # "done"
    BY <1>1
  <2> QED
    BY <1>10, <2>1, <2>2, <2>3, <2>4 DEF Voters
<1>15. ASSUME ~stop, num # None
       PROVE  Cardinality(Voters(num)') = tally[num] + 1 /\ tally[num] \in Nat
  <2>1. i \notin Voters(num) /\ Voters(num) \in SUBSET Candidates
    BY <1>1 DEF Voters
  <2>2. IsFiniteSet(Voters(num))
    BY <2>1, CandidatesFinite
  <2>3. Cardinality(Voters(num) \cup {i}) = Cardinality(Voters(num)) + 1
    BY <2>1, <2>2, FS_AddElement
  <2>4. tally[num] = Cardinality(Voters(num)) /\ tally[num] \in Nat
    BY <1>0, <1>4, <1>5, <1>15 DEF TallyExact
  <2>5. Voters(num)' = Voters(num) \cup {i}
    BY <1>14
  <2>6. Cardinality(Voters(num)') = Cardinality(Voters(num) \cup {i})
    BY <2>5, Zenon
  <2> QED
    BY <2>3, <2>4, <2>6
<1>16. TallyExact'
  <2> SUFFICES ASSUME ~stop', NEW x \in Numbers
               PROVE  tally'[x] = Cardinality(Voters(x)') /\ 2 * tally'[x] <= n
    BY DEF TallyExact
  <2>0. ~stop /\ tally[x] = Cardinality(Voters(x)) /\ 2 * tally[x] <= n
    BY <1>0, <1>7 DEF TallyExact
  <2>1. CASE x = num
    <3>1. MayVote(i) /\ num # None
      BY <1>4, <1>8, <2>0, <2>1
    <3>2. ~Majority(tally[num] + 1) /\ tally' = [tally EXCEPT ![num] = @ + 1]
      BY <1>3, <3>1
    <3>3. tally'[x] = tally[num] + 1
      BY <1>4, <2>1, <3>2
    <3>4. Cardinality(Voters(num)') = tally[num] + 1 /\ tally[num] \in Nat
      BY <1>15, <2>0, <3>1
    <3>5. 2 * (tally[num] + 1) <= n
      BY <1>4, <3>2, <3>4 DEF Majority
    <3> QED
      BY <2>1, <3>3, <3>4, <3>5
  <2>2. CASE x # num
    <3>1. tally'[x] = tally[x]
      BY <1>3, <1>4, <2>2
    <3>2. Voters(x)' = Voters(x)
      BY <1>14, <2>2
    <3>3. Cardinality(Voters(x)') = Cardinality(Voters(x))
      BY <3>2, Zenon
    <3> QED
      BY <2>0, <3>1, <3>3
  <2> QED
    BY <2>1, <2>2
<1>17. InTurn'
  <2> SUFFICES ASSUME ~stop'
               PROVE  IF parallel THEN \A j \in Candidates : state'[j] # "none"
                      ELSE \E k \in Candidates :
                             /\ \A j \in Candidates : /\ j < k => state'[j] = "done"
                                                      /\ j > k => state'[j] = "none"
                             /\ state'[k] # "none"
                             /\ state'[k] = "done" => k = n - 1
    BY <1>1 DEF InTurn, fixedVars
  <2>1. CASE parallel
    BY <1>0, <1>1, <1>6, <1>7, <2>1 DEF InTurn
  <2>2. CASE ~parallel
    <3>1. \A j \in Candidates : (j < i => state[j] = "done") /\ (j > i => state[j] = "none")
      BY <1>6, <1>7, <2>2, TurnOf
    <3>2. \A j \in Candidates : state'[j] = IF j = i THEN "done"
                                            ELSE IF j = i + 1 THEN "ready" ELSE state[j]
      BY <1>1, <2>2
    <3>3. CASE i = n - 1
      <4>1. \A j \in Candidates : j <= i
        BY <1>4, <3>3 DEF Candidates
      <4> QED
        <5>1. /\ \A j \in Candidates : /\ j < i => state'[j] = "done"
                                       /\ j > i => state'[j] = "none"
              /\ state'[i] = "done"
          BY <1>4, <3>1, <3>2, <4>1
        <5> QED
          BY <2>2, <3>3, <5>1
    <3>4. CASE i # n - 1
      <4>1. i + 1 \in Candidates /\ i \in Nat
        BY <1>4, <3>4 DEF Candidates
      <4>2. \A j \in Candidates : /\ j < i + 1 => state'[j] = "done"
                                  /\ j > i + 1 => state'[j] = "none"
        BY <1>4, <3>1, <3>2, <4>1
      <4>3. state'[i + 1] = "ready"
        BY <3>2, <4>1
      <4> QED
        BY <2>2, <4>1, <4>2, <4>3
    <3> QED
      BY <3>3, <3>4
  <2> QED
    BY <2>1, <2>2
<1>18. Finished' = Finished \cup ({i} \ cut)
  BY <1>1, <1>10 DEF Finished
<1>19. VerdictStands'
  <2>1. CASE MayVote(i) /\ Majority(tally[num] + 1)
    <3>0. ~stop /\ num # None /\ winner' = i
      BY <1>3, <1>8, <2>1
    <3>1. stop'
      BY <1>3, <2>1
    <3>2. ASSUME ~replayed
          PROVE  i \in Finished' /\ 2 * Cardinality((SameNumber(winner) \cap Finished)') > n
      <4>1. cut = {} /\ cut' = {}
        BY <1>0, <1>1, <3>0, <3>2 DEF NothingCut
      <4>2. i \in Finished'
        BY <1>18, <4>1
      <4>3. final_number(outs'[i]) = num
        BY <1>a, <1>9
      <4>4. (SameNumber(winner) \cap Finished)' = Voters(num)'
        BY <3>0, <4>1, <4>3 DEF SameNumber, Finished, Voters, final_number
      <4>5. Cardinality((SameNumber(winner) \cap Finished)') = Cardinality(Voters(num)')
        BY <4>4, Zenon
      <4>6. Cardinality(Voters(num)') = tally[num] + 1 /\ tally[num] \in Nat
        BY <1>15, <3>0
      <4>7. (tally[num] + 1) * 2 > n
        BY <2>1 DEF Majority
      <4> QED
        BY <1>4, <4>2, <4>5, <4>6, <4>7
    <3>3. winner' >= 0
      BY <1>4, <3>0
    <3> QED
      BY <1>1, <1>2, <1>6, <3>0, <3>1, <3>2, <3>3 DEF VerdictStands
  <2>2. CASE ~(MayVote(i) /\ Majority(tally[num] + 1))
    <3>1. winner' = winner /\ stop' = stop
      BY <1>3, <2>2
    <3>2. stop <=> winner >= 0
      BY <1>0 DEF VerdictStands
    <3>3. ASSUME winner >= 0, ~replayed
          PROVE  winner \in Finished' /\ 2 * Cardinality((SameNumber(winner) \cap Finished)') > n
      <4>1. winner \in Finished /\ 2 * Cardinality(SameNumber(winner) \cap Finished) > n
        BY <1>0, <3>3 DEF VerdictStands
      <4>2. winner \in Candidates /\ winner # i /\ outs'[winner] = outs[winner]
        BY <1>1, <1>9, <4>1 DEF Finished
      <4> DEFINE A == SameNumber(winner) \cap Finished
                 B == (SameNumber(winner) \cap Finished)'
      <4>3. A \subseteq B
        <5> SUFFICES ASSUME NEW j \in A PROVE j \in B
          OBVIOUS
        <5>1. /\ j \in Candidates /\ j # i /\ j \in Finished'
              /\ final_number(outs[j]) = final_number(outs[winner])
          BY <1>1, <1>18 DEF Finished, SameNumber
        <5>2. final_number(outs'[j]) = final_number(outs'[winner])
          BY <1>9, <4>2, <5>1
        <5> QED
          BY <3>1, <5>1, <5>2 DEF SameNumber, final_number
      <4>4. A \in SUBSET Candidates /\ B \in SUBSET Candidates
        BY DEF SameNumber, Finished
      <4>5. winner \in Finished'
        BY <1>18, <4>1
      <4>6. 2 * Cardinality(A) > n
        BY <4>1
      <4> HIDE DEF A, B
      <4>7. IsFiniteSet(B) /\ Cardinality(B) \in Nat /\ Cardinality(A) \in Nat
        BY <4>4, CandidatesFinite
      <4>8. Cardinality(A) <= Cardinality(B)
        BY <4>3, <4>7, FS_Subset
      <4>9. 2 * Cardinality(B) > n
        BY <1>4, <4>6, <4>7, <4>8
      <4> QED
        BY <4>5, <4>9 DEF B
    <3> QED
      BY <1>1, <1>2, <1>6, <3>1, <3>2, <3>3 DEF VerdictStands
  <2> QED
    BY <2>1, <2>2
<1>20. ElectedIsWhole'
  BY <1>1, <1>6, <1>11 DEF ElectedIsWhole, resultVars
<1> QED
  BY <1>11, <1>12, <1>13, <1>16, <1>17, <1>19, <1>20 DEF Inv

-----------------------------------------------------------------------------
(* The end of the call                                                     *)

LEMMA RethrowStep ==
  ASSUME Inv, Rethrow
  PROVE  Inv'
<1>0. TypeOK /\ Phases /\ OutsDeposited /\ TallyExact /\ NothingCut /\ VerdictStands
  BY DEF Inv
<1>1. /\ pc = "running" /\ pc' = "idle"
      /\ \A i \in Candidates : state[i] \in {"none", "done", "failed"}
      /\ UNCHANGED <<fixedVars, arca, state, text, outs, tally, stop, winner, resultVars, calls,
                     cut, replayed>>
  BY DEF Rethrow, Joined
<1>2. elected' = -1
  BY <1>0, <1>1 DEF Phases, resultVars
<1>3. TypeOK'
  <2>1. stop' \in BOOLEAN /\ replayed' \in BOOLEAN
    BY <1>0, <1>1, Zenon DEF TypeOK
  <2> QED
    BY <1>0, <1>1, <2>1 DEF TypeOK, resultVars
<1>4. Phases' /\ OutsDeposited' /\ NothingCut' /\ InTurn'
  BY <1>0, <1>1 DEF Phases, OutsDeposited, NothingCut, InTurn
<1>5. TallyExact'
  BY <1>0, <1>1 DEF TallyExact, Voters
<1>6. VerdictStands' /\ ElectedIsWhole'
  BY <1>0, <1>1, <1>2, <1>3 DEF VerdictStands, ElectedIsWhole, SameNumber, Finished
<1> QED
  BY <1>3, <1>4, <1>5, <1>6 DEF Inv

\* Without a verdict every candidate has finished and none was cut.
LEMMA AllFinished ==
  ASSUME Inv, Joined, \A i \in Candidates : state[i] # "failed", ~stop
  PROVE  \A i \in Candidates : state[i] = "done"
<1>0. pc = "running" /\ \A i \in Candidates : state[i] \in {"none", "done"}
  BY DEF Joined
<1>1. CASE parallel
  BY <1>0, <1>1 DEF Inv, InTurn
<1>2. CASE ~parallel
  <2>1. PICK k \in Candidates :
           /\ \A j \in Candidates : (j < k => state[j] = "done") /\ (j > k => state[j] = "none")
           /\ state[k] # "none"
           /\ state[k] = "done" => k = n - 1
    BY <1>0, <1>2 DEF Inv, InTurn
  <2>2. state[k] = "done" /\ k = n - 1
    BY <1>0, <2>1
  <2>3. \A j \in Candidates : j < k \/ j = k
    BY <2>2, CandidatesFinite DEF Candidates
  <2> QED
    BY <2>1, <2>2, <2>3
<1> QED
  BY <1>1, <1>2

LEMMA ElectStep ==
  ASSUME Inv, Elect
  PROVE  Inv'
<1>0. TypeOK /\ Phases /\ OutsDeposited /\ TallyExact /\ NothingCut /\ VerdictStands
  BY DEF Inv
<1>a. PICK e : e = IF winner >= 0 THEN winner ELSE elect_numeric
  OBVIOUS
<1>1. /\ Joined /\ pc' = "idle" /\ elected' = e /\ votes' = votes_for(e)
      /\ \A i \in Candidates : state[i] # "failed"
      /\ UNCHANGED <<fixedVars, arca, state, text, outs, tally, stop, winner, calls, cut, replayed>>
  BY <1>a DEF Elect
<1>2. /\ outs \in [Candidates -> Seq(Pieces)] /\ winner \in {-1} \cup Candidates
      /\ n \in Nat /\ n >= 2 /\ Candidates \subseteq Nat
  BY <1>0, CandidatesFinite DEF TypeOK
<1>3. stop <=> winner >= 0
  BY <1>0 DEF VerdictStands
<1>4. winner < 0 <=> ~(winner >= 0)
  BY <1>2
<1>5. /\ e \in Candidates
      /\ winner < 0 =>
           \A i \in Candidates :
              /\ Cardinality(SameNumber(i)) > 1 /\ final_number(outs[i]) # None
              /\ 2 * Cardinality({j \in Candidates : final_number(outs[j]) # None}) >= n
              => /\ final_number(outs[e]) # None
                 /\ Cardinality(SameNumber(i)) <= Cardinality(SameNumber(e))
  <2>1. CASE winner >= 0
    BY <1>a, <1>2, <1>4, <2>1
  <2>2. CASE ~(winner >= 0)
    BY <1>a, <1>2, <2>2, ElectNumericFacts
  <2> QED
    BY <2>1, <2>2
<1>6. votes_for(e) \in 0..n
  <2>1. SameNumber(e) \in SUBSET Candidates
    BY DEF SameNumber
  <2>2. Cardinality(SameNumber(e)) \in 0..n
    BY <2>1, CandidatesFinite
  <2> QED
    BY <1>2, <2>2 DEF votes_for
<1>7. TypeOK'
  <2>1. stop' \in BOOLEAN /\ replayed' \in BOOLEAN
    BY <1>0, <1>1, Zenon DEF TypeOK
  <2> QED
    BY <1>0, <1>1, <1>5, <1>6, <2>1 DEF TypeOK
<1>8. Phases' /\ OutsDeposited' /\ NothingCut' /\ InTurn'
  BY <1>0, <1>1 DEF Phases, OutsDeposited, NothingCut, InTurn, Joined
<1>9. TallyExact'
  BY <1>0, <1>1 DEF TallyExact, Voters
<1>10. /\ Finished' = Finished /\ SameNumber(winner)' = SameNumber(winner)
       /\ \A i : votes_for(i)' = votes_for(i) /\ SameNumber(i)' = SameNumber(i)
       /\ \A i : final_number(outs[i])' = final_number(outs[i])
  BY <1>1 DEF Finished, SameNumber, votes_for
<1>11. VerdictStands'
  <2>1. Cardinality((SameNumber(winner) \cap Finished)') = Cardinality(SameNumber(winner) \cap Finished)
    BY <1>10, Zenon
  <2>2. winner >= 0 => elected' = winner
    BY <1>a, <1>1
  <2> QED
    BY <1>0, <1>1, <1>10, <2>1, <2>2 DEF VerdictStands
<1>12. ElectedIsWhole'
  <2> SUFFICES ASSUME ~replayed
               PROVE  /\ e \in Finished
                      /\ winner < 0 =>
                           /\ cut = {}
                           /\ \A i \in Candidates :
                                /\ Cardinality(SameNumber(i)) > 1 /\ final_number(outs[i]) # None
                                /\ 2 * Cardinality({j \in Candidates : final_number(outs[j]) # None}) >= n
                                => votes_for(i) <= votes_for(e)
    BY <1>1, <1>7, <1>10 DEF ElectedIsWhole, SameNumber, votes_for
  <2>1. CASE winner >= 0
    BY <1>a, <1>0, <1>4, <2>1 DEF VerdictStands
  <2>2. CASE ~(winner >= 0)
    <3>1. ~stop /\ cut = {}
      BY <1>0, <1>3, <2>2 DEF NothingCut
    <3>2. e \in Finished
      BY <1>1, <1>5, <3>1, AllFinished DEF Finished
    <3>3. ASSUME NEW i \in Candidates, Cardinality(SameNumber(i)) > 1, final_number(outs[i]) # None,
                 2 * Cardinality({j \in Candidates : final_number(outs[j]) # None}) >= n
          PROVE  votes_for(i) <= votes_for(e)
      <4>1. /\ final_number(outs[e]) # None
            /\ Cardinality(SameNumber(i)) <= Cardinality(SameNumber(e))
        BY <1>4, <1>5, <2>2, <3>3
      <4> QED
        BY <3>3, <4>1 DEF votes_for
    <3> QED
      BY <3>1, <3>2, <3>3
  <2> QED
    BY <2>1, <2>2
<1> QED
  BY <1>7, <1>8, <1>9, <1>11, <1>12 DEF Inv

LEMMA StutterStep ==
  ASSUME Inv, UNCHANGED vars
  PROVE  Inv'
<1>1. TypeOK' /\ Phases' /\ OutsDeposited' /\ TallyExact' /\ NothingCut' /\ InTurn'
  BY DEF Inv, vars, TypeOK, Phases, OutsDeposited, TallyExact, Voters, NothingCut, InTurn
<1>2. VerdictStands'
  BY DEF Inv, vars, VerdictStands, SameNumber, Finished
<1>3. ElectedIsWhole'
  <2>1. ElectedIsWhole
    BY DEF Inv
  <2>2. /\ Finished' = Finished
        /\ \A i : votes_for(i)' = votes_for(i) /\ SameNumber(i)' = SameNumber(i)
    BY DEF vars, Finished, votes_for, SameNumber
  <2> QED
    BY <1>1, <2>1, <2>2 DEF ElectedIsWhole, vars
<1> QED
  BY <1>1, <1>2, <1>3 DEF Inv

LEMMA NextInv == Inv /\ [Next]_vars => Inv'
<1> SUFFICES ASSUME Inv, [Next]_vars PROVE Inv'
  OBVIOUS
<1>1. CASE Begin
  BY <1>1, BeginStep
<1>2. ASSUME NEW i \in Candidates, CacheHit(i) PROVE Inv'
  BY <1>2, CacheHitStep
<1>3. ASSUME NEW i \in Candidates, CacheMiss(i) \/ EndOfText(i) \/ Throws(i) PROVE Inv'
  BY <1>3, MoveOnStep
<1>4. ASSUME NEW i \in Candidates, NEW p \in Pieces, Piece(i, p) PROVE Inv'
  BY <1>4, PieceStep
<1>5. ASSUME NEW i \in Candidates, StoreAnswer(i) PROVE Inv'
  BY <1>5, StoreAnswerStep
<1>6. ASSUME NEW i \in Candidates, Deposit(i) PROVE Inv'
  BY <1>6, DepositStep
<1>7. CASE Rethrow
  BY <1>7, RethrowStep
<1>8. CASE Elect
  BY <1>8, ElectStep
<1>9. CASE UNCHANGED vars
  BY <1>9, StutterStep
<1> QED
  BY <1>1, <1>2, <1>3, <1>4, <1>5, <1>6, <1>7, <1>8, <1>9 DEF Next, Quiet

-----------------------------------------------------------------------------
(* Theorems                                                                *)

LEMMA Invariance == Spec => []Inv
<1>1. Init => Inv
  BY InitInv
<1>2. Inv /\ [Next]_vars => Inv'
  BY NextInv
<1> QED
  BY <1>1, <1>2, PTL DEF Spec

\* generate_best(): the early verdict rests on a real majority of finished,
\* whole candidates and stands however the other threads are scheduled, for
\* any number of candidates, until the cache replays a text that was cut.
THEOREM VerdictCorrect == Spec => []VerdictStands
<1>1. Inv => VerdictStands
  BY DEF Inv
<1> QED
  BY <1>1, Invariance, PTL

\* What generate_best() returns is a whole text, and without an early verdict
\* no number is more frequent than the elected one.
THEOREM ElectionCorrect == Spec => []ElectedIsWhole
<1>1. Inv => ElectedIsWhole
  BY DEF Inv
<1> QED
  BY <1>1, Invariance, PTL
=============================================================================
