---------------------- MODULE SpeculativeDecoderProofs ----------------------
(* Safety of SpeculativeDecoder for any vocabulary, target model, prompts,  *)
(* context length and limits of the draft.                                 *)
EXTENDS SpeculativeDecoder, DataLemmas

\* A call in progress: what its variables have in common.
CallShape ==
  /\ pc # "idle" => history # <<>> /\ tokens = history /\ ended = "none"
  /\ emitted <= Len(history)
  /\ pc = "draft_prefill" => speculative_active /\ mode = "model"
  /\ lookup_skip => mode = "lookup"

\* A round goes on only where there is room for it.
RoundShape ==
  /\ pc \in {"verify", "emit"} =>
       speculative_active /\ emitted < max_tokens /\ Len(history) < n_ctx
  /\ pc = "verify" => draft # <<>> /\ Len(draft) <= n_ctx - Len(history)
  /\ pc = "emit" => new_tokens # <<>> /\ accepted <= Len(draft)

\* The number of positions the target holds, also when its contents are in doubt.
TargetLength ==
  /\ pc \in {"draft_prefill", "verify"} \/ Running => Len(target_kv) = Len(history) - 1
  /\ pc = "emit" => Len(target_kv) = Len(history) + Len(new_tokens) - 1

\* What the target holds: at the head of an iteration everything but the newest
\* token, after verification the survivors too, all but the last.
TargetSync ==
  ~in_doubt =>
    /\ pc \in {"draft_prefill", "verify"} \/ Running => target_kv = Front(history)
    /\ pc = "emit" => target_kv = history \o Front(new_tokens)
    /\ pc = "loop" /\ Len(target_kv) = Len(history) => target_kv = history

\* What the draft model holds.
DraftSync ==
  mode = "model" =>
    /\ Running /\ speculative_active => draft_kv = Front(history)
    /\ pc = "verify" => draft_kv = history \o Front(draft)
    /\ pc = "emit" => draft_kv = history \o Front(new_tokens)

\* The survivors are tokens the target could have sampled one after the other.
SurvivorsEarned ==
  ~in_doubt /\ pc = "emit" =>
    \A j \in 1..Len(new_tokens) :
       new_tokens[j] \in Support(history \o SubSeq(new_tokens, 1, j - 1))

Inv ==
  /\ TypeOK /\ CallShape /\ RoundShape /\ TargetLength
  /\ TargetSync /\ DraftSync /\ SurvivorsEarned
  /\ Lossless /\ GuardImpliesContext

-----------------------------------------------------------------------------
(* What the draft sources may propose                                      *)

LEMMA Vocabularies == Tokens \subseteq Vocabulary /\ DraftTokens \subseteq Vocabulary
BY DEF Vocabulary

LEMMA PromptTokens == ASSUME NEW p \in Prompts PROVE p \in Seq(Vocabulary)
<1>1. p \in Seq(Tokens)
  BY DecoderAssumption
<1> QED
  BY <1>1, Vocabularies, SeqMonotonic

LEMMA SeqOfFunction ==
  ASSUME NEW S, NEW k \in Nat, NEW d \in [1..k -> S]
  PROVE  d \in Seq(S) /\ Len(d) = k
<1>1. d \in Seq(S)
  BY SeqDef
<1> QED
  BY <1>1

\* There is room for at least one token, and never for more than the context.
LEMMA RoomForDraft ==
  ASSUME TypeOK, Running
  PROVE  n_draft \in Nat /\ n_draft >= 1 /\ n_draft <= n_ctx - Len(history)
<1>1. /\ Len(history) \in Nat /\ Len(history) < n_ctx /\ n_ctx \in Nat
      /\ min_draft_tokens \in Nat /\ min_draft_tokens >= 1
      /\ current_draft_tokens \in min_draft_tokens..max_draft_tokens /\ max_draft_tokens \in Nat
  BY DecoderAssumption DEF TypeOK, Running
<1> QED
  BY <1>1 DEF n_draft

LEMMA ModelDraftFits ==
  ASSUME TypeOK, Running, NEW d \in ModelDrafts
  PROVE  d \in Seq(Vocabulary) /\ d # <<>> /\ Len(d) <= n_ctx - Len(history)
<1>1. PICK k \in 1..n_draft : d \in [1..k -> DraftTokens]
  BY DEF ModelDrafts
<1>2. d \in Seq(DraftTokens) /\ Len(d) = k
  BY <1>1, RoomForDraft, SeqOfFunction
<1>4. d \in Seq(Vocabulary)
  BY <1>2, Vocabularies, SeqMonotonic
<1>5. d # <<>>
  BY <1>1, <1>2, RoomForDraft, NonEmptyLen
<1>6. Len(d) <= n_draft /\ n_draft \in Nat /\ n_draft <= n_ctx - Len(history)
  BY <1>1, <1>2, RoomForDraft
<1>7. n_ctx \in Nat /\ Len(history) \in Nat /\ Len(d) \in Nat
  BY <1>4, DecoderAssumption DEF TypeOK
<1> QED
  BY <1>4, <1>5, <1>6, <1>7

\* find_draft() copies at most k tokens from inside the history.
LEMMA FoundDraftFits ==
  ASSUME NEW h \in Seq(Vocabulary), NEW k \in Nat, find_draft(h, k) # <<>>
  PROVE  find_draft(h, k) \in Seq(Vocabulary) /\ Len(find_draft(h, k)) <= k
<1> DEFINE ns == {n \in lookup_min_ngram..lookup_max_ngram : Occurrences(h, n) # {}}
           n == CHOOSE x \in ns : \A y \in ns : y <= x
           occ == Occurrences(h, n)
           start == CHOOSE x \in occ : \A y \in occ : y <= x
           last == start + n - 1 + k
           upto == IF last < Len(h) THEN last ELSE Len(h)
<1>0. lookup_min_ngram \in Nat /\ lookup_max_ngram \in Nat /\ lookup_min_ngram >= 1
  BY DecoderAssumption
<1>1. /\ ns # {}
      /\ find_draft(h, k) = SubSeq(h, start + n, upto)
  <2>1. find_draft(h, k) = IF ns = {} THEN <<>> ELSE SubSeq(h, start + n, upto)
    BY Zenon DEF find_draft
  <2> HIDE DEF ns, n, start, upto
  <2> QED
    BY <2>1
<1>2. n \in ns
  <2>1. ns \in SUBSET (0..lookup_max_ngram)
    BY <1>0
  <2>2. \E x \in ns : \A y \in ns : y <= x
    BY <1>0, <1>1, <2>1, GreatestExists
  <2> HIDE DEF ns
  <2> QED
    BY <2>2
<1> HIDE DEF n
<1>3. n \in Nat /\ n >= 1 /\ occ # {}
  BY <1>0, <1>2
<1> HIDE DEF ns
<1>4. start \in occ
  <2>1. occ \in SUBSET (0..Len(h)) /\ Len(h) \in Nat
    BY <1>3 DEF Occurrences
  <2>2. \E x \in occ : \A y \in occ : y <= x
    BY <1>3, <2>1, GreatestExists
  <2> HIDE DEF occ
  <2> QED
    BY <2>2
<1>5. start \in 1..(Len(h) - n)
  BY <1>3, <1>4 DEF Occurrences
<1> HIDE DEF start, occ
<1>6. /\ start + n \in 1..(Len(h) + 1) /\ upto \in (start + n - 1)..Len(h)
      /\ upto - (start + n) + 1 <= k
  BY <1>3, <1>5
<1> HIDE DEF upto
<1> DEFINE a == start + n
<1>7. a \in 1..(Len(h) + 1) /\ upto \in (a - 1)..Len(h) /\ upto - a + 1 <= k
  BY <1>3, <1>5, <1>6
<1> HIDE DEF a
<1>8. SubSeq(h, a, upto) \in Seq(Vocabulary) /\ Len(SubSeq(h, a, upto)) = upto - a + 1
  BY <1>7, MiddleFacts
<1> QED
  BY <1>1, <1>7, <1>8 DEF a

LEMMA LookupDraftFits ==
  ASSUME TypeOK, Running, NEW d \in LookupDrafts
  PROVE  d \in Seq(Vocabulary) /\ d # <<>> /\ Len(d) <= n_ctx - Len(history)
<1>0. history \in Seq(Vocabulary) /\ n_ctx \in Nat /\ Len(history) \in Nat
  BY DecoderAssumption DEF TypeOK
<1>1. n_draft \in Nat /\ n_draft >= 1 /\ n_draft <= n_ctx - Len(history)
  BY RoomForDraft
<1>2. CASE find_draft(history, n_draft) # <<>>
  <2>1. d = find_draft(history, n_draft)
    BY <1>2 DEF LookupDrafts
  <2>2. d \in Seq(Vocabulary) /\ Len(d) <= n_draft
    BY <1>0, <1>1, <1>2, <2>1, FoundDraftFits
  <2> QED
    BY <1>0, <1>1, <1>2, <2>1, <2>2
<1>3. CASE find_draft(history, n_draft) = <<>>
  <2>1. PICK k \in 1..n_draft : d \in [1..k -> Tokens]
    BY <1>3 DEF LookupDrafts
  <2>2. d \in Seq(Vocabulary) /\ Len(d) = k
    <3>1. d \in Seq(Tokens) /\ Len(d) = k
      BY <1>1, <2>1, SeqOfFunction
    <3> QED
      BY <3>1, Vocabularies, SeqMonotonic
  <2>3. d # <<>>
    BY <1>1, <2>1, <2>2, NonEmptyLen
  <2> QED
    BY <1>0, <1>1, <2>1, <2>2, <2>3
<1> QED
  BY <1>2, <1>3

-----------------------------------------------------------------------------
(* The invariant holds at the start                                        *)

LEMMA InitInv == Init => Inv
<1> SUFFICES ASSUME Init PROVE Inv
  OBVIOUS
<1>1. TypeOK
  <2>1. current_draft_tokens \in min_draft_tokens..max_draft_tokens
    BY DecoderAssumption DEF Init
  <2>2. speculative_active \in BOOLEAN /\ lookup_skip \in BOOLEAN /\ in_doubt \in BOOLEAN
    BY Zenon DEF Init
  <2> QED
    BY <2>1, <2>2, DecoderAssumption DEF Init, TypeOK
<1>2. pc = "idle" /\ ~Running /\ ~lookup_skip /\ history = <<>> /\ emitted = 0 /\ ended = "none"
  BY DEF Init, Running
<1>3. CallShape /\ RoundShape /\ TargetLength /\ TargetSync /\ DraftSync /\ SurvivorsEarned
  BY <1>2 DEF CallShape, RoundShape, TargetLength, TargetSync, DraftSync, SurvivorsEarned
<1>4. Lossless
  BY <1>2 DEF Lossless
<1>5. GuardImpliesContext
  BY DEF Init, GuardImpliesContext
<1> QED
  BY <1>1, <1>3, <1>4, <1>5 DEF Inv

-----------------------------------------------------------------------------
(* The prefill                                                             *)

\* Whatever the KV held, the prefill leaves the prompt's length in it, and the
\* prompt itself unless the context it trusted was in doubt.
LEMMA PrefilledFacts ==
  ASSUME TypeOK, GuardImpliesContext, pc = "idle", NEW p \in Seq(Vocabulary), Len(p) >= 1
  PROVE  /\ Prefilled(p) \in Seq(Vocabulary) /\ Len(Prefilled(p)) = Len(p) - 1
         /\ ~in_doubt \/ ~Estende(p) => Prefilled(p) = Front(p)
<1>0. target_kv \in Seq(Vocabulary) /\ context_tokens \in Seq(Vocabulary) /\ p # <<>>
  BY DEF TypeOK
<1>1. Front(p) \in Seq(Vocabulary) /\ Len(Front(p)) = Len(p) - 1
  BY <1>0, FrontFacts
<1>2. CASE ~Estende(p)
  BY <1>1, <1>2 DEF Prefilled
<1>3. CASE Estende(p)
  <2>1. /\ Len(p) > Len(context_tokens) /\ Len(target_kv) = Len(context_tokens)
        /\ IsPrefix(context_tokens, p)
    BY <1>3 DEF Estende
  <2>2. PICK m \in 1..(Len(p) + 1) : m = Len(context_tokens) + 1
    BY <1>0, <2>1
  <2>3. PICK n \in (m - 1)..Len(p) : n = Len(p) - 1
    <3>1. Len(p) \in Nat /\ Len(context_tokens) \in Nat
      BY <1>0
    <3>2. Len(p) - 1 \in (m - 1)..Len(p)
      BY <2>1, <2>2, <3>1
    <3> QED
      BY <3>2
  <2> DEFINE b == SubSeq(p, m, n)
  <2>4. b \in Seq(Vocabulary) /\ Len(b) = n - m + 1
    BY MiddleFacts
  <2>5. Prefilled(p) = target_kv \o b
    BY <1>3, <2>2, <2>3 DEF Prefilled
  <2> HIDE DEF b
  <2>6. b \in Seq(Vocabulary)
    BY <2>4
  <2>7. target_kv \o b \in Seq(Vocabulary) /\ Len(target_kv \o b) = Len(target_kv) + Len(b)
    BY <1>0, <2>6, ConcatFacts
  <2>8. Len(Prefilled(p)) = Len(p) - 1
    <3>1. Len(Prefilled(p)) = Len(target_kv) + Len(b)
      BY <2>5, <2>7
    <3>2. Len(context_tokens) \in Nat /\ Len(p) \in Nat
      BY <1>0
    <3> QED
      BY <2>1, <2>2, <2>3, <2>4, <3>1, <3>2
  <2>9. ASSUME ~in_doubt PROVE Prefilled(p) = Front(p)
    <3>1. target_kv = context_tokens
      BY <2>1, <2>9 DEF GuardImpliesContext
    <3>2. n \in Len(context_tokens)..Len(p)
      BY <1>0, <2>1, <2>2, <2>3
    <3>3. context_tokens \o SubSeq(p, Len(context_tokens) + 1, n) = SubSeq(p, 1, n)
      BY <1>0, <2>1, <3>2, ExtendPrefix
    <3> QED
      BY <2>2, <2>3, <2>5, <3>1, <3>3 DEF b, Front
  <2> QED
    BY <1>3, <2>5, <2>7, <2>8, <2>9
<1> QED
  BY <1>2, <1>3

LEMMA BeginStep ==
  ASSUME Inv, NEW p \in Prompts, NEW m \in Budgets, Begin(p, m)
  PROVE  Inv'
<1>0. TypeOK /\ GuardImpliesContext /\ CallShape
  BY DEF Inv
<1>1. /\ pc = "idle" /\ p \in Seq(Vocabulary) /\ Len(p) \in 1..n_ctx /\ p # <<>>
      /\ m \in Nat /\ MaxCalls \in Nat
  BY PromptTokens, DecoderAssumption DEF Begin, Call
<1>2. /\ Prefilled(p) \in Seq(Vocabulary) /\ Len(Prefilled(p)) = Len(p) - 1
      /\ ~in_doubt \/ ~Estende(p) => Prefilled(p) = Front(p)
  BY <1>0, <1>1, PrefilledFacts
<1>3. /\ target_kv' = Prefilled(p) /\ history' = p /\ tokens' = p
      /\ max_tokens' = m /\ emitted' = 0 /\ ended' = "none"
      /\ calls' = calls + 1 /\ calls < MaxCalls
      /\ lookup_skip' = FALSE
      /\ UNCHANGED <<mode, draft_kv, context_tokens, adaptiveVars, roundVars>>
  BY DEF Begin, Call
<1>4. /\ pc' \in {"draft_prefill", "loop"}
      /\ pc' = "draft_prefill" => speculative_active /\ mode = "model"
      /\ pc' = "loop" => ~(speculative_active /\ mode = "model")
  BY DEF Begin
<1>5. ~in_doubt' => target_kv' = Front(history')
  BY <1>2, <1>3 DEF Begin
<1>6. TypeOK'
  <2>1. in_doubt' \in BOOLEAN /\ lookup_skip' \in BOOLEAN /\ speculative_active' \in BOOLEAN
    BY <1>0, <1>3, Zenon DEF Begin, TypeOK, adaptiveVars
  <2>2. calls' \in 0..MaxCalls
    BY <1>0, <1>1, <1>3 DEF TypeOK
  <2> QED
    BY <1>0, <1>1, <1>2, <1>3, <1>4, <2>1, <2>2 DEF TypeOK, adaptiveVars, roundVars
<1>7. speculative_active' = speculative_active /\ mode' = mode /\ ~lookup_skip'
  BY <1>3 DEF adaptiveVars
<1>8. CallShape' /\ RoundShape'
  BY <1>1, <1>3, <1>4, <1>7 DEF CallShape, RoundShape
<1>9. TargetLength' /\ TargetSync'
  <2>1. Len(target_kv') = Len(history') - 1 /\ Len(history') \in Nat /\ pc' # "emit"
    BY <1>1, <1>2, <1>3, <1>4
  <2> QED
    BY <1>5, <2>1 DEF TargetLength, TargetSync
<1>10. DraftSync' /\ SurvivorsEarned'
  BY <1>4, <1>7 DEF DraftSync, SurvivorsEarned, Running
<1>11. Lossless'
  BY <1>1, <1>3 DEF Lossless
<1>12. GuardImpliesContext'
  BY <1>4 DEF GuardImpliesContext
<1> QED
  BY <1>6, <1>8, <1>9, <1>10, <1>11, <1>12 DEF Inv

LEMMA BeginThrowsStep ==
  ASSUME Inv, NEW p \in Prompts, BeginThrows(p)
  PROVE  Inv'
<1>0. TypeOK /\ CallShape
  BY DEF Inv
<1>1. /\ pc = "idle" /\ p \in Seq(Vocabulary) /\ Len(p) \in 1..n_ctx /\ p # <<>> /\ MaxCalls \in Nat
  BY PromptTokens, DecoderAssumption DEF BeginThrows, Call
<1>2. /\ history' = p /\ emitted' = 0 /\ ended' = "error"
      /\ calls' = calls + 1 /\ calls < MaxCalls
      /\ UNCHANGED <<mode, draft_kv, context_tokens, tokens, max_tokens, adaptiveVars,
                     lookup_skip, roundVars, pc>>
  BY DEF BeginThrows, Call
<1>3. in_doubt' = TRUE
  BY DEF BeginThrows
<1>4. target_kv' \in Seq(Vocabulary)
  <2>1. Front(p) \in Seq(Vocabulary)
    BY <1>1, FrontFacts
  <2>2. \A n \in 0..Len(Front(p)) : SubSeq(Front(p), 1, n) \in Seq(Vocabulary)
    BY <2>1, SubSeqFacts
  <2>3. target_kv' = target_kv \/ target_kv' \in Prefixes(Front(p))
    BY DEF BeginThrows
  <2> QED
    BY <1>0, <2>2, <2>3 DEF Prefixes, TypeOK
<1>5. TypeOK'
  <2>1. in_doubt' \in BOOLEAN /\ lookup_skip' \in BOOLEAN /\ speculative_active' \in BOOLEAN
    BY <1>0, <1>2, <1>3, Zenon DEF TypeOK, adaptiveVars
  <2>2. calls' \in 0..MaxCalls
    BY <1>0, <1>1, <1>2 DEF TypeOK
  <2> QED
    BY <1>0, <1>1, <1>2, <1>4, <2>1, <2>2 DEF TypeOK, adaptiveVars, roundVars
<1>6. CallShape' /\ RoundShape' /\ TargetLength'
  BY <1>0, <1>1, <1>2 DEF CallShape, RoundShape, TargetLength, Running
<1>7. DraftSync' /\ TargetSync' /\ SurvivorsEarned' /\ Lossless' /\ GuardImpliesContext'
  BY <1>1, <1>2, <1>3 DEF DraftSync, TargetSync, SurvivorsEarned, Lossless, GuardImpliesContext,
                          Running
<1> QED
  BY <1>5, <1>6, <1>7 DEF Inv

-----------------------------------------------------------------------------
(* Drafting                                                                *)

\* Steps that deliver nothing keep what was said of the delivered tokens.
LEMMA LosslessKept ==
  ASSUME Lossless, UNCHANGED <<history, emitted, in_doubt, ended>>
  PROVE  Lossless'
BY DEF Lossless

LEMMA DraftPrefillStep ==
  ASSUME Inv, DraftPrefill \/ DraftPrefillThrows
  PROVE  Inv'
<1>0. TypeOK /\ CallShape /\ TargetLength /\ TargetSync /\ Lossless
  BY DEF Inv
<1>1. /\ pc = "draft_prefill" /\ pc' = "loop"
      /\ UNCHANGED <<requestVars, target_kv, context_tokens, tokens, history, emitted,
                     current_draft_tokens, total_draft, total_accepted, lookup_skip,
                     roundVars, in_doubt, ended>>
      /\ \/ draft_kv' = Front(history) /\ speculative_active' = speculative_active
         \/ draft_kv' = <<>> /\ speculative_active' = FALSE
  BY DEF DraftPrefill, DraftPrefillThrows, adaptiveVars
<1>2. history \in Seq(Vocabulary) /\ history # <<>> /\ tokens = history /\ ended = "none"
  BY <1>0, <1>1 DEF TypeOK, CallShape
<1>3. Front(history) \in Seq(Vocabulary) /\ Len(history) \in Nat /\ Len(history) >= 1
  BY <1>2, FrontFacts
<1>4. TypeOK'
  <2>1. speculative_active' \in BOOLEAN /\ lookup_skip' \in BOOLEAN /\ in_doubt' \in BOOLEAN
    BY <1>0, <1>1, Zenon DEF TypeOK
  <2>2. draft_kv' \in Seq(Vocabulary)
    <3>1. <<>> \in Seq(Vocabulary)
      OBVIOUS
    <3>2. draft_kv' = Front(history) \/ draft_kv' = <<>>
      BY <1>1
    <3> QED
      BY <1>3, <3>1, <3>2
  <2> QED
    BY <1>0, <1>1, <2>1, <2>2 DEF TypeOK, requestVars, roundVars
<1>5. CallShape' /\ RoundShape'
  BY <1>0, <1>1, <1>2 DEF CallShape, RoundShape, requestVars
<1>6. Len(target_kv) = Len(history) - 1 /\ (~in_doubt => target_kv = Front(history))
  BY <1>0, <1>1 DEF TargetLength, TargetSync
<1>7. TargetLength' /\ TargetSync'
  BY <1>1, <1>3, <1>6 DEF TargetLength, TargetSync
<1>8. DraftSync' /\ SurvivorsEarned' /\ GuardImpliesContext'
  BY <1>1 DEF DraftSync, SurvivorsEarned, GuardImpliesContext
<1>9. Lossless'
  BY <1>0, <1>1, LosslessKept
<1> QED
  BY <1>4, <1>5, <1>7, <1>8, <1>9 DEF Inv

\* Both models together: what the source proposes fits into the context.
LEMMA DraftStep ==
  ASSUME Inv, DraftModel \/ DraftLookup
  PROVE  Inv'
<1>0. TypeOK /\ CallShape /\ TargetLength /\ TargetSync /\ Lossless /\ DraftSync
  BY DEF Inv
<1>1. /\ Running /\ speculative_active /\ pc = "loop" /\ pc' = "verify"
      /\ UNCHANGED <<requestVars, target_kv, context_tokens, tokens, history, emitted,
                     adaptiveVars, lookup_skip, accepted, new_tokens, in_doubt, ended>>
      /\ \/ /\ mode = "model" /\ draft' \in ModelDrafts
            /\ draft_kv' = draft_kv \o <<cur>> \o Front(draft')
         \/ mode = "lookup" /\ draft' \in LookupDrafts /\ draft_kv' = draft_kv
  BY DEF DraftModel, DraftLookup, Speculating, Running
<1>2. draft' \in Seq(Vocabulary) /\ draft' # <<>> /\ Len(draft') <= n_ctx - Len(history)
  BY <1>0, <1>1, ModelDraftFits, LookupDraftFits
<1>3. /\ history \in Seq(Vocabulary) /\ history # <<>> /\ tokens = history /\ ended = "none"
      /\ emitted < max_tokens /\ Len(history) < n_ctx
  BY <1>0, <1>1 DEF TypeOK, CallShape, Running
<1>4. /\ Front(draft') \in Seq(Vocabulary) /\ Front(history) \in Seq(Vocabulary)
      /\ cur \in Vocabulary /\ Append(Front(history), cur) = history
  BY <1>2, <1>3, FrontFacts, FrontLast DEF cur
<1>5. /\ mode = "model" => draft_kv' = history \o Front(draft')
      /\ draft_kv' \in Seq(Vocabulary)
  <2>1. mode = "model" => draft_kv = Front(history)
    BY <1>0, <1>1 DEF DraftSync
  <2>2. Front(history) \o <<cur>> = history
    BY <1>4, ConcatOne
  <2>3. history \o Front(draft') \in Seq(Vocabulary)
    BY <1>3, <1>4, ConcatFacts
  <2>4. draft_kv \in Seq(Vocabulary)
    BY <1>0 DEF TypeOK
  <2> QED
    BY <1>1, <2>1, <2>2, <2>3, <2>4
<1>6. TypeOK'
  <2>1. speculative_active' \in BOOLEAN /\ lookup_skip' \in BOOLEAN /\ in_doubt' \in BOOLEAN
    BY <1>0, <1>1, Zenon DEF TypeOK, adaptiveVars
  <2> QED
    BY <1>0, <1>1, <1>2, <1>5, <2>1 DEF TypeOK, requestVars, adaptiveVars
<1>7. CallShape' /\ RoundShape'
  BY <1>0, <1>1, <1>2, <1>3 DEF CallShape, RoundShape, requestVars, adaptiveVars
<1>8. Len(target_kv) = Len(history) - 1 /\ (~in_doubt => target_kv = Front(history))
  BY <1>0, <1>1 DEF TargetLength, TargetSync
<1>9. TargetLength' /\ TargetSync'
  BY <1>1, <1>8 DEF TargetLength, TargetSync, Running
<1>10. DraftSync' /\ SurvivorsEarned' /\ GuardImpliesContext'
  BY <1>1, <1>5 DEF DraftSync, SurvivorsEarned, GuardImpliesContext, requestVars, Running
<1>11. Lossless'
  BY <1>0, <1>1, LosslessKept
<1> QED
  BY <1>6, <1>7, <1>9, <1>10, <1>11 DEF Inv

\* The sources that give up leave everything but their flag alone.
LEMMA NoDraftStep ==
  ASSUME Inv, LookupMiss \/ DraftLost
  PROVE  Inv'
<1>0. TypeOK /\ CallShape /\ TargetLength /\ TargetSync /\ Lossless /\ DraftSync
  BY DEF Inv
<1>1. /\ pc = "loop" /\ pc' = "loop"
      /\ UNCHANGED <<requestVars, target_kv, draft_kv, context_tokens, tokens, history, emitted,
                     current_draft_tokens, total_draft, total_accepted, roundVars, in_doubt,
                     ended>>
      /\ \/ mode = "lookup" /\ lookup_skip' = TRUE /\ speculative_active' = speculative_active
         \/ lookup_skip' = lookup_skip /\ speculative_active' = FALSE
  BY DEF LookupMiss, DraftLost, Speculating, Running, adaptiveVars
<1>2. TypeOK'
  <2>1. speculative_active' \in BOOLEAN /\ lookup_skip' \in BOOLEAN /\ in_doubt' \in BOOLEAN
    BY <1>0, <1>1, Zenon DEF TypeOK
  <2> QED
    BY <1>0, <1>1, <2>1 DEF TypeOK, requestVars, roundVars
<1>3. CallShape' /\ RoundShape'
  BY <1>0, <1>1 DEF CallShape, RoundShape, requestVars
<1>4. TargetLength' /\ TargetSync'
  BY <1>0, <1>1 DEF TargetLength, TargetSync, Running, requestVars
<1>5. DraftSync' /\ SurvivorsEarned' /\ GuardImpliesContext'
  BY <1>0, <1>1 DEF DraftSync, SurvivorsEarned, GuardImpliesContext, Running, requestVars
<1>6. Lossless'
  BY <1>0, <1>1, LosslessKept
<1> QED
  BY <1>2, <1>3, <1>4, <1>5, <1>6 DEF Inv

-----------------------------------------------------------------------------
(* Verification                                                            *)

\* The target has read exactly the history and the draft before position i.
LEMMA JudgedFacts ==
  ASSUME Inv, pc = "verify", ~in_doubt, NEW i
  PROVE  Judged(i) = history \o SubSeq(draft, 1, i - 1)
<1>1. history \in Seq(Vocabulary) /\ history # <<>> /\ target_kv = Front(history)
  BY DEF Inv, TypeOK, CallShape, TargetSync
<1>2. Front(history) \in Seq(Vocabulary) /\ cur \in Vocabulary /\ Append(Front(history), cur) = history
  BY <1>1, FrontFacts, FrontLast DEF cur
<1>3. target_kv \o <<cur>> = history
  BY <1>1, <1>2, ConcatOne
<1> QED
  BY <1>3 DEF Judged

\* The batch holds every position from the first token to the last but one of
\* the draft.
LEMMA BatchedFacts ==
  ASSUME Inv, pc = "verify"
  PROVE  /\ Batched \in Seq(Vocabulary) /\ Len(Batched) = Len(history) + Len(draft) - 1
         /\ ~in_doubt => Batched = history \o Front(draft)
<1>0. /\ target_kv \in Seq(Vocabulary) /\ history \in Seq(Vocabulary) /\ history # <<>>
      /\ draft \in Seq(Vocabulary) /\ draft # <<>> /\ Len(target_kv) = Len(history) - 1
  BY DEF Inv, TypeOK, CallShape, RoundShape, TargetLength
<1>1. /\ Front(draft) \in Seq(Vocabulary) /\ Len(Front(draft)) = Len(draft) - 1
      /\ Len(history) \in Nat /\ Len(draft) \in Nat /\ cur \in Vocabulary
  BY <1>0, FrontFacts DEF cur
<1>2. target_kv \o <<cur>> = Append(target_kv, cur)
  BY <1>0, <1>1, ConcatOne
<1>3. Append(target_kv, cur) \in Seq(Vocabulary) /\ Len(Append(target_kv, cur)) = Len(target_kv) + 1
  BY <1>0, <1>1, AppendFacts
<1> DEFINE u == Append(target_kv, cur)
           w == u \o Front(draft)
<1>4. u \in Seq(Vocabulary) /\ Len(u) = Len(history)
  BY <1>0, <1>1, <1>3
<1> HIDE DEF u
<1>5. w \in Seq(Vocabulary) /\ Len(w) = Len(u) + Len(Front(draft))
  BY <1>1, <1>4, ConcatFacts
<1> HIDE DEF w
<1>6. Batched = w
  BY <1>2 DEF Batched, u, w
<1>7. ASSUME ~in_doubt PROVE Batched = history \o Front(draft)
  <2>1. target_kv = Front(history)
    BY <1>7 DEF Inv, TargetSync
  <2>2. u = history
    BY <1>0, <2>1, FrontLast DEF u, cur
  <2> QED
    BY <1>6, <2>2 DEF w
<1>8. Len(w) = Len(history) + Len(draft) - 1
  BY <1>1, <1>4, <1>5
<1> QED
  BY <1>5, <1>6, <1>7, <1>8

\* Cutting history \o Front(d) at the accepted tokens leaves history and the
\* survivors but the correction.
LEMMA CutFacts ==
  ASSUME NEW h \in Seq(Vocabulary), NEW d \in Seq(Vocabulary), d # <<>>, NEW a \in 0..(Len(d) - 1),
         NEW c \in Vocabulary
  PROVE  /\ Append(SubSeq(d, 1, a), c) \in Seq(Vocabulary)
         /\ Len(Append(SubSeq(d, 1, a), c)) = a + 1
         /\ SubSeq(h \o Front(d), 1, Len(h) + a) = h \o Front(Append(SubSeq(d, 1, a), c))
<1>1. a \in 0..Len(d) /\ Len(d) \in Nat
  OBVIOUS
<1>2. SubSeq(d, 1, a) \in Seq(Vocabulary) /\ Len(SubSeq(d, 1, a)) = a
  BY <1>1, SubSeqFacts
<1>3. Front(Append(SubSeq(d, 1, a), c)) = SubSeq(d, 1, a)
  BY <1>2, FrontAppend
<1>4. /\ Front(d) \in Seq(Vocabulary) /\ Len(Front(d)) = Len(d) - 1
      /\ \A i \in 1..(Len(d) - 1) : Front(d)[i] = d[i]
  BY FrontFacts
<1> DEFINE f == Front(d)
<1>5. f \in Seq(Vocabulary) /\ a \in 0..Len(f) /\ Len(f) = Len(d) - 1
  BY <1>4
<1>6. \A i \in 1..Len(f) : f[i] = d[i]
  BY <1>4
<1> HIDE DEF f
<1>7. SubSeq(h \o f, 1, Len(h) + a) = h \o SubSeq(f, 1, a)
  BY <1>5, CutConcat
<1>8. SubSeq(f, 1, a) = SubSeq(d, 1, a)
  <2>1. /\ SubSeq(f, 1, a) \in Seq(Vocabulary) /\ Len(SubSeq(f, 1, a)) = a
        /\ \A i \in 1..a : SubSeq(f, 1, a)[i] = f[i]
    BY <1>5, SubSeqFacts
  <2>2. \A i \in 1..a : SubSeq(d, 1, a)[i] = d[i]
    BY <1>1, SubSeqFacts
  <2>3. \A i \in 1..a : f[i] = d[i]
    BY <1>1, <1>5, <1>6
  <2> QED
    BY <1>2, <2>1, <2>2, <2>3, EqualSeqs
<1>9. Append(SubSeq(d, 1, a), c) \in Seq(Vocabulary) /\ Len(Append(SubSeq(d, 1, a), c)) = a + 1
  BY <1>2, AppendFacts
<1> QED
  BY <1>3, <1>7, <1>8, <1>9 DEF f

LEMMA VerifyStep ==
  ASSUME Inv, NEW a \in 0..Len(draft), NEW c \in Vocabulary, verify_batch(a, c)
  PROVE  Inv'
<1>0. /\ TypeOK /\ CallShape /\ RoundShape /\ TargetLength /\ TargetSync /\ DraftSync /\ Lossless
      /\ pc = "verify"
  BY DEF Inv, verify_batch
<1>1. /\ pc' = "emit" /\ accepted' = a
      /\ total_draft' = total_draft + Len(draft) /\ total_accepted' = total_accepted + a
      /\ UNCHANGED <<requestVars, context_tokens, tokens, history, emitted, speculative_active,
                     current_draft_tokens, lookup_skip, draft, ended>>
      /\ in_doubt' = (in_doubt \/ Misread(a))
  BY DEF verify_batch
<1>2. /\ history \in Seq(Vocabulary) /\ history # <<>> /\ draft \in Seq(Vocabulary) /\ draft # <<>>
      /\ Len(history) \in Nat /\ Len(draft) \in Nat /\ Len(draft) >= 1 /\ draft_kv \in Seq(Vocabulary)
  BY <1>0 DEF TypeOK, CallShape, RoundShape
<1>3. /\ Batched \in Seq(Vocabulary) /\ Len(Batched) = Len(history) + Len(draft) - 1
      /\ ~in_doubt => Batched = history \o Front(draft)
  BY <1>0, BatchedFacts
<1>4. mode = "model" => draft_kv = history \o Front(draft)
  BY <1>0 DEF DraftSync
<1>5. Front(draft) \in Seq(Vocabulary) /\ history \o Front(draft) \in Seq(Vocabulary)
  <2>1. Front(draft) \in Seq(Vocabulary)
    BY <1>2, FrontFacts
  <2> QED
    BY <1>2, <2>1, ConcatFacts
\* the three sequences that verification leaves behind
<1>6. /\ new_tokens' \in Seq(Vocabulary) /\ new_tokens' # <<>>
      /\ target_kv' \in Seq(Vocabulary) /\ Len(target_kv') = Len(history) + Len(new_tokens') - 1
      /\ ~in_doubt => target_kv' = history \o Front(new_tokens')
      /\ draft_kv' \in Seq(Vocabulary)
      /\ mode = "model" => draft_kv' = history \o Front(new_tokens')
  <2>1. CASE a < Len(draft)
    <3>1. a \in 0..(Len(draft) - 1)
      BY <1>2, <2>1
    <3> DEFINE nt == Append(SubSeq(draft, 1, a), c)
    <3>2. /\ nt \in Seq(Vocabulary) /\ Len(nt) = a + 1
          /\ SubSeq(history \o Front(draft), 1, Len(history) + a) = history \o Front(nt)
      BY <1>2, <3>1, CutFacts
    <3>3. /\ new_tokens' = nt
          /\ target_kv' = SubSeq(Batched, 1, Len(history) + a)
          /\ draft_kv' = IF mode = "model" THEN SubSeq(draft_kv, 1, Len(history) + a) ELSE draft_kv
      BY <2>1 DEF verify_batch, kept
    <3> HIDE DEF nt
    <3>4. PICK n \in 0..Len(Batched) : n = Len(history) + a
      <4>1. Len(history) + a \in 0..Len(Batched)
        BY <1>2, <1>3, <3>1
      <4> QED
        BY <4>1
    <3>5. SubSeq(Batched, 1, n) \in Seq(Vocabulary) /\ Len(SubSeq(Batched, 1, n)) = n
      BY <1>3, SubSeqFacts
    <3>6. nt # <<>> /\ Front(nt) \in Seq(Vocabulary)
      <4>1. nt # <<>>
        BY <3>1, <3>2
      <4> QED
        BY <3>2, <4>1, FrontFacts
    <3>7. history \o Front(nt) \in Seq(Vocabulary)
      BY <1>2, <3>6, ConcatFacts
    <3>8. Len(target_kv') = Len(history) + Len(new_tokens') - 1
      <4>1. Len(target_kv') = Len(history) + a
        BY <3>3, <3>4, <3>5
      <4>2. Len(new_tokens') = a + 1
        BY <3>2, <3>3
      <4>3. a \in Nat
        BY <1>2
      <4> QED
        BY <1>2, <4>1, <4>2, <4>3
    <3> QED
      BY <1>2, <1>3, <1>4, <3>2, <3>3, <3>4, <3>5, <3>6, <3>7, <3>8
  <2>2. CASE a = Len(draft)
    <3>1. new_tokens' = draft /\ target_kv' = Batched /\ draft_kv' = draft_kv
      BY <1>2, <2>2 DEF verify_batch
    <3> QED
      BY <1>2, <1>3, <1>4, <3>1
  <2> QED
    BY <1>2, <2>1, <2>2
<1>7. SurvivorsEarned'
  <2> SUFFICES ASSUME ~in_doubt, ~Misread(a), NEW j \in 1..Len(new_tokens')
               PROVE  new_tokens'[j] \in Support(history \o SubSeq(new_tokens', 1, j - 1))
    BY <1>1 DEF SurvivorsEarned
  <2>1. \A i \in 1..a : draft[i] \in Support(history \o SubSeq(draft, 1, i - 1))
    <3>1. \A i \in 1..a : draft[i] \in Support(Judged(i))
      BY DEF verify_batch, Verdict, Misread
    <3>2. \A i \in 1..a : Judged(i) = history \o SubSeq(draft, 1, i - 1)
      BY <1>0, JudgedFacts
    <3> QED
      BY <3>1, <3>2
  <2>2. CASE a = Len(draft)
    <3>1. new_tokens' = draft
      BY <1>2, <2>2 DEF verify_batch
    <3> QED
      BY <2>1, <2>2, <3>1
  <2>3. CASE a < Len(draft)
    <3>1. a \in 0..(Len(draft) - 1) /\ a \in 0..Len(draft)
      BY <1>2, <2>3
    <3> DEFINE s == SubSeq(draft, 1, a)
    <3>2. s \in Seq(Vocabulary) /\ Len(s) = a /\ \A i \in 1..a : s[i] = draft[i]
      BY <1>2, <3>1, SubSeqFacts
    <3>3. new_tokens' = Append(s, c)
      BY <2>3 DEF verify_batch
    <3>4. c \in Support(Judged(a + 1))
      BY <2>3 DEF verify_batch, Verdict
    <3>5. Judged(a + 1) = history \o SubSeq(draft, 1, (a + 1) - 1)
      BY <1>0, JudgedFacts
    <3>6. (a + 1) - 1 = a
      BY <3>1
    <3>7. PICK k \in 0..a : k = j - 1
      <4>1. s \in Seq(Vocabulary)
        BY <3>2
      <4>2. Len(new_tokens') = a + 1
        BY <3>2, <3>3, <4>1, AppendFacts
      <4>3. j - 1 \in 0..a
        BY <3>1, <4>2
      <4> QED
        BY <4>3
    <3>8. SubSeq(new_tokens', 1, k) = SubSeq(draft, 1, k)
      <4>1. s \in Seq(Vocabulary) /\ k \in 0..Len(s)
        BY <3>2
      <4>2. SubSeq(Append(s, c), 1, k) = SubSeq(s, 1, k)
        BY <4>1, PrefixOfAppend
      <4>3. SubSeq(s, 1, k) = SubSeq(draft, 1, k)
        BY <1>2, <3>1, PrefixOfPrefix
      <4> QED
        BY <3>3, <4>2, <4>3
    <3> HIDE DEF s
    <3>9. CASE j <= a
      <4>1. j \in 1..a
        BY <3>1, <3>9
      <4>2. new_tokens'[j] = draft[j]
        <5>1. s \in Seq(Vocabulary) /\ j \in 1..Len(s)
          BY <3>2, <4>1
        <5>2. Append(s, c)[j] = s[j]
          BY <5>1, AppendFacts
        <5> QED
          BY <3>2, <3>3, <4>1, <5>2
      <4> QED
        BY <2>1, <3>7, <3>8, <4>1, <4>2
    <3>10. CASE j > a
      <4>1. j = a + 1
        BY <3>1, <3>7, <3>10
      <4>2. new_tokens'[j] = c
        <5>1. s \in Seq(Vocabulary) /\ j = Len(s) + 1
          BY <3>2, <4>1
        <5>2. Append(s, c)[Len(s) + 1] = c
          BY <5>1, AppendFacts
        <5> QED
          BY <3>3, <5>1, <5>2
      <4>3. k = a
        BY <3>1, <3>7, <4>1
      <4> QED
        BY <3>4, <3>5, <3>6, <3>7, <3>8, <4>2, <4>3
    <3> QED
      BY <3>1, <3>9, <3>10
  <2> QED
    BY <1>2, <2>2, <2>3
<1>8. TypeOK'
  <2>1. speculative_active' \in BOOLEAN /\ lookup_skip' \in BOOLEAN /\ in_doubt' \in BOOLEAN
    BY <1>0, <1>1, Zenon DEF TypeOK
  <2>2. total_draft' \in Nat /\ total_accepted' \in 0..total_draft' /\ accepted' \in Nat
    BY <1>0, <1>1, <1>2 DEF TypeOK
  <2> QED
    BY <1>0, <1>1, <1>6, <2>1, <2>2 DEF TypeOK, requestVars
<1>9. CallShape'
  BY <1>0, <1>1 DEF CallShape, requestVars
<1>10. RoundShape'
  BY <1>0, <1>1, <1>2, <1>6 DEF RoundShape, requestVars
<1>11. TargetLength' /\ TargetSync' /\ DraftSync' /\ GuardImpliesContext'
  BY <1>1, <1>6 DEF TargetLength, TargetSync, DraftSync, GuardImpliesContext, Running, requestVars
<1>12. Lossless'
  <2>1. ~in_doubt' => ~in_doubt
    BY <1>1, Zenon
  <2>2. history' = history /\ emitted' = emitted /\ ended' = ended
    BY <1>1
  <2> QED
    BY <1>0, <2>1, <2>2 DEF Lossless
<1> QED
  BY <1>7, <1>8, <1>9, <1>10, <1>11, <1>12 DEF Inv

-----------------------------------------------------------------------------
(* Delivery                                                                *)

\* Delivering the first survivor moves it from the right operand to the left.
LEMMA DeliverFirst ==
  ASSUME NEW h \in Seq(Vocabulary), NEW s \in Seq(Vocabulary), s # <<>>
  PROVE  /\ Head(s) \in Vocabulary /\ Append(h, Head(s)) \in Seq(Vocabulary)
         /\ Len(s) <= 1 => h \o Front(s) = h
         /\ Len(s) > 1 => h \o Front(s) = Append(h, Head(s)) \o Front(Tail(s))
         /\ Len(s) > 1 /\ Len(s) <= 2 => h \o Front(s) = Append(h, Head(s))
         /\ \A j \in 1..Len(s) :
              h \o SubSeq(s, 1, j) = Append(h, Head(s)) \o SubSeq(Tail(s), 1, j - 1)
<1>1. /\ Head(s) \in Vocabulary /\ Len(s) \in Nat /\ Len(s) >= 1
      /\ Tail(s) \in Seq(Vocabulary) /\ Len(Tail(s)) = Len(s) - 1
  BY TailFacts
<1>2. Append(h, Head(s)) \in Seq(Vocabulary)
  BY <1>1, AppendFacts
<1>3. Front(s) \in Seq(Vocabulary) /\ Len(Front(s)) = Len(s) - 1
  BY FrontFacts
<1>4. ASSUME NEW j \in 1..Len(s)
      PROVE  h \o SubSeq(s, 1, j) = Append(h, Head(s)) \o SubSeq(Tail(s), 1, j - 1)
  <2>1. /\ SubSeq(s, 1, j) # <<>> /\ Head(SubSeq(s, 1, j)) = Head(s)
        /\ Tail(SubSeq(s, 1, j)) = SubSeq(Tail(s), 1, j - 1)
    BY TailPrefix
  <2>2. SubSeq(s, 1, j) \in Seq(Vocabulary)
    <3>1. j \in 0..Len(s)
      BY <1>1
    <3> QED
      BY <3>1, SubSeqFacts
  <2> DEFINE u == SubSeq(s, 1, j)
  <2>3. u \in Seq(Vocabulary) /\ u # <<>>
    BY <2>1, <2>2
  <2> HIDE DEF u
  <2>4. h \o u = Append(h, Head(u)) \o Tail(u)
    BY <2>3, MoveHead
  <2> QED
    BY <2>1, <2>4 DEF u
<1>5. ASSUME Len(s) <= 1 PROVE h \o Front(s) = h
  <2>1. Front(s) = <<>>
    BY <1>3, <1>5
  <2> QED
    BY <2>1, ConcatEmptySeq
<1>6. ASSUME Len(s) > 1 PROVE h \o Front(s) = Append(h, Head(s)) \o Front(Tail(s))
  <2>1. Len(s) - 1 \in 1..Len(s)
    BY <1>1, <1>6
  <2>2. h \o SubSeq(s, 1, Len(s) - 1)
          = Append(h, Head(s)) \o SubSeq(Tail(s), 1, (Len(s) - 1) - 1)
    BY <1>4, <2>1
  <2> QED
    BY <1>1, <2>2 DEF Front
<1>7. ASSUME Len(s) > 1, Len(s) <= 2 PROVE h \o Front(s) = Append(h, Head(s))
  <2>1. h \o SubSeq(s, 1, 1) = Append(h, Head(s)) \o SubSeq(Tail(s), 1, 1 - 1)
    BY <1>4, <1>7
  <2>2. SubSeq(Tail(s), 1, 1 - 1) = <<>>
    BY SubSeqEmpty
  <2>3. Append(h, Head(s)) \o <<>> = Append(h, Head(s))
    BY <1>2, ConcatEmptySeq
  <2>4. Front(s) = SubSeq(s, 1, 1)
    BY <1>7 DEF Front
  <2> QED
    BY <2>1, <2>2, <2>3, <2>4
<1> QED
  BY <1>1, <1>2, <1>4, <1>5, <1>6, <1>7

\* The tokens delivered so far could have been sampled one by one.
Earned == \A i \in (Len(history) - emitted + 1)..Len(history) :
             history[i] \in Support(SubSeq(history, 1, i - 1)) \ Eog

\* One more token that the target could have sampled.
LEMMA EarnedGrows ==
  ASSUME history \in Seq(Vocabulary), emitted \in Nat, emitted <= Len(history), Earned,
         NEW t \in Vocabulary, t \in Support(history), t \notin Eog,
         history' = Append(history, t), emitted' = emitted + 1
  PROVE  Earned'
<1>1. /\ Len(history) \in Nat /\ Len(history') = Len(history) + 1
      /\ \A i \in 1..Len(history) : history'[i] = history[i]
      /\ history'[Len(history) + 1] = t
  BY AppendFacts
<1> SUFFICES ASSUME NEW i \in (Len(history') - emitted' + 1)..Len(history')
             PROVE  history'[i] \in Support(SubSeq(history', 1, i - 1)) \ Eog
  BY DEF Earned
<1>2. /\ i \in 1..(Len(history) + 1) /\ i - 1 \in 0..Len(history)
      /\ i <= Len(history) => i \in (Len(history) - emitted + 1)..Len(history)
  <2>1. Len(history') - emitted' + 1 = Len(history) - emitted + 1
    BY <1>1
  <2>2. i \in (Len(history) - emitted + 1)..(Len(history) + 1)
    BY <1>1, <2>1
  <2> QED
    BY <1>1, <2>2
<1>3. SubSeq(history', 1, i - 1) = SubSeq(history, 1, i - 1)
  <2> DEFINE n == i - 1
  <2>1. n \in 0..Len(history)
    BY <1>2
  <2> HIDE DEF n
  <2>2. SubSeq(Append(history, t), 1, n) = SubSeq(history, 1, n)
    BY <2>1, PrefixOfAppend
  <2> QED
    BY <2>2 DEF n
<1>4. CASE i <= Len(history)
  <2>1. history[i] \in Support(SubSeq(history, 1, i - 1)) \ Eog
    BY <1>2, <1>4 DEF Earned
  <2>2. history'[i] = history[i]
    BY <1>1, <1>2, <1>4
  <2> QED
    BY <1>3, <2>1, <2>2
<1>5. CASE i > Len(history)
  <2>1. i = Len(history) + 1 /\ i - 1 = Len(history)
    BY <1>1, <1>2, <1>5
  <2>2. SubSeq(history, 1, Len(history)) = history
    BY WholePrefix
  <2> QED
    BY <1>1, <1>3, <2>1, <2>2
<1> QED
  BY <1>1, <1>2, <1>4, <1>5

\* The first survivor is one the target could have sampled now.
LEMMA FirstSurvivor ==
  ASSUME Inv, pc = "emit", ~in_doubt
  PROVE  Head(new_tokens) \in Support(history)
<1>1. /\ history \in Seq(Vocabulary) /\ new_tokens \in Seq(Vocabulary) /\ new_tokens # <<>>
  BY DEF Inv, TypeOK, RoundShape
<1>2. Len(new_tokens) >= 1 /\ Len(new_tokens) \in Nat /\ Head(new_tokens) = new_tokens[1]
  BY <1>1, TailFacts
<1>3. \A j \in 1..Len(new_tokens) :
         new_tokens[j] \in Support(history \o SubSeq(new_tokens, 1, j - 1))
  BY DEF Inv, SurvivorsEarned
<1>4. new_tokens[1] \in Support(history \o SubSeq(new_tokens, 1, 1 - 1))
  BY <1>2, <1>3
<1>5. SubSeq(new_tokens, 1, 1 - 1) = <<>>
  BY SubSeqEmpty
<1>6. history \o <<>> = history
  BY <1>1, ConcatEmptySeq
<1> QED
  BY <1>2, <1>4, <1>5, <1>6

\* What both emission steps start from.
LEMMA EmitFacts ==
  ASSUME Inv, pc = "emit"
  PROVE  /\ history \in Seq(Vocabulary) /\ history # <<>> /\ new_tokens \in Seq(Vocabulary)
         /\ new_tokens # <<>> /\ Len(history) \in Nat /\ Len(new_tokens) \in Nat
         /\ Len(new_tokens) >= 1 /\ tokens = history /\ ended = "none"
         /\ Len(target_kv) = Len(history) + Len(new_tokens) - 1
         /\ ~in_doubt => target_kv = history \o Front(new_tokens)
         /\ mode = "model" => draft_kv = history \o Front(new_tokens)
         /\ emitted \in Nat /\ emitted < max_tokens /\ max_tokens \in Nat
         /\ Len(history) < n_ctx /\ speculative_active /\ emitted <= Len(history)
<1>1. /\ history \in Seq(Vocabulary) /\ new_tokens \in Seq(Vocabulary) /\ max_tokens \in Nat
      /\ emitted \in Nat
  BY DEF Inv, TypeOK
<1>2. /\ history # <<>> /\ new_tokens # <<>> /\ tokens = history /\ ended = "none"
      /\ emitted < max_tokens /\ Len(history) < n_ctx /\ speculative_active
      /\ emitted <= Len(history)
  BY DEF Inv, CallShape, RoundShape
<1>3. /\ Len(target_kv) = Len(history) + Len(new_tokens) - 1
      /\ ~in_doubt => target_kv = history \o Front(new_tokens)
      /\ mode = "model" => draft_kv = history \o Front(new_tokens)
  BY DEF Inv, TargetLength, TargetSync, DraftSync
<1> QED
  BY <1>1, <1>2, <1>3

\* A call that has returned owes only what outlives it.
LEMMA IdleInv ==
  ASSUME TypeOK', pc' = "idle", emitted' <= Len(history'), lookup_skip' => mode' = "lookup",
         Lossless', GuardImpliesContext'
  PROVE  Inv'
<1>1. ~Running'
  BY DEF Running
<1> QED
  BY <1>1 DEF Inv, CallShape, RoundShape, TargetLength, TargetSync, DraftSync, SurvivorsEarned

LEMMA EmitLastStep ==
  ASSUME Inv, EmitLast
  PROVE  Inv'
<1>0. TypeOK /\ CallShape /\ Lossless /\ pc = "emit"
  BY DEF Inv, EmitLast
<1> DEFINE t == Head(new_tokens)
<1>1. /\ pc' = "idle" /\ draft' = <<>> /\ accepted' = 0 /\ new_tokens' = <<>>
      /\ UNCHANGED <<requestVars, target_kv, draft_kv, adaptiveVars, lookup_skip, in_doubt,
                     history, emitted>>
      /\ \/ t \in Eog /\ tokens' = tokens /\ ended' = "eog" /\ context_tokens' = tokens
         \/ /\ t \notin Eog /\ tokens' = Append(tokens, t) /\ ended' = "stopped"
            /\ context_tokens' = Append(tokens, t)
  BY DEF EmitLast, Stops, Return, RoundOver
<1>2. /\ history \in Seq(Vocabulary) /\ new_tokens \in Seq(Vocabulary)
      /\ new_tokens # <<>> /\ Len(history) \in Nat /\ Len(new_tokens) \in Nat
      /\ Len(new_tokens) >= 1 /\ tokens = history
      /\ Len(target_kv) = Len(history) + Len(new_tokens) - 1
      /\ ~in_doubt => target_kv = history \o Front(new_tokens)
  BY <1>0, EmitFacts
<1>3. /\ t \in Vocabulary /\ Append(history, t) \in Seq(Vocabulary)
      /\ Len(new_tokens) <= 1 => history \o Front(new_tokens) = history
      /\ Len(new_tokens) > 1 /\ Len(new_tokens) <= 2 => history \o Front(new_tokens) = Append(history, t)
  BY <1>2, DeliverFirst
<1>4. ~in_doubt => t \in Support(history)
  BY <1>0, FirstSurvivor
<1>5. Len(Append(history, t)) = Len(history) + 1
  BY <1>2, <1>3, AppendFacts
<1> HIDE DEF t
<1>6. TypeOK'
  <2>1. speculative_active' \in BOOLEAN /\ lookup_skip' \in BOOLEAN /\ in_doubt' \in BOOLEAN
    BY <1>0, <1>1, Zenon DEF TypeOK, adaptiveVars
  <2>2. context_tokens' \in Seq(Vocabulary) /\ tokens' \in Seq(Vocabulary)
    BY <1>1, <1>2, <1>3
  <2>3. draft' \in Seq(Vocabulary) /\ new_tokens' \in Seq(Vocabulary)
    BY <1>1
  <2> QED
    BY <1>0, <1>1, <2>1, <2>2, <2>3 DEF TypeOK, requestVars, adaptiveVars
<1>7. GuardImpliesContext'
  <2> SUFFICES ASSUME ~in_doubt, Len(target_kv) = Len(context_tokens')
               PROVE  target_kv = context_tokens'
    BY <1>1 DEF GuardImpliesContext
  <2>0. /\ Len(history) \in Nat /\ Len(new_tokens) \in Nat
        /\ Len(context_tokens') = Len(history) + Len(new_tokens) - 1
    BY <1>2
  <2>1. CASE context_tokens' = history
    <3>0. Len(context_tokens') = Len(history)
      BY <2>1
    <3>1. Len(new_tokens) <= 1
      BY <2>0, <3>0
    <3> QED
      BY <1>2, <1>3, <2>1, <3>1
  <2>2. CASE context_tokens' = Append(history, t)
    <3>0. Len(context_tokens') = Len(history) + 1
      BY <1>5, <2>2
    <3>1. Len(new_tokens) > 1 /\ Len(new_tokens) <= 2
      BY <2>0, <3>0
    <3> QED
      BY <1>2, <1>3, <2>2, <3>1
  <2> QED
    BY <1>1, <1>2, <2>1, <2>2
<1>8. Lossless'
  BY <1>0, <1>1, <1>4 DEF Lossless
<1> QED
  BY <1>0, <1>1, <1>6, <1>7, <1>8, IdleInv DEF CallShape, requestVars

\* adapt_draft_length() stays between the limits.
LEMMA AdaptBounds ==
  ASSUME TypeOK, adapt_draft_length
  PROVE  current_draft_tokens' \in min_draft_tokens..max_draft_tokens
<1>1. /\ current_draft_tokens \in min_draft_tokens..max_draft_tokens
      /\ min_draft_tokens \in Nat /\ max_draft_tokens \in Nat
      /\ min_draft_tokens <= max_draft_tokens
  BY DecoderAssumption DEF TypeOK
<1> DEFINE up == 10 * accepted >= 9 * Len(draft)
           down == 10 * accepted <= 4 * Len(draft)
<1>2. current_draft_tokens' =
        CASE up -> IF current_draft_tokens + 2 < max_draft_tokens
                   THEN current_draft_tokens + 2 ELSE max_draft_tokens
          [] down -> IF current_draft_tokens > min_draft_tokens + 2
                     THEN current_draft_tokens - 2 ELSE min_draft_tokens
          [] OTHER -> current_draft_tokens
  BY DEF adapt_draft_length
<1> HIDE DEF up, down
<1> QED
  BY <1>1, <1>2

LEMMA EmitStep ==
  ASSUME Inv, Emit
  PROVE  Inv'
<1>0. TypeOK /\ CallShape /\ RoundShape /\ Lossless /\ SurvivorsEarned /\ pc = "emit"
  BY DEF Inv, Emit
<1> DEFINE t == Head(new_tokens)
           n == Len(new_tokens)
           over == emitted' >= max_tokens \/ Len(history') >= n_ctx \/ n = 1
<1>1. /\ t \notin Eog /\ tokens' = Append(tokens, t) /\ history' = Append(history, t)
      /\ emitted' = emitted + 1
      /\ UNCHANGED <<context_tokens, ended, requestVars, target_kv, draft_kv, total_draft,
                     total_accepted, lookup_skip, in_doubt>>
  BY DEF Emit, Delivered
<1>2. /\ history \in Seq(Vocabulary) /\ new_tokens \in Seq(Vocabulary)
      /\ new_tokens # <<>> /\ Len(history) \in Nat /\ Len(new_tokens) \in Nat
      /\ Len(new_tokens) >= 1 /\ tokens = history /\ ended = "none"
      /\ Len(target_kv) = Len(history) + Len(new_tokens) - 1
      /\ ~in_doubt => target_kv = history \o Front(new_tokens)
      /\ mode = "model" => draft_kv = history \o Front(new_tokens)
      /\ emitted \in Nat /\ emitted < max_tokens /\ max_tokens \in Nat
      /\ Len(history) < n_ctx /\ speculative_active /\ emitted <= Len(history)
  BY <1>0, EmitFacts
<1>3. /\ t \in Vocabulary /\ Append(history, t) \in Seq(Vocabulary)
      /\ Len(new_tokens) <= 1 => history \o Front(new_tokens) = history
      /\ Len(new_tokens) > 1 =>
           history \o Front(new_tokens) = Append(history, t) \o Front(Tail(new_tokens))
      /\ Len(new_tokens) > 1 /\ Len(new_tokens) <= 2 => history \o Front(new_tokens) = Append(history, t)
      /\ \A j \in 1..Len(new_tokens) :
           history \o SubSeq(new_tokens, 1, j) = Append(history, t) \o SubSeq(Tail(new_tokens), 1, j - 1)
  BY <1>2, DeliverFirst
<1>4. ~in_doubt => t \in Support(history)
  BY <1>0, FirstSurvivor
<1>5. /\ Len(history') = Len(history) + 1 /\ history' \in Seq(Vocabulary) /\ history' # <<>>
      /\ Front(history') = history
  <2>1. Len(Append(history, t)) = Len(history) + 1 /\ Append(history, t) # <<>>
    BY <1>2, <1>3, AppendFacts
  <2>2. Front(Append(history, t)) = history
    BY <1>2, <1>3, FrontAppend
  <2> QED
    BY <1>1, <1>3, <2>1, <2>2
<1>6. /\ Tail(new_tokens) \in Seq(Vocabulary) /\ Len(Tail(new_tokens)) = Len(new_tokens) - 1
      /\ \A j \in 1..Len(Tail(new_tokens)) : Tail(new_tokens)[j] = new_tokens[j + 1]
  BY <1>2, TailFacts
<1>7. /\ over => adapt_draft_length /\ maybe_auto_disable /\ RoundOver /\ pc' = "loop"
      /\ ~over => /\ new_tokens' = Tail(new_tokens)
                  /\ UNCHANGED <<pc, speculative_active, current_draft_tokens, draft, accepted>>
  BY DEF Emit
<1>8. /\ ~over => Len(new_tokens) > 1 /\ emitted' < max_tokens /\ Len(history') < n_ctx
      /\ over /\ emitted' < max_tokens /\ Len(history') < n_ctx => Len(new_tokens) <= 1
  <2>1. n \in Nat /\ n >= 1 /\ n = Len(new_tokens) /\ n_ctx \in Nat /\ emitted' \in Nat
        /\ Len(history') \in Nat /\ max_tokens \in Nat
    BY <1>1, <1>2, <1>5, DecoderAssumption
  <2> HIDE DEF n
  <2> QED
    BY <2>1
<1>9. pc' = IF over THEN "loop" ELSE "emit"
  BY <1>0, <1>7
<1> HIDE DEF t, n, over
<1>10. TypeOK'
  <2>1. lookup_skip' \in BOOLEAN /\ in_doubt' \in BOOLEAN
    BY <1>0, <1>1, Zenon DEF TypeOK
  <2>2. speculative_active' \in BOOLEAN
    BY <1>0, <1>7, Zenon DEF TypeOK, maybe_auto_disable
  <2>3. current_draft_tokens' \in min_draft_tokens..max_draft_tokens
    BY <1>0, <1>7, AdaptBounds DEF TypeOK
  <2>4. draft' \in Seq(Vocabulary) /\ accepted' \in Nat /\ new_tokens' \in Seq(Vocabulary)
    <3>1. <<>> \in Seq(Vocabulary) /\ 0 \in Nat
      OBVIOUS
    <3> QED
      BY <1>0, <1>6, <1>7, <3>1 DEF TypeOK, RoundOver
  <2>5. emitted' \in 0..max_tokens'
    BY <1>1, <1>2 DEF requestVars
  <2>6. tokens' \in Seq(Vocabulary) /\ history' \in Seq(Vocabulary)
    BY <1>1, <1>2, <1>3
  <2> QED
    BY <1>0, <1>1, <1>9, <2>1, <2>2, <2>3, <2>4, <2>5, <2>6 DEF TypeOK, requestVars
<1>11. CallShape'
  <2>1. emitted' <= Len(history')
    BY <1>1, <1>2, <1>5
  <2> QED
    BY <1>0, <1>1, <1>2, <1>5, <1>9, <2>1 DEF CallShape, requestVars
<1>12. RoundShape'
  <2>1. CASE over
    BY <1>9, <2>1 DEF RoundShape
  <2>2. CASE ~over
    <3>1. Tail(new_tokens) # <<>>
      <4> DEFINE u == Tail(new_tokens)
      <4>1. u \in Seq(Vocabulary) /\ Len(u) >= 1
        BY <1>2, <1>6, <1>8, <2>2
      <4> HIDE DEF u
      <4>2. u # <<>>
        BY <4>1
      <4> QED
        BY <4>2 DEF u
    <3> QED
      BY <1>0, <1>1, <1>2, <1>7, <1>8, <1>9, <2>2, <3>1 DEF RoundShape, requestVars
  <2> QED
    BY <2>1, <2>2
<1>13. Running' => over /\ Len(new_tokens) <= 1 /\ Len(target_kv') = Len(history') - 1
  <2>1. Running' => over /\ Len(new_tokens) <= 1
    BY <1>1, <1>8, <1>9 DEF Running, requestVars
  <2>2. Len(target_kv') = Len(history) + Len(new_tokens) - 1
    BY <1>1, <1>2
  <2> QED
    BY <1>2, <1>5, <2>1, <2>2
<1>14. TargetLength'
  <2>1. Len(target_kv') = Len(history) + Len(new_tokens) - 1
    BY <1>1, <1>2
  <2>2. pc' = "emit" => Len(target_kv') = Len(history') + Len(new_tokens') - 1
    <3>1. pc' = "emit" => Len(new_tokens') = Len(new_tokens) - 1
      BY <1>6, <1>7, <1>9
    <3> QED
      BY <1>2, <1>5, <2>1, <3>1
  <2> QED
    BY <1>9, <1>13, <2>2 DEF TargetLength
<1>15. TargetSync'
  <2> SUFFICES ASSUME ~in_doubt
               PROVE  /\ Running' => target_kv = Front(history')
                      /\ ~over => target_kv = history' \o Front(new_tokens')
                      /\ over /\ Len(target_kv) = Len(history') => target_kv = history'
    BY <1>1, <1>9 DEF TargetSync
  <2>1. target_kv = history \o Front(new_tokens)
    BY <1>2
  <2>2. Running' => target_kv = Front(history')
    BY <1>3, <1>5, <1>13, <2>1
  <2>3. ~over => target_kv = history' \o Front(new_tokens')
    BY <1>1, <1>3, <1>7, <1>8, <2>1
  <2>4. ASSUME Len(target_kv) = Len(history') PROVE target_kv = history'
    <3>1. Len(history') = Len(history) + Len(new_tokens) - 1
      BY <1>2, <2>4
    <3>2. Len(new_tokens) > 1 /\ Len(new_tokens) <= 2
      BY <1>2, <1>5, <3>1
    <3> QED
      BY <1>1, <1>3, <2>1, <3>2
  <2> QED
    BY <2>2, <2>3, <2>4
<1>16. DraftSync'
  <2> SUFFICES ASSUME mode = "model"
               PROVE  /\ Running' => draft_kv = Front(history')
                      /\ ~over => draft_kv = history' \o Front(new_tokens')
    BY <1>1, <1>9 DEF DraftSync, requestVars
  <2>1. draft_kv = history \o Front(new_tokens)
    BY <1>2
  <2>2. Running' => draft_kv = Front(history')
    BY <1>3, <1>5, <1>13, <2>1
  <2>3. ~over => draft_kv = history' \o Front(new_tokens')
    BY <1>1, <1>3, <1>7, <1>8, <2>1
  <2> QED
    BY <2>2, <2>3
<1>17. SurvivorsEarned'
  <2> SUFFICES ASSUME ~in_doubt, ~over, NEW j \in 1..Len(Tail(new_tokens))
               PROVE  Tail(new_tokens)[j] \in Support(history' \o SubSeq(Tail(new_tokens), 1, j - 1))
    BY <1>1, <1>7, <1>9 DEF SurvivorsEarned
  <2>1. j \in Nat /\ j \in 1..Len(new_tokens) /\ j + 1 \in 1..Len(new_tokens) /\ (j + 1) - 1 = j
    BY <1>2, <1>6
  <2>2. \A k \in 1..Len(new_tokens) :
          new_tokens[k] \in Support(history \o SubSeq(new_tokens, 1, k - 1))
    BY <1>0 DEF SurvivorsEarned
  <2>3. new_tokens[j + 1] \in Support(history \o SubSeq(new_tokens, 1, (j + 1) - 1))
    BY <2>1, <2>2
  <2>4. history \o SubSeq(new_tokens, 1, j) = history' \o SubSeq(Tail(new_tokens), 1, j - 1)
    BY <1>1, <1>3, <2>1
  <2>5. Tail(new_tokens)[j] = new_tokens[j + 1]
    BY <1>6
  <2> QED
    BY <2>1, <2>3, <2>4, <2>5
<1>18. Lossless'
  <2> SUFFICES ASSUME ~in_doubt PROVE Earned'
    BY <1>1, <1>2 DEF Lossless, Earned
  <2>1. Earned
    BY <1>0 DEF Lossless, Earned
  <2> QED
    BY <1>1, <1>2, <1>3, <1>4, <2>1, EarnedGrows
<1>19. GuardImpliesContext'
  BY <1>9 DEF GuardImpliesContext
<1> QED
  BY <1>10, <1>11, <1>12, <1>14, <1>15, <1>16, <1>17, <1>18, <1>19 DEF Inv

\* Feeding `cur` brings the target level with the history.
LEMMA FeedFacts ==
  ASSUME Inv, Running
  PROVE  /\ history \in Seq(Vocabulary) /\ history # <<>> /\ Len(history) \in Nat /\ Len(history) >= 1
         /\ tokens = history /\ ended = "none" /\ cur \in Vocabulary
         /\ Append(target_kv, cur) \in Seq(Vocabulary)
         /\ Len(Append(target_kv, cur)) = Len(history)
         /\ ~in_doubt => Append(target_kv, cur) = history
<1>1. /\ history \in Seq(Vocabulary) /\ target_kv \in Seq(Vocabulary)
  BY DEF Inv, TypeOK
<1>2. history # <<>> /\ tokens = history /\ ended = "none"
  BY DEF Inv, CallShape, Running
<1>3. Len(history) \in Nat /\ Len(history) >= 1
  BY <1>1, <1>2
<1>4. cur \in Vocabulary
  BY <1>1, <1>2, <1>3 DEF cur, Last
<1>5. Append(target_kv, cur) \in Seq(Vocabulary) /\ Len(Append(target_kv, cur)) = Len(target_kv) + 1
  BY <1>1, <1>4, AppendFacts
<1>6. Len(target_kv) = Len(history) - 1
  BY DEF Inv, TargetLength
<1>7. ~in_doubt => target_kv = Front(history)
  BY DEF Inv, TargetSync
<1>8. Append(Front(history), Last(history)) = history
  BY <1>1, <1>2, FrontLast
<1>9. Len(Append(target_kv, cur)) = Len(history)
  BY <1>3, <1>5, <1>6
<1> QED
  BY <1>1, <1>2, <1>3, <1>4, <1>5, <1>7, <1>8, <1>9 DEF cur

LEMMA PlainStep ==
  ASSUME Inv, NEW t \in Vocabulary, Plain(t)
  PROVE  Inv'
<1>0. TypeOK /\ CallShape /\ Lossless /\ Running
  BY DEF Inv, Plain
<1>1. /\ target_kv' = Append(target_kv, cur) /\ t \in Support(target_kv')
      /\ UNCHANGED <<requestVars, draft_kv, adaptiveVars, roundVars, in_doubt>>
      /\ lookup_skip' = FALSE
      /\ Stops(t) \/ (Delivered(t) /\ pc' = pc)
  BY DEF Plain
<1>2. /\ history \in Seq(Vocabulary) /\ Len(history) \in Nat /\ Len(history) >= 1
      /\ tokens = history /\ ended = "none"
      /\ target_kv' \in Seq(Vocabulary) /\ Len(target_kv') = Len(history)
      /\ ~in_doubt => target_kv' = history
  BY <1>0, <1>1, FeedFacts
<1>3. ~in_doubt => t \in Support(history)
  BY <1>1, <1>2
<1>4. /\ Append(history, t) \in Seq(Vocabulary) /\ Len(Append(history, t)) = Len(history) + 1
      /\ Append(history, t) # <<>> /\ Front(Append(history, t)) = history
  BY <1>2, AppendFacts, FrontAppend
<1>5. lookup_skip' \in BOOLEAN /\ speculative_active' \in BOOLEAN /\ in_doubt' \in BOOLEAN
  BY <1>0, <1>1, Zenon DEF TypeOK, adaptiveVars
<1>6. /\ pc = "loop" /\ emitted < max_tokens /\ Len(history) < n_ctx /\ emitted <= Len(history)
      /\ emitted \in Nat /\ max_tokens \in Nat
  BY <1>0 DEF Running, CallShape, TypeOK
<1>7. CASE Stops(t)
  <2>1. /\ pc' = "idle" /\ UNCHANGED <<history, emitted>>
        /\ \/ t \in Eog /\ tokens' = tokens /\ ended' = "eog" /\ context_tokens' = tokens
           \/ /\ t \notin Eog /\ tokens' = Append(tokens, t) /\ ended' = "stopped"
              /\ context_tokens' = Append(tokens, t)
    BY <1>7 DEF Stops, Return
  <2>2. TypeOK'
    <3>1. context_tokens' \in Seq(Vocabulary) /\ tokens' \in Seq(Vocabulary)
      BY <1>2, <1>4, <2>1
    <3> QED
      BY <1>0, <1>1, <1>2, <1>5, <2>1, <3>1 DEF TypeOK, requestVars, adaptiveVars, roundVars
  <2>3. GuardImpliesContext'
    <3> SUFFICES ASSUME ~in_doubt, Len(target_kv') = Len(context_tokens')
                 PROVE  target_kv' = context_tokens'
      BY <1>1 DEF GuardImpliesContext
    <3>1. ASSUME context_tokens' = Append(history, t) PROVE FALSE
      <4>1. Len(context_tokens') = Len(history) + 1
        BY <1>4, <3>1
      <4>2. Len(context_tokens') = Len(history)
        BY <1>2
      <4> QED
        BY ONLY <1>2, <4>1, <4>2
    <3> QED
      BY <1>2, <2>1, <3>1
  <2>4. Lossless'
    BY <1>0, <1>1, <1>3, <2>1 DEF Lossless
  <2> QED
    BY <1>1, <1>6, <2>1, <2>2, <2>3, <2>4, IdleInv
<1>8. CASE Delivered(t) /\ pc' = pc
  <2>1. /\ pc' = "loop" /\ t \notin Eog /\ tokens' = Append(history, t)
        /\ history' = Append(history, t) /\ emitted' = emitted + 1
        /\ UNCHANGED <<context_tokens, ended>>
    BY <1>2, <1>6, <1>8 DEF Delivered
  <2>2. /\ history' \in Seq(Vocabulary) /\ Len(history') = Len(history) + 1 /\ history' # <<>>
        /\ Front(history') = history
    BY <1>4, <2>1
  <2>3. TypeOK'
    <3>1. emitted' \in 0..max_tokens'
      BY <1>1, <1>6, <2>1 DEF requestVars
    <3>2. tokens' \in Seq(Vocabulary)
      BY <1>4, <2>1
    <3> QED
      BY <1>0, <1>1, <1>2, <1>5, <2>1, <2>2, <3>1, <3>2 DEF TypeOK, requestVars, adaptiveVars, roundVars
  <2>4. CallShape' /\ RoundShape'
    <3>1. emitted' <= Len(history')
      BY <1>2, <1>6, <2>1, <2>2
    <3> QED
      BY <1>1, <1>2, <2>1, <2>2, <3>1 DEF CallShape, RoundShape
  <2>5. TargetLength' /\ TargetSync'
    <3>1. Len(target_kv') = Len(history') - 1 /\ Len(target_kv') # Len(history')
      BY <1>2, <2>2
    <3>2. ~in_doubt' => target_kv' = Front(history')
      BY <1>1, <1>2, <2>2
    <3> QED
      BY <2>1, <3>1, <3>2 DEF TargetLength, TargetSync
  <2>6. DraftSync'
    <3>1. ~(speculative_active' /\ mode' = "model")
      BY <1>0, <1>1 DEF Plain, CallShape, adaptiveVars, requestVars
    <3> QED
      BY <2>1, <3>1 DEF DraftSync
  <2>7. SurvivorsEarned' /\ GuardImpliesContext'
    BY <2>1 DEF SurvivorsEarned, GuardImpliesContext
  <2>8. Lossless'
    <3> SUFFICES ASSUME ~in_doubt PROVE Earned'
      BY <1>1, <1>2, <2>1 DEF Lossless, Earned
    <3>1. Earned
      BY <1>0 DEF Lossless, Earned
    <3> QED
      BY <1>2, <1>3, <1>6, <2>1, <3>1, EarnedGrows
  <2> QED
    BY <2>3, <2>4, <2>5, <2>6, <2>7, <2>8 DEF Inv
<1> QED
  BY <1>1, <1>7, <1>8

LEMMA LoopEndStep ==
  ASSUME Inv, LoopEnd
  PROVE  Inv'
<1>0. TypeOK /\ CallShape /\ TargetSync /\ Lossless
  BY DEF Inv
<1>1. /\ pc = "loop" /\ pc' = "idle" /\ ended' = "limit" /\ context_tokens' = tokens
      /\ UNCHANGED <<requestVars, target_kv, draft_kv, tokens, history, emitted, adaptiveVars,
                     lookup_skip, roundVars, in_doubt>>
  BY DEF LoopEnd, Return
<1>2. TypeOK'
  <2>1. speculative_active' \in BOOLEAN /\ lookup_skip' \in BOOLEAN /\ in_doubt' \in BOOLEAN
    BY <1>0, <1>1, Zenon DEF TypeOK, adaptiveVars
  <2> QED
    BY <1>0, <1>1, <2>1 DEF TypeOK, requestVars, adaptiveVars, roundVars
<1>3. tokens = history /\ emitted <= Len(history) /\ (lookup_skip => mode = "lookup")
  BY <1>0, <1>1 DEF CallShape
<1>4. GuardImpliesContext'
  BY <1>0, <1>1, <1>3 DEF GuardImpliesContext, TargetSync
<1>5. Lossless'
  BY <1>0, <1>1 DEF Lossless
<1> QED
  BY <1>1, <1>2, <1>3, <1>4, <1>5, IdleInv DEF requestVars

LEMMA AbandonStep ==
  ASSUME Inv, Abandon
  PROVE  Inv'
<1>0. TypeOK /\ CallShape
  BY DEF Inv
<1>1. /\ pc' = "idle" /\ ended' = "error"
      /\ draft' = <<>> /\ accepted' = 0 /\ new_tokens' = <<>>
      /\ UNCHANGED <<requestVars, draft_kv, context_tokens, tokens, history, emitted,
                     adaptiveVars, lookup_skip>>
  BY DEF Abandon, RoundOver
<1>2. in_doubt' = TRUE
  BY DEF Abandon
<1>3. target_kv' \in Seq(Vocabulary)
  <2>1. target_kv' = target_kv \/ (Running /\ target_kv' = Append(target_kv, cur))
    BY DEF Abandon
  <2>2. Running => Append(target_kv, cur) \in Seq(Vocabulary)
    BY FeedFacts
  <2> QED
    BY <1>0, <2>1, <2>2 DEF TypeOK
<1>4. TypeOK'
  <2>1. speculative_active' \in BOOLEAN /\ lookup_skip' \in BOOLEAN /\ in_doubt' \in BOOLEAN
    BY <1>0, <1>1, <1>2, Zenon DEF TypeOK, adaptiveVars
  <2>2. draft' \in Seq(Vocabulary) /\ new_tokens' \in Seq(Vocabulary)
    BY <1>1
  <2> QED
    BY <1>0, <1>1, <1>3, <2>1, <2>2 DEF TypeOK, requestVars, adaptiveVars
<1>5. Lossless' /\ GuardImpliesContext'
  BY <1>2 DEF Lossless, GuardImpliesContext
<1> QED
  BY <1>0, <1>1, <1>4, <1>5, IdleInv DEF CallShape, requestVars

\* A rollback that throws leaves the target with the whole batch or the part
\* to keep: tokens of the two vocabularies, and a context in doubt.
LEMMA RollbackThrowsStep ==
  ASSUME Inv, NEW a \in 0..Len(draft), RollbackThrows(a)
  PROVE  Inv'
<1>0. TypeOK /\ CallShape /\ pc = "verify"
  BY DEF Inv, RollbackThrows
<1>1. /\ pc' = "idle" /\ ended' = "error"
      /\ draft' = <<>> /\ accepted' = 0 /\ new_tokens' = <<>>
      /\ total_draft' = total_draft + Len(draft) /\ total_accepted' = total_accepted + a
      /\ UNCHANGED <<requestVars, draft_kv, context_tokens, tokens, history, emitted,
                     speculative_active, current_draft_tokens, lookup_skip>>
  BY DEF RollbackThrows, RoundOver
<1>2. in_doubt' = TRUE
  BY DEF RollbackThrows
<1>3. target_kv' \in Seq(Vocabulary)
  <2>1. /\ Batched \in Seq(Vocabulary) /\ Len(Batched) \in Nat
        /\ history \in Seq(Vocabulary) /\ draft \in Seq(Vocabulary)
    BY <1>0, BatchedFacts DEF TypeOK
  <2>2. kept(a) \in 0..Len(Batched)
    <3>1. kept(a) < Len(Batched) /\ a \in Nat /\ Len(history) \in Nat
      BY <2>1 DEF RollbackThrows
    <3> QED
      BY <2>1, <3>1 DEF kept
  <2>3. SubSeq(Batched, 1, kept(a)) \in Seq(Vocabulary)
    BY <2>1, <2>2, SubSeqFacts
  <2> QED
    BY <2>1, <2>3 DEF RollbackThrows
<1>4. TypeOK'
  <2>1. speculative_active' \in BOOLEAN /\ lookup_skip' \in BOOLEAN /\ in_doubt' \in BOOLEAN
    BY <1>0, <1>1, <1>2, Zenon DEF TypeOK
  <2>2. draft' \in Seq(Vocabulary) /\ new_tokens' \in Seq(Vocabulary) /\ accepted' \in Nat
    BY <1>1
  <2>3. total_draft' \in Nat /\ total_accepted' \in 0..total_draft'
    BY <1>0, <1>1 DEF TypeOK
  <2> QED
    BY <1>0, <1>1, <1>3, <2>1, <2>2, <2>3 DEF TypeOK, requestVars
<1>5. Lossless' /\ GuardImpliesContext'
  BY <1>2 DEF Lossless, GuardImpliesContext
<1> QED
  BY <1>0, <1>1, <1>4, <1>5, IdleInv DEF CallShape, requestVars

LEMMA StutterStep ==
  ASSUME Inv, UNCHANGED vars
  PROVE  Inv'
<1> USE DEF Inv, vars
<1>1. TypeOK'
  BY DEF TypeOK
<1>2. CallShape' /\ RoundShape' /\ TargetLength'
  BY DEF CallShape, RoundShape, TargetLength, Running
<1>3. TargetSync' /\ DraftSync'
  BY DEF TargetSync, DraftSync, Running
<1>4. SurvivorsEarned' /\ Lossless'
  BY DEF SurvivorsEarned, Lossless
<1>5. GuardImpliesContext'
  BY DEF GuardImpliesContext
<1> QED
  BY <1>1, <1>2, <1>3, <1>4, <1>5

LEMMA NextInv == Inv /\ [Next]_vars => Inv'
<1> SUFFICES ASSUME Inv, [Next]_vars PROVE Inv'
  OBVIOUS
<1>1. ASSUME NEW p \in Prompts, NEW m \in Budgets, Begin(p, m) PROVE Inv'
  BY <1>1, BeginStep
<1>2. ASSUME NEW p \in Prompts, BeginThrows(p) PROVE Inv'
  BY <1>2, BeginThrowsStep
<1>3. CASE DraftPrefill \/ DraftPrefillThrows
  BY <1>3, DraftPrefillStep
<1>4. CASE DraftModel \/ DraftLookup
  BY <1>4, DraftStep
<1>5. CASE LookupMiss \/ DraftLost
  BY <1>5, NoDraftStep
<1>6. ASSUME NEW a \in 0..Len(draft), NEW c \in Vocabulary, verify_batch(a, c) PROVE Inv'
  BY <1>6, VerifyStep
<1>7. CASE EmitLast
  BY <1>7, EmitLastStep
<1>8. CASE Emit
  BY <1>8, EmitStep
<1>9. ASSUME NEW t \in Tokens, Plain(t) PROVE Inv'
  BY <1>9, PlainStep, Vocabularies
<1>10. CASE LoopEnd
  BY <1>10, LoopEndStep
<1>11. CASE Abandon
  BY <1>11, AbandonStep
<1>12. ASSUME NEW a \in 0..Len(draft), RollbackThrows(a) PROVE Inv'
  BY <1>12, RollbackThrowsStep
<1>13. CASE UNCHANGED vars
  BY <1>13, StutterStep
<1> QED
  BY <1>1, <1>2, <1>3, <1>4, <1>5, <1>6, <1>7, <1>8, <1>9, <1>10, <1>11, <1>12, <1>13
     DEF Next, Continue, Quiet

-----------------------------------------------------------------------------
(* Theorems                                                                *)

LEMMA Invariance == Spec => []Inv
<1>1. Init => Inv
  BY InitInv
<1>2. Inv /\ [Next]_vars => Inv'
  BY NextInv
<1> QED
  BY <1>1, <1>2, PTL DEF Spec

\* The types of the decoder's state, the limits of the adaptive draft length
\* and of the acceptance counters: whatever the models, the prompts, the
\* budgets and the failures of forward passes and callbacks.
THEOREM TypeCorrect == Spec => []TypeOK
<1>1. Inv => TypeOK
  BY DEF Inv
<1> QED
  BY <1>1, Invariance, PTL

\* The rollback of rejected tokens, the delivery that stops half way and the
\* plain path leave both models one token behind the history whenever
\* generate_stream() goes round its loop, and a verification batch never
\* overruns the context.
THEOREM ModelsInSync == Spec => []KVInSync
<1>1. ASSUME Inv PROVE KVInSync
  <2>1. Running /\ ~in_doubt => target_kv = Front(history)
    BY <1>1 DEF Inv, TargetSync
  <2>2. Running /\ speculative_active /\ mode = "model" => draft_kv = Front(history)
    BY <1>1 DEF Inv, DraftSync
  <2>3. ASSUME pc = "verify" PROVE Len(Batched) < n_ctx
    <3>1. Len(Batched) = Len(history) + Len(draft) - 1
      BY <1>1, <2>3, BatchedFacts
    <3>2. Len(draft) <= n_ctx - Len(history)
      BY <1>1, <2>3 DEF Inv, RoundShape
    <3>3. Len(draft) \in Nat /\ Len(history) \in Nat /\ n_ctx \in Nat
      BY <1>1, DecoderAssumption DEF Inv, TypeOK
    <3> QED
      BY ONLY <3>1, <3>2, <3>3
  <2> QED
    BY <2>1, <2>2, <2>3 DEF KVInSync
<1> QED
  BY <1>1, Invariance, PTL

\* Speculation is lossless: every token that verify_batch() or the plain path
\* lets through is one the target alone gives a chance after exactly the
\* tokens delivered before it, and an end of generation is the target's own.
THEOREM SpeculationIsLossless == Spec => []Lossless
<1>1. Inv => Lossless
  BY DEF Inv
<1> QED
  BY <1>1, Invariance, PTL

\* Comparing numbers of positions is enough for the engine's continuation
\* test: after any call that was not abandoned, equal length means that the
\* KV cache holds exactly context_tokens.
THEOREM LengthTestIsSound == Spec => []GuardImpliesContext
<1>1. Inv => GuardImpliesContext
  BY DEF Inv
<1> QED
  BY <1>1, Invariance, PTL
=============================================================================
