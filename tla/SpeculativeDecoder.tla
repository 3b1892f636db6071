------------------------- MODULE SpeculativeDecoder -------------------------
(***************************************************************************)
(* Speculative decoding (src/speculative) and the branch of the engine     *)
(* that calls it: a cheap source drafts tokens, the target model checks    *)
(* them in one batch, the rejected tail is rolled back and the survivors   *)
(* are delivered one by one.  The calling thread does everything; a call   *)
(* is several actions because a model or the callback may throw half way.  *)
(*                                                                         *)
(* External: target_kv and draft_kv are the token sequences the two models *)
(* hold.  Support(h) is the set of tokens the target gives a probability   *)
(* above zero after the sequence h, a singleton when sampling is greedy;   *)
(* the arithmetic of the acceptance rule is abstracted to what can happen. *)
(* The constructor lets the vocabularies differ by up to 128 tokens either *)
(* way: a token of the target may be unknown to the draft model, and the   *)
(* draft model may propose one the target does not have.                   *)
(***************************************************************************)
EXTENDS Naturals, Sequences, FiniteSets, SequencesExt

CONSTANTS Tokens,            \* the target's vocabulary
          Eog,               \* its end-of-generation tokens
          DraftTokens,       \* the draft model's vocabulary
          eos,               \* the draft model's eos_token()
          Support(_),        \* tokens the target may emit after a sequence
          Prompts,           \* tokenized prompts
          Budgets,           \* values of max_tokens
          MaxCalls,          \* bound: calls in one behaviour
          n_ctx,             \* context length of the target
          draft_tokens, min_draft_tokens, max_draft_tokens,
          lookup_max_ngram, lookup_min_ngram,
          disable_after_drafted,
          disable_below_percent,  \* disable_below_acceptance, in percent
          Faults             \* may a model or the callback throw?

ASSUME DecoderAssumption ==
  /\ Eog \subseteq Tokens
  /\ Prompts \subseteq Seq(Tokens)
  /\ Budgets \subseteq Nat
  /\ MaxCalls \in Nat
  /\ n_ctx \in Nat \ {0}
  /\ min_draft_tokens \in Nat \ {0}
  /\ max_draft_tokens \in Nat
  /\ draft_tokens \in min_draft_tokens..max_draft_tokens
  /\ lookup_max_ngram \in Nat /\ lookup_min_ngram \in 1..lookup_max_ngram
  /\ disable_after_drafted \in Nat
  /\ disable_below_percent \in 0..100
  /\ Faults \in BOOLEAN

Vocabulary == Tokens \cup DraftTokens

VARIABLES mode,              \* Config::mode, fixed at the start
          target_kv, draft_kv,
          context_tokens,    \* the engine's: what it believes target_kv is
          tokens,            \* the engine's vector for the running request
          history,           \* the decoder's; kept after the call, when
                             \* ObserveGuard hands it to the corpus index
          max_tokens, emitted,
          speculative_active,    \* these four outlive the calls
          current_draft_tokens,
          total_draft, total_accepted,
          lookup_skip,
          draft,             \* DraftResult::tokens
          accepted,          \* how many of them the verifier accepted
          new_tokens,        \* survivors not delivered yet
          pc,
          calls,             \* calls begun so far, for the bound
          in_doubt,          \* history: was the last call abandoned, or a token
                             \* the target does not have accepted?
          ended              \* history: why the last call returned

vars == <<mode, target_kv, draft_kv, context_tokens, tokens, history,
          max_tokens, emitted, speculative_active, current_draft_tokens,
          total_draft, total_accepted, lookup_skip, draft, accepted,
          new_tokens, pc, calls, in_doubt, ended>>

requestVars == <<mode, max_tokens, calls>>
adaptiveVars == <<speculative_active, current_draft_tokens, total_draft, total_accepted>>
roundVars == <<draft, accepted, new_tokens>>

Init ==
  /\ mode \in {"model", "lookup"}
  /\ target_kv = <<>> /\ draft_kv = <<>>
  /\ context_tokens = <<>> /\ tokens = <<>> /\ history = <<>>
  /\ max_tokens = 0 /\ emitted = 0
  /\ speculative_active = TRUE
  /\ current_draft_tokens = draft_tokens
  /\ total_draft = 0 /\ total_accepted = 0
  /\ lookup_skip = FALSE
  /\ draft = <<>> /\ accepted = 0 /\ new_tokens = <<>>
  /\ pc = "idle"
  /\ calls = 0
  /\ in_doubt = FALSE
  /\ ended = "none"

cur == Last(history)

-----------------------------------------------------------------------------
(* The engine's speculative branch and the decoder's prefill               *)

Estende(p) == /\ context_tokens # <<>>
              /\ Len(p) > Len(context_tokens)
              /\ Len(target_kv) = Len(context_tokens)
              /\ IsPrefix(context_tokens, p)

\* target_kv once the whole prompt but its last token is in: the tail after
\* kv_ready is appended to a hot context; otherwise the KV is reset, or
\* loaded by PrefixCache::prefill(), and ends up the same.
Prefilled(p) ==
  IF Estende(p)
  THEN target_kv \o SubSeq(p, Len(context_tokens) + 1, Len(p) - 1)
  ELSE Front(p)

Call(p) == /\ pc = "idle"
           /\ calls < MaxCalls
           /\ Len(p) \in 1..n_ctx
           /\ calls' = calls + 1

Begin(p, m) ==
  /\ Call(p)
  /\ target_kv' = Prefilled(p)
  /\ in_doubt' = (in_doubt /\ Estende(p))
  /\ history' = p /\ tokens' = p
  /\ max_tokens' = m /\ emitted' = 0
  /\ lookup_skip' = FALSE
  /\ ended' = "none"
  /\ pc' = IF speculative_active /\ mode = "model" THEN "draft_prefill" ELSE "loop"
  /\ UNCHANGED <<mode, draft_kv, context_tokens, adaptiveVars, roundVars>>

\* A forward pass of the prefill throws: the KV holds the part decoded so
\* far and context_tokens still names the previous context.
BeginThrows(p) ==
  /\ Call(p)
  /\ Faults
  /\ target_kv' \in IF Estende(p) THEN {target_kv} ELSE Prefixes(Front(p))
  /\ in_doubt' = TRUE
  /\ ended' = "error"
  /\ history' = p /\ emitted' = 0
  /\ UNCHANGED <<mode, draft_kv, context_tokens, tokens, max_tokens,
                 adaptiveVars, lookup_skip, roundVars, pc>>

DraftPrefill ==
  /\ pc = "draft_prefill"
  /\ draft_kv' = Front(history)
  /\ pc' = "loop"
  /\ UNCHANGED <<requestVars, target_kv, context_tokens, tokens, history, emitted,
                 adaptiveVars, lookup_skip, roundVars, in_doubt, ended>>

DraftPrefillThrows ==
  /\ pc = "draft_prefill"
  /\ Faults
  /\ draft_kv' = <<>>
  /\ speculative_active' = FALSE
  /\ pc' = "loop"
  /\ UNCHANGED <<requestVars, target_kv, context_tokens, tokens, history, emitted,
                 current_draft_tokens, total_draft, total_accepted, lookup_skip,
                 roundVars, in_doubt, ended>>

-----------------------------------------------------------------------------
(* Drafting                                                                *)

Running == pc = "loop" /\ emitted < max_tokens /\ Len(history) < n_ctx

Speculating == /\ Running
               /\ speculative_active
               /\ ~lookup_skip
               /\ mode = "model" => cur \in DraftTokens

n_draft == IF current_draft_tokens < n_ctx - Len(history)
           THEN current_draft_tokens
           ELSE n_ctx - Len(history)

\* What the draft model may roll out: n_draft tokens, or fewer up to eos.
\* Other end-of-generation tokens do not stop it.
ModelDrafts ==
  {d \in UNION {[1..k -> DraftTokens] : k \in 1..n_draft} :
     /\ \A i \in 1..(Len(d) - 1) : d[i] # eos
     /\ Len(d) = n_draft \/ Last(d) = eos}

\* Starts of earlier occurrences of the last n tokens of h.
Occurrences(h, n) ==
  {s \in 1..(Len(h) - n) : SubSeq(h, s, s + n - 1) = SubSeq(h, Len(h) - n + 1, Len(h))}

\* PromptLookup::find_draft(): the longest n-gram that occurs before, its
\* most recent occurrence, and what followed it.
find_draft(h, k) ==
  LET ns == {n \in lookup_min_ngram..lookup_max_ngram : Occurrences(h, n) # {}}
      n == CHOOSE x \in ns : \A y \in ns : y <= x
      start == CHOOSE x \in Occurrences(h, n) : \A y \in Occurrences(h, n) : y <= x
      last == start + n - 1 + k
  IN IF ns = {} THEN <<>>
     ELSE SubSeq(h, start + n, IF last < Len(h) THEN last ELSE Len(h))

\* Without a match the corpus index or the form prompter may have a
\* proposal of their own, at most n_draft tokens.
LookupDrafts ==
  IF find_draft(history, n_draft) # <<>>
  THEN {find_draft(history, n_draft)}
  ELSE UNION {[1..k -> Tokens] : k \in 1..n_draft}

DraftModel ==
  /\ Speculating
  /\ mode = "model"
  /\ \E d \in ModelDrafts : draft' = d /\ draft_kv' = draft_kv \o <<cur>> \o Front(d)
  /\ pc' = "verify"
  /\ UNCHANGED <<requestVars, target_kv, context_tokens, tokens, history, emitted,
                 adaptiveVars, lookup_skip, accepted, new_tokens, in_doubt, ended>>

DraftLookup ==
  /\ Speculating
  /\ mode = "lookup"
  /\ draft' \in LookupDrafts
  /\ pc' = "verify"
  /\ UNCHANGED <<requestVars, target_kv, draft_kv, context_tokens, tokens, history,
                 emitted, adaptiveVars, lookup_skip, accepted, new_tokens, in_doubt, ended>>

\* No proposal from any source: one plain step, then try again.
LookupMiss ==
  /\ Speculating
  /\ mode = "lookup"
  /\ find_draft(history, n_draft) = <<>>
  /\ lookup_skip' = TRUE
  /\ UNCHANGED <<requestVars, target_kv, draft_kv, context_tokens, tokens, history,
                 emitted, adaptiveVars, roundVars, pc, in_doubt, ended>>

\* Plain decoding for good: the draft model threw, or `cur` is not in its
\* vocabulary.
DraftLost ==
  /\ Running
  /\ speculative_active
  /\ mode = "model"
  /\ Faults \/ cur \notin DraftTokens
  /\ speculative_active' = FALSE
  /\ UNCHANGED <<requestVars, target_kv, draft_kv, context_tokens, tokens, history,
                 emitted, current_draft_tokens, total_draft, total_accepted,
                 lookup_skip, roundVars, pc, in_doubt, ended>>

-----------------------------------------------------------------------------
(* Verification and rollback                                               *)

\* Mutant: each token is judged by the logits of the position after it.
JudgedLate(i) == target_kv \o <<cur>> \o SubSeq(draft, 1, i)

\* What the target has read when it judges draft token i.
Judged(i) == target_kv \o <<cur>> \o SubSeq(draft, 1, i - 1)

\* The verifier may accept the first a tokens and, unless that is all of
\* them, reject the next in favour of c: accept_token() needs a probability
\* above zero, and the residual distribution leaves the rejected token out.
\* The probability of a token the target does not have is read beyond the
\* end of target_probs: it may be anything.
Verdict(a, c) ==
  /\ \A i \in 1..a : draft[i] \in Tokens => draft[i] \in Support(Judged(i))
  /\ IF a < Len(draft)
     THEN c \in Support(Judged(a + 1)) \ {draft[a + 1]}
     ELSE c = cur    \* no correction

Batched == target_kv \o <<cur>> \o Front(draft)

\* Mutant: the rollback forgets `cur`.
kept_short(a) == Len(history) - 1 + a

\* Mutant: the rejected tail stays in the KV cache.
kept_all(a) == Len(Batched)

\* positions in both KV caches after verification: base is Len(history) - 1
\* in the code; without a correction nothing is cut
kept(a) == Len(history) + a

\* Did the verifier accept a token the target does not have?
Misread(a) == \E i \in 1..a : draft[i] \notin Tokens

verify_batch(a, c) ==
  /\ pc = "verify"
  /\ Verdict(a, c)
  /\ total_draft' = total_draft + Len(draft)
  /\ total_accepted' = total_accepted + a
  /\ accepted' = a
  /\ IF a < Len(draft)
     THEN /\ target_kv' = SubSeq(Batched, 1, kept(a))
          /\ draft_kv' = IF mode = "model" THEN SubSeq(draft_kv, 1, kept(a)) ELSE draft_kv
          /\ new_tokens' = Append(SubSeq(draft, 1, a), c)
     ELSE /\ target_kv' = Batched
          /\ UNCHANGED draft_kv
          /\ new_tokens' = draft
  /\ in_doubt' = (in_doubt \/ Misread(a))
  /\ pc' = "emit"
  /\ UNCHANGED <<requestVars, context_tokens, tokens, history, emitted,
                 speculative_active, current_draft_tokens, lookup_skip, draft, ended>>

\* The round's locals are gone.
RoundOver == draft' = <<>> /\ accepted' = 0 /\ new_tokens' = <<>>

\* truncate_to() throws after the batch: the target keeps the rejected tail,
\* or only the draft model does.
RollbackThrows(a) ==
  /\ Faults
  /\ pc = "verify"
  /\ kept(a) < Len(Batched)
  /\ \E c \in Vocabulary : Verdict(a, c)
  /\ total_draft' = total_draft + Len(draft)
  /\ total_accepted' = total_accepted + a
  /\ \/ target_kv' = Batched
     \/ mode = "model" /\ target_kv' = SubSeq(Batched, 1, kept(a))
  /\ pc' = "idle"
  /\ ended' = "error"
  /\ in_doubt' = TRUE
  /\ RoundOver
  /\ UNCHANGED <<requestVars, draft_kv, context_tokens, tokens, history, emitted,
                 speculative_active, current_draft_tokens, lookup_skip>>

-----------------------------------------------------------------------------
(* Delivery                                                                *)

\* generate_stream() returns and the engine keeps the tokens ts.
Return(why, ts) == pc' = "idle" /\ ended' = why /\ context_tokens' = ts

\* Token t ends the call: an end-of-generation token, or one the callback
\* refuses, which the engine has recorded before asking.
Stops(t) ==
  /\ \/ t \in Eog /\ tokens' = tokens /\ Return("eog", tokens)
     \/ t \notin Eog /\ tokens' = Append(tokens, t) /\ Return("stopped", Append(tokens, t))
  /\ UNCHANGED <<history, emitted>>

\* Token t is delivered and the callback wants more.
Delivered(t) ==
  /\ t \notin Eog
  /\ tokens' = Append(tokens, t)
  /\ history' = Append(history, t)
  /\ emitted' = emitted + 1
  /\ UNCHANGED <<context_tokens, ended>>

\* Mutant: the draft length has no floor and no ceiling.
adapt_unclamped ==
  current_draft_tokens' =
    CASE 10 * accepted >= 9 * Len(draft) -> current_draft_tokens + 2
      [] 10 * accepted <= 4 * Len(draft) -> current_draft_tokens - 2
      [] OTHER -> current_draft_tokens

\* adapt_draft_length(): at 90% accepted the draft grows, at 40% it shrinks.
adapt_draft_length ==
  current_draft_tokens' =
    CASE 10 * accepted >= 9 * Len(draft) ->
           IF current_draft_tokens + 2 < max_draft_tokens
           THEN current_draft_tokens + 2 ELSE max_draft_tokens
      [] 10 * accepted <= 4 * Len(draft) ->
           IF current_draft_tokens > min_draft_tokens + 2
           THEN current_draft_tokens - 2 ELSE min_draft_tokens
      [] OTHER -> current_draft_tokens

maybe_auto_disable ==
  speculative_active' = (/\ speculative_active
                         /\ \/ total_draft < disable_after_drafted
                            \/ 100 * total_accepted >= disable_below_percent * total_draft)

\* The emission loop.
EmitLast ==
  /\ pc = "emit"
  /\ Stops(Head(new_tokens))
  /\ RoundOver
  /\ UNCHANGED <<requestVars, target_kv, draft_kv, adaptiveVars, lookup_skip, in_doubt>>

\* The round is over when its tokens, max_tokens or the context is used up.
Emit ==
  /\ pc = "emit"
  /\ Delivered(Head(new_tokens))
  /\ IF emitted' >= max_tokens \/ Len(history') >= n_ctx \/ Len(new_tokens) = 1
     THEN /\ adapt_draft_length
          /\ maybe_auto_disable
          /\ RoundOver
          /\ pc' = "loop"
     ELSE /\ new_tokens' = Tail(new_tokens)
          /\ UNCHANGED <<pc, speculative_active, current_draft_tokens, draft, accepted>>
  /\ UNCHANGED <<requestVars, target_kv, draft_kv, total_draft, total_accepted,
                 lookup_skip, in_doubt>>

\* The plain path: feed `cur`, sample one token.
Plain(t) ==
  /\ Running
  /\ ~speculative_active \/ lookup_skip
  /\ lookup_skip' = FALSE
  /\ target_kv' = Append(target_kv, cur)
  /\ t \in Support(target_kv')
  /\ Stops(t) \/ (Delivered(t) /\ pc' = pc)
  /\ UNCHANGED <<requestVars, draft_kv, adaptiveVars, roundVars, in_doubt>>

\* The loop ends at max_tokens or with the context full.
LoopEnd ==
  /\ pc = "loop"
  /\ ~Running
  /\ Return("limit", tokens)
  /\ UNCHANGED <<requestVars, target_kv, draft_kv, tokens, history, emitted, adaptiveVars,
                 lookup_skip, roundVars, in_doubt>>

\* A forward pass of the target, or the callback, throws.  In the plain path
\* the callback runs after the KV has taken `cur`.
Abandon ==
  /\ Faults
  /\ \/ pc = "verify" /\ target_kv' = target_kv
     \/ pc = "emit" /\ Head(new_tokens) \notin Eog /\ target_kv' = target_kv
     \/ /\ Running
        /\ ~speculative_active \/ lookup_skip
        /\ \/ target_kv' = target_kv
           \/ target_kv' = Append(target_kv, cur) /\ ~(Support(target_kv') \subseteq Eog)
  /\ pc' = "idle"
  /\ ended' = "error"
  /\ in_doubt' = TRUE
  /\ RoundOver
  /\ UNCHANGED <<requestVars, draft_kv, context_tokens, tokens, history, emitted,
                 adaptiveVars, lookup_skip>>

-----------------------------------------------------------------------------
Continue == \/ DraftPrefill
            \/ DraftPrefillThrows
            \/ DraftModel
            \/ DraftLookup
            \/ LookupMiss
            \/ DraftLost
            \/ \E a \in 0..Len(draft), c \in Vocabulary : verify_batch(a, c)
            \/ \E a \in 0..Len(draft) : RollbackThrows(a)
            \/ EmitLast
            \/ Emit
            \/ \E t \in Tokens : Plain(t)
            \/ LoopEnd
            \/ Abandon

\* No more calls come: a call that has begun may not stop anywhere else.
Quiet == pc = "idle" /\ calls = MaxCalls /\ UNCHANGED vars

Next == \/ \E p \in Prompts, m \in Budgets : Begin(p, m)
        \/ \E p \in Prompts : BeginThrows(p)
        \/ Continue
        \/ Quiet

Spec == Init /\ [][Next]_vars

-----------------------------------------------------------------------------
(* Properties *)

\* Types of the decoder's state; the adaptive draft length stays between its
\* limits and no more tokens are accepted than were drafted.
TypeOK ==
  /\ mode \in {"model", "lookup"}
  /\ target_kv \in Seq(Vocabulary) /\ draft_kv \in Seq(Vocabulary)
  /\ context_tokens \in Seq(Vocabulary) /\ tokens \in Seq(Vocabulary) /\ history \in Seq(Vocabulary)
  /\ max_tokens \in Nat /\ emitted \in 0..max_tokens
  /\ speculative_active \in BOOLEAN /\ lookup_skip \in BOOLEAN
  /\ current_draft_tokens \in min_draft_tokens..max_draft_tokens
  /\ total_draft \in Nat /\ total_accepted \in 0..total_draft
  /\ draft \in Seq(Vocabulary) /\ accepted \in Nat /\ new_tokens \in Seq(Vocabulary)
  /\ pc \in {"idle", "draft_prefill", "loop", "verify", "emit"}
  /\ calls \in 0..MaxCalls
  /\ in_doubt \in BOOLEAN
  /\ ended \in {"none", "limit", "eog", "stopped", "error"}

\* "Each model holds every token of `history` except the newest one": at
\* the head of every iteration that goes on, whatever was accepted, rolled
\* back or skipped before, as long as no abandoned call left its KV behind.
\* No batch ever needs more positions than the context has.
KVInSync ==
  /\ Running /\ ~in_doubt => target_kv = Front(history)
  /\ Running /\ speculative_active /\ mode = "model" => draft_kv = Front(history)
  /\ pc = "verify" => Len(Batched) < n_ctx

\* Speculation is invisible in the output: every token delivered is one the
\* target alone could have sampled after exactly the tokens before it, and
\* a generation that ends by itself ends where the target could end it.
\* Not so once a token the target does not have was accepted.
Lossless ==
  ~in_doubt =>
  /\ \A i \in (Len(history) - emitted + 1)..Len(history) :
        history[i] \in Support(SubSeq(history, 1, i - 1)) \ Eog
  /\ ended = "eog" => Support(history) \cap Eog # {}

\* Between calls the engine compares only the number of positions: when it
\* agrees with context_tokens, so do the contents, also after drafts that
\* overshot max_tokens or a token the callback refused.
GuardImpliesContext ==
  pc = "idle" /\ ~in_doubt /\ Len(target_kv) = Len(context_tokens) =>
     target_kv = context_tokens
=============================================================================
