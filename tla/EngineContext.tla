---------------------------- MODULE EngineContext ----------------------------
(***************************************************************************)
(* The single-sequence engine (src/core/engine.cpp): generation with hot   *)
(* continuation and the shared-prefix cache, warm(), and sessions.  The    *)
(* API layer serialises these operations with engine_mutex, so one runs    *)
(* at a time; an operation is several actions because a backend failure or *)
(* a throwing callback may abandon it half way.                            *)
(*                                                                         *)
(* The backend is external: kv is the token sequence its KV cache holds    *)
(* and n_past its own position counter.  The two are separate because      *)
(* set_state() takes the counter from its caller.  The logits a forward    *)
(* pass returns are those of kv, so a generation is right when kv equals   *)
(* `tokens` each time it samples.                                          *)
(***************************************************************************)
EXTENDS Naturals, Sequences, FiniteSets, SequencesExt

CONSTANTS Tokens,         \* vocabulary without end-of-generation tokens
          Prompts,        \* tokenized prompts of generate requests
          WarmPrompts,    \* tokenized prompts of warm requests
          Budgets,        \* values of max_tokens
          MaxOps,         \* bound: operations begun in one behaviour
          MaxSessions,    \* bound: sessions created in one behaviour
          MaxSnapshots,   \* snapshots the disk cache has room for
          n_ctx,          \* context length
          block_tokens,   \* cache_block_tokens
          Faults          \* may the backend or a callback throw?

ASSUME EngineAssumption ==
  /\ Prompts \subseteq Seq(Tokens)
  /\ WarmPrompts \subseteq Seq(Tokens)
  /\ Budgets \subseteq Nat
  /\ MaxOps \in Nat
  /\ MaxSessions \in Nat
  /\ MaxSnapshots \in Nat \ {0}
  /\ n_ctx \in Nat \ {0}
  /\ block_tokens \in Nat \ {0}
  /\ Faults \in BOOLEAN

VARIABLES kv, n_past,        \* external: the backend's sequence
          context_tokens,    \* what the engine believes kv to be
          has_cache,         \* is cache_dir set?  fixed at the start
          cache,             \* snapshots on disk, by key
          sessions,          \* named copies of context_tokens
          next_session_id,
          op,                \* where the running operation is
          job,               \* "generate" or "warm"
          tokens,            \* the operation's token vector
          hot,               \* the operation's `estende`
          budget, produced,  \* max_tokens and the loop counter
          pos,               \* prefill(): boundary reached
          ops,               \* operations begun so far, for the bound
          in_doubt           \* history: has something other than the owner of
                             \* context_tokens touched the backend since?

vars == <<kv, n_past, context_tokens, has_cache, cache, sessions,
          next_session_id, op, job, tokens, hot, budget, produced, pos, ops,
          in_doubt>>

backendVars == <<kv, n_past>>
contextVars == <<context_tokens, in_doubt>>
sessionVars == <<has_cache, sessions, next_session_id>>
requestVars == <<job, hot, budget>>
localVars == <<op, job, tokens, hot, budget, produced, pos>>

\* The operation returns or throws; its locals are gone.
Return == /\ op' = "idle"
          /\ job' = "generate"
          /\ tokens' = <<>>
          /\ hot' = FALSE
          /\ budget' = 0 /\ produced' = 0
          /\ pos' = 0

Init == /\ kv = <<>> /\ n_past = 0
        /\ context_tokens = <<>>
        /\ has_cache \in BOOLEAN
        /\ cache = <<>>
        /\ sessions = [s \in 1..MaxSessions |-> [live |-> FALSE, tokens |-> <<>>]]
        /\ next_session_id = 1
        /\ op = "idle"
        /\ job = "generate"
        /\ tokens = <<>>
        /\ hot = FALSE
        /\ budget = 0 /\ produced = 0
        /\ pos = 0
        /\ ops = 0
        /\ in_doubt = FALSE

\* an operation may begin: engine_mutex is free
Begin == op = "idle" /\ ops < MaxOps /\ ops' = ops + 1

-----------------------------------------------------------------------------
(* Snapshots.  A prefix snapshot is keyed by its tokens, a session snapshot *)
(* by the session and its tokens.                                          *)

PrefixKey(t) == <<0, t>>

SessionKey(s, t) == <<s, t>>

\* store_state(): the backend's state with the position count the caller
\* gives.  A full store evicts another snapshot to make room.
Store(key, state, n) ==
  LET others == DOMAIN cache \ {key}
      keeps == IF Cardinality(others) < MaxSnapshots
               THEN {others}
               ELSE {others \ {k} : k \in others}
  IN \E kept \in keeps :
       cache' = [k \in kept \cup {key} |->
                   IF k = key THEN [kv |-> state, n_past |-> n] ELSE cache[k]]

\* Eviction, a failed write or a corrupt entry: the snapshot is gone.
CacheLose ==
  /\ Begin
  /\ \E k \in DOMAIN cache : cache' = [j \in DOMAIN cache \ {k} |-> cache[j]]
  /\ UNCHANGED <<backendVars, contextVars, sessionVars, localVars>>

-----------------------------------------------------------------------------
(* generate_stream_impl(), classic path                                    *)

\* Mutant: any extension of the last context counts, whatever the backend holds.
EstendeUnguarded(p) ==
  /\ context_tokens # <<>>
  /\ Len(p) > Len(context_tokens)
  /\ IsPrefix(context_tokens, p)

Estende(p) == /\ context_tokens # <<>>
              /\ Len(p) > Len(context_tokens)
              /\ n_past = Len(context_tokens)
              /\ IsPrefix(context_tokens, p)

\* A prompt longer than the context throws before anything changes.
Generate(p, m) ==
  /\ Begin
  /\ Len(p) \in 1..n_ctx
  /\ job' = "generate"
  /\ tokens' = p
  /\ budget' = m
  /\ produced' = 0
  /\ hot' = Estende(p)
  /\ op' = IF Estende(p) THEN "tail" ELSE IF has_cache THEN "restore" ELSE "decode"
  /\ UNCHANGED <<backendVars, contextVars, cache, sessionVars, pos>>

\* decode_append() of what the hot context lacks
DecodeTail ==
  /\ op = "tail"
  /\ LET tail == SubSeq(tokens, Len(context_tokens) + 1, Len(tokens)) IN
       /\ kv' = kv \o tail
       /\ n_past' = n_past + Len(tail)
  /\ op' = "loop"
  /\ UNCHANGED <<contextVars, cache, sessionVars, requestVars, tokens,
                 produced, pos, ops>>

\* decode(): a fresh sequence
DecodeFresh ==
  /\ op = "decode"
  /\ kv' = tokens
  /\ n_past' = Len(tokens)
  /\ op' = "loop"
  /\ UNCHANGED <<contextVars, cache, sessionVars, requestVars, tokens,
                 produced, pos, ops>>

-----------------------------------------------------------------------------
(* PrefixCache::prefill()                                                  *)

\* what prefill() is called with: all of a warmed prompt, or the prompt
\* minus its last token
Prefix == IF job = "warm" THEN tokens ELSE Front(tokens)

\* block multiples below the size, and the size
Boundaries(size) == {b \in 1..size : b = size \/ b % block_tokens = 0}

Cached == {b \in Boundaries(Len(Prefix)) : PrefixKey(SubSeq(Prefix, 1, b)) \in DOMAIN cache}

\* Mutant: with no snapshot the old sequence stays in the backend.
RestoreNoReset ==
  /\ op = "restore"
  /\ IF Cached # {}
     THEN LET b == CHOOSE b \in Cached : \A c \in Cached : c <= b
              snap == cache[PrefixKey(SubSeq(Prefix, 1, b))]
          IN kv' = snap.kv /\ n_past' = snap.n_past /\ pos' = b
     ELSE UNCHANGED backendVars /\ pos' = 0
  /\ op' = "blocks"
  /\ UNCHANGED <<contextVars, cache, sessionVars, requestVars, tokens, produced, ops>>

\* the longest boundary with a snapshot, or reset()
Restore ==
  /\ op = "restore"
  /\ IF Cached # {}
     THEN LET b == CHOOSE b \in Cached : \A c \in Cached : c <= b
              snap == cache[PrefixKey(SubSeq(Prefix, 1, b))]
          IN kv' = snap.kv /\ n_past' = snap.n_past /\ pos' = b
     ELSE kv' = <<>> /\ n_past' = 0 /\ pos' = 0
  /\ op' = "blocks"
  /\ UNCHANGED <<contextVars, cache, sessionVars, requestVars, tokens, produced, ops>>

NextBoundary == CHOOSE b \in Boundaries(Len(Prefix)) :
                  /\ b > pos
                  /\ \A c \in Boundaries(Len(Prefix)) : c > pos => b <= c

\* Mutant: the snapshot is taken before the block is decoded.
BlockStoredEarly ==
  /\ op = "blocks"
  /\ pos < Len(Prefix)
  /\ LET b == NextBoundary IN
       /\ kv' = kv \o SubSeq(Prefix, pos + 1, b)
       /\ n_past' = n_past + (b - pos)
       /\ Store(PrefixKey(SubSeq(Prefix, 1, b)), kv, b)
       /\ pos' = b
  /\ UNCHANGED <<contextVars, sessionVars, op, requestVars, tokens, produced, ops>>

\* Decode up to the next boundary and snapshot it.
PrefillBlock ==
  /\ op = "blocks"
  /\ pos < Len(Prefix)
  /\ LET b == NextBoundary IN
       /\ kv' = kv \o SubSeq(Prefix, pos + 1, b)
       /\ n_past' = n_past + (b - pos)
       /\ Store(PrefixKey(SubSeq(Prefix, 1, b)), kv', b)
       /\ pos' = b
  /\ UNCHANGED <<contextVars, sessionVars, op, requestVars, tokens, produced, ops>>

\* The prefix is in: a warm() returns, a generation decodes the last token.
PrefillDone ==
  /\ op = "blocks"
  /\ pos = Len(Prefix)
  /\ IF job = "warm"
     THEN in_doubt' = TRUE /\ Return
     ELSE op' = "last" /\ UNCHANGED <<in_doubt, requestVars, tokens, produced, pos>>
  /\ UNCHANGED <<backendVars, context_tokens, cache, sessionVars, ops>>

DecodeLast ==
  /\ op = "last"
  /\ kv' = Append(kv, Last(tokens))
  /\ n_past' = n_past + 1
  /\ op' = "loop"
  /\ UNCHANGED <<contextVars, cache, sessionVars, requestVars, tokens,
                 produced, pos, ops>>

-----------------------------------------------------------------------------
(* The generation loop                                                     *)

\* The generation hands its tokens over.  What a cold one leaves in the
\* backend is its own doing.
HandOver(t) == /\ context_tokens' = t
               /\ in_doubt' = (in_doubt /\ hot)
               /\ Return

\* end of generation, a callback that returns false, or no budget at all
LoopEnd ==
  /\ op = "loop"
  /\ HandOver(tokens)
  /\ UNCHANGED <<backendVars, cache, sessionVars, ops>>

\* Mutant: the loop is bounded by the context alone.
LoopTokenNoBudget(t) ==
  /\ op = "loop"
  /\ LET longer == Append(tokens, t) IN
       IF Len(longer) >= n_ctx
       THEN HandOver(longer)
       ELSE /\ tokens' = longer
            /\ op' = "feed"
            /\ UNCHANGED <<contextVars, requestVars, produced, pos>>
  /\ UNCHANGED <<backendVars, cache, sessionVars, ops>>

\* A token is delivered.  When it fills the context or spends the budget
\* the loop ends before the token is fed to the backend.
LoopToken(t) ==
  /\ op = "loop"
  /\ produced < budget
  /\ LET longer == Append(tokens, t) IN
       IF Len(longer) >= n_ctx \/ produced + 1 >= budget
       THEN HandOver(longer)
       ELSE /\ tokens' = longer
            /\ op' = "feed"
            /\ UNCHANGED <<contextVars, requestVars, produced, pos>>
  /\ UNCHANGED <<backendVars, cache, sessionVars, ops>>

LoopFeed ==
  /\ op = "feed"
  /\ kv' = Append(kv, Last(tokens))
  /\ n_past' = n_past + 1
  /\ produced' = produced + 1
  /\ op' = "loop"
  /\ UNCHANGED <<contextVars, cache, sessionVars, requestVars, tokens, pos, ops>>

\* An exception leaves generate_stream() or warm(): context_tokens keeps
\* the value of the previous operation.  decode() has already reset the
\* sequence when its forward pass fails.
Abort ==
  /\ Faults
  /\ op # "idle"
  /\ IF op = "decode" THEN kv' = <<>> /\ n_past' = 0 ELSE UNCHANGED backendVars
  /\ in_doubt' = TRUE
  /\ Return
  /\ UNCHANGED <<context_tokens, cache, sessionVars, ops>>

-----------------------------------------------------------------------------
(* warm() and sessions                                                     *)

\* Without the disk cache warm() only counts tokens.
Warm(p) ==
  /\ Begin
  /\ has_cache
  /\ Len(p) \in 1..n_ctx
  /\ job' = "warm"
  /\ tokens' = p
  /\ op' = "restore"
  /\ UNCHANGED <<backendVars, contextVars, cache, sessionVars, hot, budget,
                 produced, pos>>

create_session ==
  /\ Begin
  /\ next_session_id <= MaxSessions
  /\ sessions' = [sessions EXCEPT ![next_session_id].live = TRUE]
  /\ next_session_id' = next_session_id + 1
  /\ UNCHANGED <<backendVars, contextVars, has_cache, cache, localVars>>

\* The snapshot is labelled with the length of context_tokens, whatever the
\* backend holds.
save_session(s) ==
  /\ Begin
  /\ sessions[s].live
  /\ sessions' = [sessions EXCEPT ![s].tokens = context_tokens]
  /\ IF has_cache /\ context_tokens # <<>>
     THEN Store(SessionKey(s, context_tokens), kv, Len(context_tokens))
     ELSE UNCHANGED cache
  /\ UNCHANGED <<backendVars, contextVars, has_cache, next_session_id,
                 localVars>>

\* Mutant: without a snapshot only the engine's side is restored.
load_sessionNoPrefill(s) ==
  /\ Begin
  /\ sessions[s].live
  /\ context_tokens' = sessions[s].tokens
  /\ in_doubt' = FALSE
  /\ UNCHANGED <<backendVars, cache, sessionVars, localVars>>

\* Restore the snapshot if there is one, else re-prefill the saved tokens.
load_session(s) ==
  /\ Begin
  /\ sessions[s].live
  /\ LET saved == sessions[s].tokens
         key == SessionKey(s, saved) IN
       /\ IF saved = <<>> THEN UNCHANGED backendVars
          ELSE IF key \in DOMAIN cache
          THEN kv' = cache[key].kv /\ n_past' = cache[key].n_past
          ELSE Len(saved) <= n_ctx /\ kv' = saved /\ n_past' = Len(saved)
       /\ context_tokens' = saved
       /\ in_doubt' = (saved # <<>> /\ key \in DOMAIN cache)
  /\ UNCHANGED <<cache, sessionVars, localVars>>

\* The re-prefill of load_session() throws, as it must when the saved
\* tokens exceed the context: the sequence is reset, nothing else changes.
load_sessionThrows(s) ==
  /\ Faults \/ Len(sessions[s].tokens) > n_ctx
  /\ Begin
  /\ sessions[s].live
  /\ sessions[s].tokens # <<>>
  /\ SessionKey(s, sessions[s].tokens) \notin DOMAIN cache
  /\ kv' = <<>> /\ n_past' = 0
  /\ UNCHANGED <<contextVars, cache, sessionVars, localVars>>

delete_session(s) ==
  /\ Begin
  /\ sessions[s].live
  /\ sessions' = [sessions EXCEPT ![s] = [live |-> FALSE, tokens |-> <<>>]]
  /\ UNCHANGED <<backendVars, contextVars, has_cache, cache, next_session_id,
                 localVars>>

-----------------------------------------------------------------------------
\* The bound is reached: the idle engine waits for requests that never come.
Exhausted == op = "idle" /\ ops = MaxOps /\ UNCHANGED vars

Next == \/ CacheLose
        \/ \E p \in Prompts, m \in Budgets : Generate(p, m)
        \/ \E p \in WarmPrompts : Warm(p)
        \/ DecodeTail
        \/ DecodeFresh
        \/ Restore
        \/ PrefillBlock
        \/ PrefillDone
        \/ DecodeLast
        \/ LoopEnd
        \/ \E t \in Tokens : LoopToken(t)
        \/ LoopFeed
        \/ Abort
        \/ create_session
        \/ \E s \in 1..MaxSessions : \/ save_session(s)
                                     \/ load_session(s)
                                     \/ load_sessionThrows(s)
                                     \/ delete_session(s)
        \/ Exhausted

Spec == Init /\ [][Next]_vars

-----------------------------------------------------------------------------
(* Properties *)

Snapshot == [kv : Seq(Tokens), n_past : Nat]

\* Types of the engine's state; a generation never goes past its budget, a
\* prefill never past the context.
TypeOK ==
  /\ kv \in Seq(Tokens) /\ n_past \in Nat
  /\ context_tokens \in Seq(Tokens)
  /\ \A k \in DOMAIN cache : cache[k] \in Snapshot
  /\ sessions \in [1..MaxSessions -> [live : BOOLEAN, tokens : Seq(Tokens)]]
  /\ next_session_id \in 1..(MaxSessions + 1)
  /\ op \in {"idle", "tail", "decode", "restore", "blocks", "last", "loop", "feed"}
  /\ job \in {"generate", "warm"}
  /\ tokens \in Seq(Tokens)
  /\ hot \in BOOLEAN
  /\ budget \in Budgets \cup {0} /\ produced \in 0..budget
  /\ pos \in 0..n_ctx
  /\ ops \in 0..MaxOps
  /\ has_cache \in BOOLEAN /\ in_doubt \in BOOLEAN

\* A prefix snapshot holds exactly the tokens it is keyed by, whatever ran
\* before it was taken: prefill() never builds on a stale sequence, also
\* after exceptions, warms and session loads.
PrefixSnapshotsExact ==
  \A k \in DOMAIN cache :
    k[1] = 0 => cache[k] = [kv |-> k[2], n_past |-> Len(k[2])]

\* Every token is sampled from the KV of exactly the generation's own
\* prompt and output ("from here `tokens` mirrors the KV cache content").
\* The one way out is a hot continuation after a warm(), a session restored
\* from a snapshot or an abandoned operation, and the next cold generation
\* ends it.
GenerationsExact ==
  op = "loop" => \/ kv = tokens /\ n_past = Len(tokens)
                 \/ hot /\ in_doubt

\* Between operations, whenever the counters agree and nothing but the
\* owner of context_tokens touched the backend, the contents agree: the
\* comparison of lengths is enough for plain conversations and for sessions
\* that are re-prefilled.
GuardImpliesContext ==
  op = "idle" /\ ~in_doubt /\ n_past = Len(context_tokens) => kv = context_tokens

-----------------------------------------------------------------------------
(* What the comments of the code claim *)

\* "the guard that keeps /v1/warm and sessions from tripping this": a hot
\* continuation always continues the sequence the backend really holds.
HotContinuesOwnContext == op = "tail" => kv = context_tokens
=============================================================================
