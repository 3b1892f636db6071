------------------------- MODULE EngineContextProofs -------------------------
(* Safety of EngineContext for any vocabulary, prompts, context and block   *)
(* length, number of sessions and room for snapshots.                      *)
EXTENDS EngineContext, DataLemmas

\* A position counter at zero means an empty sequence, in the backend and in
\* every snapshot, also where counter and contents disagree otherwise.
ZeroMeansEmpty ==
  /\ n_past = 0 => kv = <<>>
  /\ \A k \in DOMAIN cache : cache[k].n_past = 0 => cache[k].kv = <<>>

\* What the locals of an operation have in common.
OpShape ==
  /\ op = "idle" => ~hot /\ produced = 0
  /\ op # "idle" => tokens # <<>> /\ Len(tokens) <= n_ctx
  /\ op \in {"tail", "decode", "last", "loop", "feed"} => job = "generate"
  /\ op \in {"decode", "restore", "blocks", "last"} => ~hot
  /\ op = "feed" => produced < budget

\* What the backend holds on the way to the loop and between its iterations.
OpSync ==
  /\ op = "tail" =>
       /\ hot /\ n_past = Len(context_tokens) /\ Len(tokens) > Len(context_tokens)
       /\ IsPrefix(context_tokens, tokens)
       /\ ~in_doubt => kv = context_tokens
  /\ op = "blocks" => pos \in 0..Len(Prefix) /\ n_past = pos /\ kv = SubSeq(Prefix, 1, pos)
  /\ op = "last" => n_past = Len(tokens) - 1 /\ kv = Front(tokens)
  /\ op = "feed" => \/ n_past = Len(tokens) - 1 /\ kv = Front(tokens)
                    \/ hot /\ in_doubt

Inv ==
  /\ TypeOK /\ ZeroMeansEmpty /\ OpShape /\ OpSync
  /\ PrefixSnapshotsExact /\ GenerationsExact /\ GuardImpliesContext

LEMMA InitInv == Init => Inv
<1> SUFFICES ASSUME Init PROVE Inv
  OBVIOUS
<1>1. TypeOK
  <2>1. <<>> \in Seq(Tokens)
    OBVIOUS
  <2>2. hot \in BOOLEAN /\ has_cache \in BOOLEAN /\ in_doubt \in BOOLEAN
    BY Zenon DEF Init
  <2>3. sessions \in [1..MaxSessions -> [live : BOOLEAN, tokens : Seq(Tokens)]]
    BY <2>1 DEF Init
  <2>4. DOMAIN cache = {}
    BY DEF Init
  <2>5. next_session_id \in 1..(MaxSessions + 1) /\ ops \in 0..MaxOps /\ pos \in 0..n_ctx
    BY EngineAssumption DEF Init
  <2> QED
    BY <2>1, <2>2, <2>3, <2>4, <2>5 DEF Init, TypeOK
<1>2. op = "idle" /\ ~hot /\ DOMAIN cache = {} /\ kv = <<>> /\ context_tokens = <<>> /\ produced = 0
  BY DEF Init
<1>3. ZeroMeansEmpty /\ OpShape /\ OpSync /\ PrefixSnapshotsExact /\ GenerationsExact
      /\ GuardImpliesContext
  BY <1>2 DEF ZeroMeansEmpty, OpShape, OpSync, PrefixSnapshotsExact, GenerationsExact,
              GuardImpliesContext
<1> QED
  BY <1>1, <1>3 DEF Inv

-----------------------------------------------------------------------------
(* What every step may rely on                                             *)

\* Only the key that is stored gets a new snapshot.
LEMMA StoreFacts ==
  ASSUME NEW key, NEW state, NEW c, Store(key, state, c)
  PROVE  \A k \in DOMAIN cache' :
           \/ k = key /\ cache'[k] = [kv |-> state, n_past |-> c]
           \/ k \in DOMAIN cache /\ cache'[k] = cache[k]
<1>1. PICK kept \in SUBSET (DOMAIN cache \ {key}) :
         cache' = [k \in kept \cup {key} |->
                     IF k = key THEN [kv |-> state, n_past |-> c] ELSE cache[k]]
  BY DEF Store
<1> QED
  BY <1>1

\* Snapshots after a step that stores one, or none.
LEMMA CacheKept ==
  ASSUME TypeOK, ZeroMeansEmpty, PrefixSnapshotsExact,
         NEW key, NEW state \in Seq(Tokens), NEW c \in Nat,
         c = 0 => state = <<>>,
         key[1] = 0 => state = key[2] /\ c = Len(key[2]),
         \A k \in DOMAIN cache' :
           \/ k = key /\ cache'[k] = [kv |-> state, n_past |-> c]
           \/ k \in DOMAIN cache /\ cache'[k] = cache[k]
  PROVE  /\ \A k \in DOMAIN cache' : cache'[k] \in Snapshot
         /\ \A k \in DOMAIN cache' : cache'[k].n_past = 0 => cache'[k].kv = <<>>
         /\ PrefixSnapshotsExact'
<1>0. /\ \A k \in DOMAIN cache : cache[k] \in Snapshot
      /\ \A k \in DOMAIN cache : cache[k].n_past = 0 => cache[k].kv = <<>>
      /\ \A k \in DOMAIN cache : k[1] = 0 => cache[k] = [kv |-> k[2], n_past |-> Len(k[2])]
  BY DEF TypeOK, ZeroMeansEmpty, PrefixSnapshotsExact
<1>1. [kv |-> state, n_past |-> c] \in Snapshot
  BY DEF Snapshot
<1>2. \A k \in DOMAIN cache' : cache'[k] \in Snapshot
  BY <1>0, <1>1
<1>3. \A k \in DOMAIN cache' : cache'[k].n_past = 0 => cache'[k].kv = <<>>
  BY <1>0
<1>4. \A k \in DOMAIN cache' : k[1] = 0 => cache'[k] = [kv |-> k[2], n_past |-> Len(k[2])]
  BY <1>0
<1> QED
  BY <1>2, <1>3, <1>4 DEF PrefixSnapshotsExact

\* Nothing is stored.
LEMMA CacheSame ==
  ASSUME TypeOK, ZeroMeansEmpty, PrefixSnapshotsExact,
         \A k \in DOMAIN cache' : k \in DOMAIN cache /\ cache'[k] = cache[k]
  PROVE  /\ \A k \in DOMAIN cache' : cache'[k] \in Snapshot
         /\ \A k \in DOMAIN cache' : cache'[k].n_past = 0 => cache'[k].kv = <<>>
         /\ PrefixSnapshotsExact'
BY DEF TypeOK, ZeroMeansEmpty, PrefixSnapshotsExact

\* The idle engine owes only what outlives an operation.
LEMMA IdleInv ==
  ASSUME TypeOK', ZeroMeansEmpty', op' = "idle", ~hot', produced' = 0, PrefixSnapshotsExact',
         GuardImpliesContext'
  PROVE  Inv'
BY DEF Inv, OpShape, OpSync, GenerationsExact

\* An operation that ran under engine_mutex in one step.
LEMMA IdleStep ==
  ASSUME Inv, op = "idle", UNCHANGED localVars, TypeOK', ZeroMeansEmpty', PrefixSnapshotsExact',
         GuardImpliesContext'
  PROVE  Inv'
<1>1. op' = "idle" /\ ~hot' /\ produced' = 0
  BY DEF Inv, OpShape, localVars
<1> QED
  BY <1>1, IdleInv

LEMMA Types ==
  ASSUME Inv
  PROVE  /\ hot \in BOOLEAN /\ has_cache \in BOOLEAN /\ in_doubt \in BOOLEAN
         /\ n_ctx \in Nat /\ MaxOps \in Nat /\ MaxSessions \in Nat /\ block_tokens \in Nat \ {0}
         /\ kv \in Seq(Tokens) /\ tokens \in Seq(Tokens) /\ context_tokens \in Seq(Tokens)
         /\ n_past \in Nat /\ ops \in 0..MaxOps
<1>1. hot \in BOOLEAN /\ has_cache \in BOOLEAN /\ in_doubt \in BOOLEAN
  BY Zenon DEF Inv, TypeOK
<1> QED
  BY <1>1, EngineAssumption DEF Inv, TypeOK

-----------------------------------------------------------------------------
(* Operations begin                                                        *)

LEMMA CacheLoseStep ==
  ASSUME Inv, CacheLose
  PROVE  Inv'
<1>0. TypeOK /\ ZeroMeansEmpty /\ PrefixSnapshotsExact /\ GuardImpliesContext
  BY DEF Inv
<1>1. /\ op = "idle" /\ ops < MaxOps /\ ops' = ops + 1
      /\ UNCHANGED <<backendVars, contextVars, sessionVars, localVars>>
      /\ \A k \in DOMAIN cache' : k \in DOMAIN cache /\ cache'[k] = cache[k]
  BY DEF CacheLose, Begin
<1>2. /\ \A k \in DOMAIN cache' : cache'[k] \in Snapshot
      /\ \A k \in DOMAIN cache' : cache'[k].n_past = 0 => cache'[k].kv = <<>>
      /\ PrefixSnapshotsExact'
  BY <1>0, <1>1, CacheSame
<1>3. TypeOK'
  <2>1. hot' \in BOOLEAN /\ has_cache' \in BOOLEAN /\ in_doubt' \in BOOLEAN
    BY <1>1, Types, Zenon DEF contextVars, sessionVars, localVars
  <2>2. ops' \in 0..MaxOps
    BY <1>1, Types
  <2> QED
    BY <1>0, <1>1, <1>2, <2>1, <2>2 DEF TypeOK, backendVars, contextVars, sessionVars, localVars
<1>4. ZeroMeansEmpty' /\ GuardImpliesContext'
  BY <1>0, <1>1, <1>2 DEF ZeroMeansEmpty, GuardImpliesContext, backendVars, contextVars, localVars
<1> QED
  BY <1>1, <1>2, <1>3, <1>4, IdleStep

LEMMA GenerateStep ==
  ASSUME Inv, NEW p \in Prompts, NEW m \in Budgets, Generate(p, m)
  PROVE  Inv'
<1>0. TypeOK /\ ZeroMeansEmpty /\ PrefixSnapshotsExact /\ GuardImpliesContext
  BY DEF Inv
<1>1. /\ op = "idle" /\ ops < MaxOps /\ ops' = ops + 1 /\ Len(p) \in 1..n_ctx
      /\ job' = "generate" /\ tokens' = p /\ budget' = m /\ produced' = 0
      /\ UNCHANGED <<backendVars, contextVars, cache, sessionVars, pos>>
  BY DEF Generate, Begin
<1>2. hot' = Estende(p)
  BY DEF Generate
<1>3. p \in Seq(Tokens) /\ m \in Nat /\ p # <<>>
  BY <1>1, EngineAssumption
<1>4. /\ op' \in {"tail", "restore", "decode"}
      /\ op' = "tail" => Estende(p)
      /\ op' # "tail" => ~Estende(p)
  BY DEF Generate
<1>5. TypeOK'
  <2>1. has_cache' \in BOOLEAN /\ in_doubt' \in BOOLEAN
    BY <1>1, Types, Zenon DEF contextVars, sessionVars
  <2>2. hot' \in BOOLEAN
    BY <1>2, Zenon DEF Estende
  <2>3. ops' \in 0..MaxOps /\ produced' \in 0..budget'
    BY <1>1, <1>3, Types
  <2> QED
    BY <1>0, <1>1, <1>3, <1>4, <2>1, <2>2, <2>3 DEF TypeOK, backendVars, contextVars, sessionVars
<1>6. ZeroMeansEmpty' /\ PrefixSnapshotsExact'
  BY <1>0, <1>1 DEF ZeroMeansEmpty, PrefixSnapshotsExact, backendVars
<1>7. OpShape'
  BY <1>1, <1>2, <1>3, <1>4 DEF OpShape
<1>8. OpSync'
  <2> SUFFICES ASSUME op' = "tail"
               PROVE  /\ hot' /\ n_past' = Len(context_tokens') /\ Len(tokens') > Len(context_tokens')
                      /\ IsPrefix(context_tokens', tokens')
                      /\ ~in_doubt' => kv' = context_tokens'
    BY <1>4 DEF OpSync
  <2>1. /\ n_past = Len(context_tokens) /\ Len(p) > Len(context_tokens)
        /\ IsPrefix(context_tokens, p)
    BY <1>4 DEF Estende
  <2>2. ~in_doubt => kv = context_tokens
    BY <1>0, <1>1, <2>1 DEF GuardImpliesContext
  <2>3. hot'
    BY <1>2, <1>4
  <2> QED
    BY <1>1, <2>1, <2>2, <2>3 DEF backendVars, contextVars
<1>9. GenerationsExact' /\ GuardImpliesContext'
  BY <1>4 DEF GenerationsExact, GuardImpliesContext
<1> QED
  BY <1>5, <1>6, <1>7, <1>8, <1>9 DEF Inv

LEMMA WarmStep ==
  ASSUME Inv, NEW p \in WarmPrompts, Warm(p)
  PROVE  Inv'
<1>0. TypeOK /\ ZeroMeansEmpty /\ PrefixSnapshotsExact /\ OpShape
  BY DEF Inv
<1>1. /\ op = "idle" /\ ops < MaxOps /\ ops' = ops + 1 /\ Len(p) \in 1..n_ctx
      /\ job' = "warm" /\ tokens' = p /\ op' = "restore"
      /\ UNCHANGED <<backendVars, contextVars, cache, sessionVars, hot, budget, produced, pos>>
  BY DEF Warm, Begin
<1>2. p \in Seq(Tokens) /\ p # <<>>
  BY <1>1, EngineAssumption
<1>3. TypeOK'
  <2>1. hot' \in BOOLEAN /\ has_cache' \in BOOLEAN /\ in_doubt' \in BOOLEAN
    BY <1>1, Types, Zenon DEF contextVars, sessionVars
  <2>2. ops' \in 0..MaxOps
    BY <1>1, Types
  <2> QED
    BY <1>0, <1>1, <1>2, <2>1, <2>2 DEF TypeOK, backendVars, contextVars, sessionVars
<1>4. ZeroMeansEmpty' /\ PrefixSnapshotsExact'
  BY <1>0, <1>1 DEF ZeroMeansEmpty, PrefixSnapshotsExact, backendVars
<1>5. OpShape' /\ OpSync' /\ GenerationsExact' /\ GuardImpliesContext'
  BY <1>0, <1>1, <1>2 DEF OpShape, OpSync, GenerationsExact, GuardImpliesContext
<1> QED
  BY <1>3, <1>4, <1>5 DEF Inv

-----------------------------------------------------------------------------
(* Sessions                                                                *)

\* The operations that touch neither the backend nor the context.
LEMMA SessionBooksStep ==
  ASSUME Inv, create_session \/ \E s \in 1..MaxSessions : delete_session(s)
  PROVE  Inv'
<1>0. TypeOK /\ ZeroMeansEmpty /\ PrefixSnapshotsExact /\ GuardImpliesContext
  BY DEF Inv
<1>1. /\ op = "idle" /\ ops < MaxOps /\ ops' = ops + 1
      /\ UNCHANGED <<backendVars, contextVars, has_cache, cache, localVars>>
  BY DEF create_session, delete_session, Begin
<1>2. /\ sessions' \in [1..MaxSessions -> [live : BOOLEAN, tokens : Seq(Tokens)]]
      /\ next_session_id' \in 1..(MaxSessions + 1)
  <2>0. /\ sessions \in [1..MaxSessions -> [live : BOOLEAN, tokens : Seq(Tokens)]]
        /\ next_session_id \in 1..(MaxSessions + 1) /\ MaxSessions \in Nat
        /\ <<>> \in Seq(Tokens)
    BY <1>0, Types DEF TypeOK
  <2>1. CASE create_session
    <3>1. /\ next_session_id' = next_session_id + 1 /\ next_session_id \in 1..MaxSessions
          /\ sessions' = [sessions EXCEPT ![next_session_id].live = TRUE]
      BY <2>0, <2>1 DEF create_session
    <3>2. [sessions[next_session_id] EXCEPT !.live = TRUE] \in [live : BOOLEAN, tokens : Seq(Tokens)]
      BY <2>0, <3>1
    <3>3. sessions' \in [1..MaxSessions -> [live : BOOLEAN, tokens : Seq(Tokens)]]
      BY <2>0, <3>1, <3>2
    <3>4. next_session_id' \in 1..(MaxSessions + 1)
      BY <2>0, <3>1
    <3> QED
      BY <3>3, <3>4
  <2>2. ASSUME NEW s \in 1..MaxSessions, delete_session(s)
        PROVE  /\ sessions' \in [1..MaxSessions -> [live : BOOLEAN, tokens : Seq(Tokens)]]
               /\ next_session_id' \in 1..(MaxSessions + 1)
    BY <2>0, <2>2 DEF delete_session
  <2> QED
    BY <2>1, <2>2
<1>3. TypeOK'
  <2>1. hot' \in BOOLEAN /\ has_cache' \in BOOLEAN /\ in_doubt' \in BOOLEAN
    BY <1>1, Types, Zenon DEF contextVars, localVars
  <2>2. ops' \in 0..MaxOps
    BY <1>1, Types
  <2> QED
    BY <1>0, <1>1, <1>2, <2>1, <2>2 DEF TypeOK, backendVars, contextVars, localVars
<1>4. ZeroMeansEmpty' /\ PrefixSnapshotsExact' /\ GuardImpliesContext'
  BY <1>0, <1>1 DEF ZeroMeansEmpty, PrefixSnapshotsExact, GuardImpliesContext, backendVars,
                    contextVars, localVars
<1> QED
  BY <1>1, <1>3, <1>4, IdleStep

\* A snapshot of a session is never taken for one of a prefix, and one that
\* is taken at all has a position counter above zero.
LEMMA SaveSessionStep ==
  ASSUME Inv, NEW s \in 1..MaxSessions, save_session(s)
  PROVE  Inv'
<1>0. TypeOK /\ ZeroMeansEmpty /\ PrefixSnapshotsExact /\ GuardImpliesContext
  BY DEF Inv
<1>1. /\ op = "idle" /\ ops < MaxOps /\ ops' = ops + 1
      /\ UNCHANGED <<backendVars, contextVars, has_cache, next_session_id, localVars>>
      /\ sessions' = [sessions EXCEPT ![s].tokens = context_tokens]
  BY DEF save_session, Begin
<1>2. kv \in Seq(Tokens) /\ context_tokens \in Seq(Tokens) /\ Len(context_tokens) \in Nat
      /\ MaxSessions \in Nat
  BY Types
<1>3. /\ \A k \in DOMAIN cache' : cache'[k] \in Snapshot
      /\ \A k \in DOMAIN cache' : cache'[k].n_past = 0 => cache'[k].kv = <<>>
      /\ PrefixSnapshotsExact'
  <2>1. CASE context_tokens # <<>> /\ Store(SessionKey(s, context_tokens), kv, Len(context_tokens))
    <3> DEFINE key == SessionKey(s, context_tokens)
    <3>1. key[1] # 0
      BY <1>2 DEF SessionKey
    <3>2. Len(context_tokens) # 0
      BY <1>2, <2>1
    <3>3. \A k \in DOMAIN cache' :
            \/ k = key /\ cache'[k] = [kv |-> kv, n_past |-> Len(context_tokens)]
            \/ k \in DOMAIN cache /\ cache'[k] = cache[k]
      BY <2>1, StoreFacts
    <3> HIDE DEF key
    <3> QED
      BY <1>0, <1>2, <3>1, <3>2, <3>3, CacheKept
  <2>2. CASE UNCHANGED cache
    BY <1>0, <2>2, CacheSame
  <2> QED
    BY <2>1, <2>2 DEF save_session
<1>4. TypeOK'
  <2>1. hot' \in BOOLEAN /\ has_cache' \in BOOLEAN /\ in_doubt' \in BOOLEAN
    BY <1>1, Types, Zenon DEF contextVars, localVars
  <2>2. ops' \in 0..MaxOps
    BY <1>1, Types
  <2>3. sessions' \in [1..MaxSessions -> [live : BOOLEAN, tokens : Seq(Tokens)]]
    BY <1>0, <1>1, <1>2 DEF TypeOK
  <2> QED
    BY <1>0, <1>1, <1>3, <2>1, <2>2, <2>3 DEF TypeOK, backendVars, contextVars, localVars
<1>5. ZeroMeansEmpty' /\ GuardImpliesContext'
  BY <1>0, <1>1, <1>3 DEF ZeroMeansEmpty, GuardImpliesContext, backendVars, contextVars, localVars
<1> QED
  BY <1>1, <1>3, <1>4, <1>5, IdleStep

LEMMA LoadSessionStep ==
  ASSUME Inv, NEW s \in 1..MaxSessions, load_session(s)
  PROVE  Inv'
<1>0. TypeOK /\ ZeroMeansEmpty /\ PrefixSnapshotsExact /\ GuardImpliesContext
  BY DEF Inv
<1> DEFINE saved == sessions[s].tokens
           key == SessionKey(s, saved)
<1>1. /\ op = "idle" /\ ops < MaxOps /\ ops' = ops + 1
      /\ UNCHANGED <<cache, sessionVars, localVars>>
      /\ context_tokens' = saved
      /\ \/ saved = <<>> /\ UNCHANGED backendVars
         \/ saved # <<>> /\ key \in DOMAIN cache /\ kv' = cache[key].kv /\ n_past' = cache[key].n_past
         \/ saved # <<>> /\ key \notin DOMAIN cache /\ kv' = saved /\ n_past' = Len(saved)
  BY DEF load_session, Begin
<1>2. in_doubt' = (saved # <<>> /\ key \in DOMAIN cache)
  BY DEF load_session
<1>3. saved \in Seq(Tokens) /\ Len(saved) \in Nat
  BY <1>0 DEF TypeOK
<1>4. key \in DOMAIN cache =>
        /\ cache[key].kv \in Seq(Tokens) /\ cache[key].n_past \in Nat
        /\ cache[key].n_past = 0 => cache[key].kv = <<>>
  BY <1>0 DEF TypeOK, Snapshot, ZeroMeansEmpty
<1> HIDE DEF saved, key
<1>5. TypeOK'
  <2>1. hot' \in BOOLEAN /\ has_cache' \in BOOLEAN
    BY <1>1, Types, Zenon DEF sessionVars, localVars
  <2>2. in_doubt' \in BOOLEAN
    BY <1>2, Zenon
  <2>3. ops' \in 0..MaxOps
    BY <1>1, Types
  <2>4. kv' \in Seq(Tokens) /\ n_past' \in Nat
    BY <1>1, <1>3, <1>4, Types DEF backendVars
  <2> QED
    BY <1>0, <1>1, <1>3, <2>1, <2>2, <2>3, <2>4 DEF TypeOK, sessionVars, localVars
<1>6. ZeroMeansEmpty'
  <2>1. saved # <<>> => Len(saved) # 0
    BY <1>3
  <2> QED
    BY <1>0, <1>1, <1>4, <2>1 DEF ZeroMeansEmpty, backendVars
<1>7. PrefixSnapshotsExact'
  BY <1>0, <1>1 DEF PrefixSnapshotsExact
<1>8. GuardImpliesContext'
  <2> SUFFICES ASSUME ~in_doubt', n_past' = Len(context_tokens') PROVE kv' = context_tokens'
    BY DEF GuardImpliesContext
  <2>1. CASE saved = <<>>
    <3>1. n_past = 0 /\ kv' = kv
      BY <1>1, <2>1 DEF backendVars
    <3> QED
      BY <1>0, <1>1, <2>1, <3>1 DEF ZeroMeansEmpty
  <2>2. CASE saved # <<>>
    BY <1>1, <1>2, <2>2
  <2> QED
    BY <2>1, <2>2
<1> QED
  BY <1>1, <1>5, <1>6, <1>7, <1>8, IdleStep

LEMMA LoadSessionThrowsStep ==
  ASSUME Inv, NEW s \in 1..MaxSessions, load_sessionThrows(s)
  PROVE  Inv'
<1>0. TypeOK /\ ZeroMeansEmpty /\ PrefixSnapshotsExact
  BY DEF Inv
<1>1. /\ op = "idle" /\ ops < MaxOps /\ ops' = ops + 1 /\ kv' = <<>> /\ n_past' = 0
      /\ UNCHANGED <<contextVars, cache, sessionVars, localVars>>
  BY DEF load_sessionThrows, Begin
<1>2. TypeOK'
  <2>1. hot' \in BOOLEAN /\ has_cache' \in BOOLEAN /\ in_doubt' \in BOOLEAN
    BY <1>1, Types, Zenon DEF contextVars, sessionVars, localVars
  <2>2. ops' \in 0..MaxOps /\ kv' \in Seq(Tokens)
    BY <1>1, Types
  <2> QED
    BY <1>0, <1>1, <2>1, <2>2 DEF TypeOK, contextVars, sessionVars, localVars
<1>3. ZeroMeansEmpty' /\ PrefixSnapshotsExact'
  BY <1>0, <1>1 DEF ZeroMeansEmpty, PrefixSnapshotsExact
<1>4. GuardImpliesContext'
  <2>1. context_tokens' = context_tokens /\ context_tokens \in Seq(Tokens)
    BY <1>1, Types DEF contextVars
  <2>2. Len(context_tokens) = 0 => context_tokens = <<>>
    BY <2>1
  <2> QED
    BY <1>1, <2>1, <2>2 DEF GuardImpliesContext
<1> QED
  BY <1>1, <1>2, <1>3, <1>4, IdleStep

-----------------------------------------------------------------------------
(* On the way to the loop                                                  *)

LEMMA DecodeTailStep ==
  ASSUME Inv, DecodeTail
  PROVE  Inv'
<1>0. TypeOK /\ ZeroMeansEmpty /\ PrefixSnapshotsExact /\ OpShape
  BY DEF Inv
<1> DEFINE tail == SubSeq(tokens, Len(context_tokens) + 1, Len(tokens))
<1>1. /\ op = "tail" /\ op' = "loop" /\ kv' = kv \o tail /\ n_past' = n_past + Len(tail)
      /\ UNCHANGED <<contextVars, cache, sessionVars, requestVars, tokens, produced, pos, ops>>
  BY DEF DecodeTail
<1>2. /\ hot /\ n_past = Len(context_tokens) /\ Len(tokens) > Len(context_tokens)
      /\ IsPrefix(context_tokens, tokens)
      /\ ~in_doubt => kv = context_tokens
  BY <1>1 DEF Inv, OpSync
<1>3. /\ kv \in Seq(Tokens) /\ tokens \in Seq(Tokens) /\ context_tokens \in Seq(Tokens)
      /\ Len(tokens) \in Nat /\ Len(context_tokens) \in Nat /\ n_past \in Nat
  BY Types
<1>4. tail \in Seq(Tokens) /\ Len(tail) = Len(tokens) - Len(context_tokens)
  <2>1. PICK m \in 1..(Len(tokens) + 1) : m = Len(context_tokens) + 1
    <3>1. Len(context_tokens) + 1 \in 1..(Len(tokens) + 1)
      BY <1>2, <1>3
    <3> QED
      BY <3>1
  <2>2. Len(tokens) \in (m - 1)..Len(tokens)
    BY <1>2, <1>3, <2>1
  <2>3. /\ SubSeq(tokens, m, Len(tokens)) \in Seq(Tokens)
        /\ Len(SubSeq(tokens, m, Len(tokens))) = Len(tokens) - m + 1
    BY <1>3, <2>2, MiddleFacts
  <2> QED
    BY <1>3, <2>1, <2>3
<1>5. ~in_doubt => kv \o tail = tokens
  <2>1. Len(tokens) \in Len(context_tokens)..Len(tokens)
    BY <1>2, <1>3
  <2>2. context_tokens \o tail = SubSeq(tokens, 1, Len(tokens))
    BY <1>2, <1>3, <2>1, ExtendPrefix
  <2>3. SubSeq(tokens, 1, Len(tokens)) = tokens
    BY <1>3, WholePrefix
  <2> QED
    BY <1>2, <2>2, <2>3
<1> HIDE DEF tail
<1>6. kv' \in Seq(Tokens) /\ n_past' \in Nat /\ n_past' = Len(tokens) /\ n_past' # 0
  <2>1. tail \in Seq(Tokens)
    BY <1>4
  <2>2. kv \o tail \in Seq(Tokens)
    BY <1>3, <2>1, ConcatFacts
  <2> QED
    BY <1>1, <1>2, <1>3, <1>4, <2>2
<1>7. TypeOK'
  <2>1. hot' \in BOOLEAN /\ has_cache' \in BOOLEAN /\ in_doubt' \in BOOLEAN
    BY <1>1, Types, Zenon DEF contextVars, sessionVars, requestVars
  <2> QED
    BY <1>0, <1>1, <1>6, <2>1 DEF TypeOK, contextVars, sessionVars, requestVars
<1>8. ZeroMeansEmpty' /\ PrefixSnapshotsExact'
  BY <1>0, <1>1, <1>6 DEF ZeroMeansEmpty, PrefixSnapshotsExact
<1>9. OpShape' /\ OpSync' /\ GuardImpliesContext'
  BY <1>0, <1>1 DEF OpShape, OpSync, GuardImpliesContext, requestVars
<1>10. GenerationsExact'
  BY <1>1, <1>2, <1>5, <1>6 DEF GenerationsExact, contextVars, requestVars
<1> QED
  BY <1>7, <1>8, <1>9, <1>10 DEF Inv

LEMMA DecodeFreshStep ==
  ASSUME Inv, DecodeFresh
  PROVE  Inv'
<1>0. TypeOK /\ ZeroMeansEmpty /\ PrefixSnapshotsExact /\ OpShape
  BY DEF Inv
<1>1. /\ op = "decode" /\ op' = "loop" /\ kv' = tokens /\ n_past' = Len(tokens)
      /\ UNCHANGED <<contextVars, cache, sessionVars, requestVars, tokens, produced, pos, ops>>
  BY DEF DecodeFresh
<1>2. tokens \in Seq(Tokens) /\ tokens # <<>> /\ Len(tokens) \in Nat /\ Len(tokens) # 0
  BY <1>0, <1>1, Types DEF OpShape
<1>3. TypeOK'
  <2>1. hot' \in BOOLEAN /\ has_cache' \in BOOLEAN /\ in_doubt' \in BOOLEAN
    BY <1>1, Types, Zenon DEF contextVars, sessionVars, requestVars
  <2> QED
    BY <1>0, <1>1, <1>2, <2>1 DEF TypeOK, contextVars, sessionVars, requestVars
<1>4. ZeroMeansEmpty' /\ PrefixSnapshotsExact'
  BY <1>0, <1>1, <1>2 DEF ZeroMeansEmpty, PrefixSnapshotsExact
<1>5. OpShape' /\ OpSync' /\ GuardImpliesContext' /\ GenerationsExact'
  BY <1>0, <1>1 DEF OpShape, OpSync, GuardImpliesContext, GenerationsExact, requestVars
<1> QED
  BY <1>3, <1>4, <1>5 DEF Inv

\* What prefill() is called with fits the context.
LEMMA PrefixTyped ==
  ASSUME Inv, op # "idle"
  PROVE  /\ Prefix \in Seq(Tokens) /\ Len(Prefix) \in Nat /\ Len(Prefix) <= n_ctx
         /\ job = "generate" => Prefix = Front(tokens) /\ Len(Prefix) = Len(tokens) - 1
<1>1. tokens \in Seq(Tokens) /\ tokens # <<>> /\ Len(tokens) <= n_ctx /\ n_ctx \in Nat
      /\ Len(tokens) \in Nat
  BY Types DEF Inv, OpShape
<1>2. Front(tokens) \in Seq(Tokens) /\ Len(Front(tokens)) = Len(tokens) - 1 /\ Len(tokens) >= 1
  BY <1>1, FrontFacts
<1> QED
  BY <1>1, <1>2 DEF Prefix

LEMMA RestoreStep ==
  ASSUME Inv, Restore
  PROVE  Inv'
<1>0. TypeOK /\ ZeroMeansEmpty /\ PrefixSnapshotsExact /\ OpShape
  BY DEF Inv
<1>1. /\ op = "restore" /\ op' = "blocks"
      /\ UNCHANGED <<contextVars, cache, sessionVars, requestVars, tokens, produced, ops>>
  BY DEF Restore
<1>2. Prefix \in Seq(Tokens) /\ Len(Prefix) \in Nat /\ Len(Prefix) <= n_ctx /\ n_ctx \in Nat
  BY <1>1, PrefixTyped, Types
<1>3. pos' \in 0..Len(Prefix) /\ n_past' = pos' /\ kv' = SubSeq(Prefix, 1, pos')
  <2>1. CASE Cached # {}
    <3> DEFINE b == CHOOSE x \in Cached : \A y \in Cached : y <= x
               key == PrefixKey(SubSeq(Prefix, 1, b))
    <3>1. kv' = cache[key].kv /\ n_past' = cache[key].n_past /\ pos' = b
      BY <2>1 DEF Restore
    <3>2. b \in Cached
      <4>1. Cached \in SUBSET (0..Len(Prefix))
        BY <1>2 DEF Cached, Boundaries
      <4>2. \E x \in Cached : \A y \in Cached : y <= x
        BY <1>2, <2>1, <4>1, GreatestExists
      <4> QED
        BY <4>2
    <3> HIDE DEF b
    <3>3. b \in 0..Len(Prefix) /\ key \in DOMAIN cache
      BY <1>2, <3>2 DEF Cached, Boundaries
    <3>4. SubSeq(Prefix, 1, b) \in Seq(Tokens) /\ Len(SubSeq(Prefix, 1, b)) = b
      BY <1>2, <3>3, SubSeqFacts
    <3>5. key[1] = 0 /\ key[2] = SubSeq(Prefix, 1, b)
      BY DEF PrefixKey
    <3> HIDE DEF key
    <3>6. cache[key] = [kv |-> key[2], n_past |-> Len(key[2])]
      BY <1>0, <3>3, <3>5 DEF PrefixSnapshotsExact
    <3> QED
      BY <3>1, <3>3, <3>4, <3>5, <3>6
  <2>2. CASE Cached = {}
    <3>1. kv' = <<>> /\ n_past' = 0 /\ pos' = 0
      BY <2>2 DEF Restore
    <3>2. SubSeq(Prefix, 1, 0) = <<>>
      BY SubSeqEmpty
    <3> QED
      BY <1>2, <3>1, <3>2
  <2> QED
    BY <2>1, <2>2
<1>4. /\ kv' \in Seq(Tokens) /\ n_past' \in Nat /\ pos' \in 0..n_ctx
      /\ n_past' = 0 => kv' = <<>>
  <2> DEFINE q == SubSeq(Prefix, 1, pos')
  <2>1. q \in Seq(Tokens) /\ Len(q) = pos'
    BY <1>2, <1>3, SubSeqFacts
  <2>2. kv' = q
    BY <1>3
  <2> HIDE DEF q
  <2>3. n_past' \in Nat /\ pos' \in 0..n_ctx
    BY <1>2, <1>3
  <2>4. n_past' = 0 => q = <<>>
    BY <1>3, <2>1
  <2> QED
    BY <2>1, <2>2, <2>3, <2>4
<1>5. Prefix' = Prefix
  BY <1>1 DEF Prefix, requestVars
<1>6. TypeOK'
  <2>1. hot' \in BOOLEAN /\ has_cache' \in BOOLEAN /\ in_doubt' \in BOOLEAN
    BY <1>1, Types, Zenon DEF contextVars, sessionVars, requestVars
  <2> QED
    BY <1>0, <1>1, <1>4, <2>1 DEF TypeOK, contextVars, sessionVars, requestVars
<1>7. ZeroMeansEmpty' /\ PrefixSnapshotsExact'
  BY <1>0, <1>1, <1>4 DEF ZeroMeansEmpty, PrefixSnapshotsExact
<1>8. OpShape' /\ GuardImpliesContext' /\ GenerationsExact'
  BY <1>0, <1>1 DEF OpShape, GuardImpliesContext, GenerationsExact, requestVars
<1>9. OpSync'
  BY <1>1, <1>3, <1>5 DEF OpSync
<1> QED
  BY <1>6, <1>7, <1>8, <1>9 DEF Inv

\* The next boundary lies behind the position and inside the prefix.
LEMMA NextBoundaryFacts ==
  ASSUME Inv, op = "blocks", pos < Len(Prefix)
  PROVE  NextBoundary \in (pos + 1)..Len(Prefix)
<1>1. Len(Prefix) \in Nat /\ pos \in Nat
  BY PrefixTyped DEF Inv, TypeOK
<1> DEFINE T == {b \in Boundaries(Len(Prefix)) : b > pos}
<1>2. T \in SUBSET Nat /\ Len(Prefix) \in T
  BY <1>1 DEF Boundaries
<1>3. T # {}
  BY <1>2
<1>4. PICK x \in T : \A y \in T : x <= y
  <2> HIDE DEF T
  <2> QED
    BY <1>2, <1>3, SmallestExists
<1>5. \E b \in Boundaries(Len(Prefix)) :
         b > pos /\ \A c \in Boundaries(Len(Prefix)) : c > pos => b <= c
  BY <1>4
<1>6. NextBoundary \in Boundaries(Len(Prefix)) /\ NextBoundary > pos
  BY <1>5 DEF NextBoundary
<1> QED
  BY <1>1, <1>6 DEF Boundaries

LEMMA PrefillBlockStep ==
  ASSUME Inv, PrefillBlock
  PROVE  Inv'
<1>0. TypeOK /\ ZeroMeansEmpty /\ PrefixSnapshotsExact /\ OpShape
  BY DEF Inv
<1> DEFINE b == NextBoundary
           key == PrefixKey(SubSeq(Prefix, 1, b))
<1>1. /\ op = "blocks" /\ op' = "blocks" /\ pos < Len(Prefix)
      /\ kv' = kv \o SubSeq(Prefix, pos + 1, b) /\ n_past' = n_past + (b - pos)
      /\ Store(key, kv', b) /\ pos' = b
      /\ UNCHANGED <<contextVars, sessionVars, requestVars, tokens, produced, ops>>
  BY DEF PrefillBlock
<1>2. Prefix \in Seq(Tokens) /\ Len(Prefix) \in Nat /\ Len(Prefix) <= n_ctx /\ n_ctx \in Nat
  BY <1>1, PrefixTyped, Types
<1>3. b \in (pos + 1)..Len(Prefix)
  BY <1>1, NextBoundaryFacts
<1>4. pos \in 0..Len(Prefix) /\ n_past = pos /\ kv = SubSeq(Prefix, 1, pos)
  BY <1>1 DEF Inv, OpSync
<1> HIDE DEF b
<1>5. b \in 1..Len(Prefix) /\ b \in 0..Len(Prefix) /\ b \in pos..Len(Prefix)
  BY <1>2, <1>3, <1>4
<1>6. kv' = SubSeq(Prefix, 1, b) /\ n_past' = b
  <2>1. SubSeq(Prefix, 1, pos) \o SubSeq(Prefix, pos + 1, b) = SubSeq(Prefix, 1, b)
    BY <1>2, <1>4, <1>5, ExtendBlock
  <2> QED
    BY <1>1, <1>2, <1>4, <1>5, <2>1
<1>7. SubSeq(Prefix, 1, b) \in Seq(Tokens) /\ Len(SubSeq(Prefix, 1, b)) = b
  BY <1>2, <1>5, SubSeqFacts
<1>8. key[1] = 0 /\ key[2] = SubSeq(Prefix, 1, b)
  BY DEF PrefixKey
<1>9. \A k \in DOMAIN cache' :
        \/ k = key /\ cache'[k] = [kv |-> kv', n_past |-> b]
        \/ k \in DOMAIN cache /\ cache'[k] = cache[k]
  <2>1. PICK st : st = kv'
    OBVIOUS
  <2>2. Store(key, st, b)
    BY <1>1, <2>1
  <2> HIDE DEF key
  <2>3. \A k \in DOMAIN cache' :
          \/ k = key /\ cache'[k] = [kv |-> st, n_past |-> b]
          \/ k \in DOMAIN cache /\ cache'[k] = cache[k]
    BY <2>2, StoreFacts
  <2> QED
    BY <2>1, <2>3
<1> HIDE DEF key
<1>10. /\ \A k \in DOMAIN cache' : cache'[k] \in Snapshot
       /\ \A k \in DOMAIN cache' : cache'[k].n_past = 0 => cache'[k].kv = <<>>
       /\ PrefixSnapshotsExact'
  <2> DEFINE st == kv'
  <2>1. /\ st \in Seq(Tokens) /\ b \in Nat /\ (b = 0 => st = <<>>)
        /\ key[1] = 0 => st = key[2] /\ b = Len(key[2])
    BY <1>2, <1>5, <1>6, <1>7, <1>8
  <2>2. \A k \in DOMAIN cache' :
          \/ k = key /\ cache'[k] = [kv |-> st, n_past |-> b]
          \/ k \in DOMAIN cache /\ cache'[k] = cache[k]
    BY <1>9
  <2> HIDE DEF st
  <2> QED
    BY <1>0, <2>1, <2>2, CacheKept
<1>11. Prefix' = Prefix
  BY <1>1 DEF Prefix, requestVars
<1>12. kv' \in Seq(Tokens) /\ n_past' \in Nat /\ pos' \in 0..n_ctx /\ n_past' # 0
  <2>1. kv' \in Seq(Tokens)
    BY <1>6, <1>7
  <2>2. n_past' \in Nat /\ pos' \in 0..n_ctx /\ n_past' # 0
    BY <1>1, <1>2, <1>5, <1>6
  <2> QED
    BY <2>1, <2>2
<1>13. TypeOK'
  <2>1. hot' \in BOOLEAN /\ has_cache' \in BOOLEAN /\ in_doubt' \in BOOLEAN
    BY <1>1, Types, Zenon DEF contextVars, sessionVars, requestVars
  <2> QED
    BY <1>0, <1>1, <1>10, <1>12, <2>1 DEF TypeOK, contextVars, sessionVars, requestVars
<1>14. ZeroMeansEmpty'
  BY <1>10, <1>12 DEF ZeroMeansEmpty
<1>15. OpShape' /\ GuardImpliesContext' /\ GenerationsExact'
  BY <1>0, <1>1 DEF OpShape, GuardImpliesContext, GenerationsExact, requestVars
<1>16. OpSync'
  BY <1>1, <1>5, <1>6, <1>11 DEF OpSync
<1> QED
  BY <1>10, <1>13, <1>14, <1>15, <1>16 DEF Inv

\* The locals of an operation that is over.
LEMMA ReturnTypes ==
  ASSUME Return
  PROVE  /\ op' = "idle" /\ ~hot' /\ produced' = 0 /\ hot' \in BOOLEAN /\ job' = "generate"
         /\ tokens' \in Seq(Tokens) /\ budget' = 0 /\ produced' \in 0..budget' /\ pos' \in 0..n_ctx
<1>1. hot' \in BOOLEAN /\ ~hot'
  BY Zenon DEF Return
<1>2. tokens' \in Seq(Tokens)
  BY DEF Return
<1>3. n_ctx \in Nat
  BY EngineAssumption
<1> QED
  BY <1>1, <1>2, <1>3 DEF Return

LEMMA PrefillDoneStep ==
  ASSUME Inv, PrefillDone
  PROVE  Inv'
<1>0. TypeOK /\ ZeroMeansEmpty /\ PrefixSnapshotsExact /\ OpShape
  BY DEF Inv
<1>1. /\ op = "blocks" /\ pos = Len(Prefix)
      /\ UNCHANGED <<backendVars, context_tokens, cache, sessionVars, ops>>
  BY DEF PrefillDone
<1>2. ZeroMeansEmpty' /\ PrefixSnapshotsExact'
  BY <1>0, <1>1 DEF ZeroMeansEmpty, PrefixSnapshotsExact, backendVars
<1>3. CASE job = "warm"
  <2>1. Return
    BY <1>3 DEF PrefillDone
  <2>2. in_doubt' = TRUE
    BY <1>3 DEF PrefillDone
  <2>3. /\ op' = "idle" /\ ~hot' /\ produced' = 0 /\ hot' \in BOOLEAN /\ job' = "generate"
        /\ tokens' \in Seq(Tokens) /\ budget' = 0 /\ produced' \in 0..budget' /\ pos' \in 0..n_ctx
    BY <2>1, ReturnTypes
  <2>4. TypeOK'
    <3>1. has_cache' \in BOOLEAN /\ in_doubt' \in BOOLEAN
      BY <1>1, <2>2, Types, Zenon DEF sessionVars
    <3> QED
      BY <1>0, <1>1, <2>3, <3>1 DEF TypeOK, backendVars, sessionVars
  <2>5. GuardImpliesContext'
    BY <2>2 DEF GuardImpliesContext
  <2> QED
    BY <1>2, <2>3, <2>4, <2>5, IdleInv
<1>4. CASE job # "warm"
  <2>1. op' = "last" /\ UNCHANGED <<in_doubt, requestVars, tokens, produced, pos>>
    BY <1>4 DEF PrefillDone
  <2>2. job = "generate"
    BY <1>0, <1>4 DEF TypeOK
  <2>3. /\ Prefix \in Seq(Tokens) /\ Len(Prefix) \in Nat
        /\ Prefix = Front(tokens) /\ Len(Prefix) = Len(tokens) - 1
    BY <1>1, <2>2, PrefixTyped
  <2>4. n_past = pos /\ kv = SubSeq(Prefix, 1, pos)
    BY <1>1 DEF Inv, OpSync
  <2>5. SubSeq(Prefix, 1, Len(Prefix)) = Prefix
    BY <2>3, WholePrefix
  <2>6. n_past' = Len(tokens') - 1 /\ kv' = Front(tokens')
    BY <1>1, <2>1, <2>3, <2>4, <2>5 DEF backendVars
  <2>7. TypeOK'
    <3>1. hot' \in BOOLEAN /\ has_cache' \in BOOLEAN /\ in_doubt' \in BOOLEAN
      BY <1>1, <2>1, Types, Zenon DEF sessionVars, requestVars
    <3> QED
      BY <1>0, <1>1, <2>1, <3>1 DEF TypeOK, backendVars, sessionVars, requestVars
  <2>8. OpShape' /\ GuardImpliesContext' /\ GenerationsExact'
    BY <1>0, <1>1, <2>1, <2>2 DEF OpShape, GuardImpliesContext, GenerationsExact, requestVars
  <2>9. OpSync'
    BY <2>1, <2>6 DEF OpSync
  <2> QED
    BY <1>2, <2>7, <2>8, <2>9 DEF Inv
<1> QED
  BY <1>3, <1>4

\* Feeding the last token to a backend that lacks only that one.
LEMMA FedFacts ==
  ASSUME Inv, op # "idle", kv' = Append(kv, Last(tokens)), n_past' = n_past + 1
  PROVE  /\ kv' \in Seq(Tokens) /\ n_past' \in Nat /\ n_past' # 0
         /\ n_past = Len(tokens) - 1 /\ kv = Front(tokens) => kv' = tokens /\ n_past' = Len(tokens)
<1>1. /\ kv \in Seq(Tokens) /\ tokens \in Seq(Tokens) /\ tokens # <<>> /\ n_past \in Nat
      /\ Len(tokens) \in Nat
  BY Types DEF Inv, OpShape
<1>2. Last(tokens) \in Tokens
  BY <1>1, FrontFacts
<1>3. Append(kv, Last(tokens)) \in Seq(Tokens)
  BY <1>1, <1>2, AppendFacts
<1>4. Append(Front(tokens), Last(tokens)) = tokens
  BY <1>1, FrontLast
<1>5. n_past' \in Nat /\ n_past' # 0 /\ (n_past = Len(tokens) - 1 => n_past' = Len(tokens))
  BY <1>1
<1> QED
  BY <1>3, <1>4, <1>5

LEMMA FeedStep ==
  ASSUME Inv, DecodeLast \/ LoopFeed
  PROVE  Inv'
<1>0. TypeOK /\ ZeroMeansEmpty /\ PrefixSnapshotsExact /\ OpShape
  BY DEF Inv
<1>1. /\ op \in {"last", "feed"} /\ op' = "loop"
      /\ kv' = Append(kv, Last(tokens)) /\ n_past' = n_past + 1
      /\ UNCHANGED <<contextVars, cache, sessionVars, requestVars, tokens, pos, ops>>
      /\ \/ produced' = produced
         \/ op = "feed" /\ produced' = produced + 1
  BY DEF DecodeLast, LoopFeed
<1>2. /\ kv' \in Seq(Tokens) /\ n_past' \in Nat /\ n_past' # 0
      /\ n_past = Len(tokens) - 1 /\ kv = Front(tokens) => kv' = tokens /\ n_past' = Len(tokens)
  BY <1>1, FedFacts
<1>3. \/ n_past = Len(tokens) - 1 /\ kv = Front(tokens)
      \/ hot /\ in_doubt
  BY <1>1 DEF Inv, OpSync
<1>4. TypeOK'
  <2>1. hot' \in BOOLEAN /\ has_cache' \in BOOLEAN /\ in_doubt' \in BOOLEAN
    BY <1>1, Types, Zenon DEF contextVars, sessionVars, requestVars
  <2>2. produced' \in 0..budget'
    <3>1. produced \in 0..budget /\ budget \in Nat
      BY <1>0, EngineAssumption DEF TypeOK
    <3>2. op = "feed" => produced < budget
      BY <1>0 DEF OpShape
    <3> QED
      BY <1>1, <3>1, <3>2 DEF requestVars
  <2> QED
    BY <1>0, <1>1, <1>2, <2>1, <2>2 DEF TypeOK, contextVars, sessionVars, requestVars
<1>5. ZeroMeansEmpty' /\ PrefixSnapshotsExact'
  BY <1>0, <1>1, <1>2 DEF ZeroMeansEmpty, PrefixSnapshotsExact
<1>6. OpShape' /\ OpSync' /\ GuardImpliesContext'
  BY <1>0, <1>1 DEF OpShape, OpSync, GuardImpliesContext, requestVars
<1>7. GenerationsExact'
  BY <1>1, <1>2, <1>3 DEF GenerationsExact, contextVars, requestVars
<1> QED
  BY <1>4, <1>5, <1>6, <1>7 DEF Inv

-----------------------------------------------------------------------------
(* The generation loop                                                     *)

\* Handing over the tokens of the loop, or one more that the backend lacks.
LEMMA HandOverStep ==
  ASSUME Inv, op = "loop", NEW t \in Seq(Tokens),
         t = tokens \/ Len(t) = Len(tokens) + 1,
         HandOver(t), UNCHANGED <<backendVars, cache, sessionVars, ops>>
  PROVE  Inv'
<1>0. TypeOK /\ ZeroMeansEmpty /\ PrefixSnapshotsExact /\ GenerationsExact
  BY DEF Inv
<1>1. context_tokens' = t /\ Return
  BY DEF HandOver
<1>2. in_doubt' = (in_doubt /\ hot)
  BY DEF HandOver
<1>3. /\ op' = "idle" /\ ~hot' /\ produced' = 0 /\ hot' \in BOOLEAN /\ job' = "generate"
      /\ tokens' \in Seq(Tokens) /\ budget' = 0 /\ produced' \in 0..budget' /\ pos' \in 0..n_ctx
  BY <1>1, ReturnTypes
<1>4. TypeOK'
  <2>1. has_cache' \in BOOLEAN /\ in_doubt' \in BOOLEAN
    BY <1>2, Types, Zenon DEF sessionVars
  <2> QED
    BY <1>0, <1>1, <1>3, <2>1 DEF TypeOK, backendVars, sessionVars
<1>5. ZeroMeansEmpty' /\ PrefixSnapshotsExact'
  BY <1>0 DEF ZeroMeansEmpty, PrefixSnapshotsExact, backendVars
<1>6. GuardImpliesContext'
  <2> SUFFICES ASSUME ~in_doubt', n_past' = Len(context_tokens') PROVE kv' = context_tokens'
    BY DEF GuardImpliesContext
  <2>1. kv = tokens /\ n_past = Len(tokens)
    BY <1>0, <1>2 DEF GenerationsExact
  <2>2. n_past = Len(t)
    BY <1>1 DEF backendVars
  <2>3. Len(tokens) \in Nat
    BY Types
  <2>4. Len(t) # Len(tokens) + 1
    BY ONLY <2>1, <2>2, <2>3
  <2> QED
    BY <1>1, <2>1, <2>4 DEF backendVars
<1> QED
  BY <1>3, <1>4, <1>5, <1>6, IdleInv

LEMMA LoopEndStep ==
  ASSUME Inv, LoopEnd
  PROVE  Inv'
BY Types, HandOverStep DEF LoopEnd

LEMMA LoopTokenStep ==
  ASSUME Inv, NEW t \in Tokens, LoopToken(t)
  PROVE  Inv'
<1>0. TypeOK /\ ZeroMeansEmpty /\ PrefixSnapshotsExact /\ OpShape /\ GenerationsExact
  BY DEF Inv
<1> DEFINE longer == Append(tokens, t)
           over == Len(longer) >= n_ctx \/ produced + 1 >= budget
<1>1. /\ op = "loop" /\ produced < budget /\ UNCHANGED <<backendVars, cache, sessionVars, ops>>
      /\ over => HandOver(longer)
      /\ ~over => /\ tokens' = longer /\ op' = "feed"
                  /\ UNCHANGED <<contextVars, requestVars, produced, pos>>
  BY DEF LoopToken
<1>2. tokens \in Seq(Tokens) /\ Len(tokens) \in Nat /\ n_ctx \in Nat
  BY Types
<1>3. /\ longer \in Seq(Tokens) /\ Len(longer) = Len(tokens) + 1 /\ longer # <<>>
      /\ Front(longer) = tokens
  BY <1>2, AppendFacts, FrontAppend
<1>4. ~over => Len(longer) <= n_ctx
  BY <1>2, <1>3
<1> HIDE DEF longer, over
<1>5. CASE over
  BY <1>1, <1>3, <1>5, HandOverStep
<1>6. CASE ~over
  <2>1. /\ tokens' = longer /\ op' = "feed"
        /\ UNCHANGED <<contextVars, requestVars, produced, pos>>
    BY <1>1, <1>6
  <2>2. TypeOK'
    <3>1. hot' \in BOOLEAN /\ has_cache' \in BOOLEAN /\ in_doubt' \in BOOLEAN
      BY <1>1, <2>1, Types, Zenon DEF contextVars, sessionVars, requestVars
    <3> QED
      BY <1>0, <1>1, <1>3, <2>1, <3>1 DEF TypeOK, backendVars, contextVars, sessionVars, requestVars
  <2>3. ZeroMeansEmpty' /\ PrefixSnapshotsExact'
    BY <1>0, <1>1 DEF ZeroMeansEmpty, PrefixSnapshotsExact, backendVars
  <2>4. OpShape'
    <3>1. job' = "generate"
      BY <1>0, <1>1, <2>1 DEF OpShape, requestVars
    <3>2. produced' < budget'
      BY <1>1, <2>1 DEF requestVars
    <3>3. tokens' # <<>> /\ Len(tokens') <= n_ctx
      BY <1>3, <1>4, <1>6, <2>1
    <3> QED
      BY <2>1, <3>1, <3>2, <3>3 DEF OpShape
  <2>5. OpSync'
    <3>1. \/ n_past' = Len(tokens') - 1 /\ kv' = Front(tokens')
          \/ hot' /\ in_doubt'
      <4>1. CASE kv = tokens /\ n_past = Len(tokens)
        BY <1>1, <1>2, <1>3, <2>1, <4>1 DEF backendVars
      <4>2. CASE hot /\ in_doubt
        BY <2>1, <4>2 DEF contextVars, requestVars
      <4> QED
        BY <1>0, <1>1, <4>1, <4>2 DEF GenerationsExact
    <3> QED
      BY <2>1, <3>1 DEF OpSync
  <2>6. GuardImpliesContext' /\ GenerationsExact'
    BY <2>1 DEF GuardImpliesContext, GenerationsExact
  <2> QED
    BY <2>2, <2>3, <2>4, <2>5, <2>6 DEF Inv
<1> QED
  BY <1>5, <1>6

LEMMA AbortStep ==
  ASSUME Inv, Abort
  PROVE  Inv'
<1>0. TypeOK /\ ZeroMeansEmpty /\ PrefixSnapshotsExact
  BY DEF Inv
<1>1. /\ Return /\ UNCHANGED <<context_tokens, cache, sessionVars, ops>>
      /\ \/ kv' = <<>> /\ n_past' = 0
         \/ UNCHANGED backendVars
  BY DEF Abort
<1>2. in_doubt' = TRUE
  BY DEF Abort
<1>3. /\ op' = "idle" /\ ~hot' /\ produced' = 0 /\ hot' \in BOOLEAN /\ job' = "generate"
      /\ tokens' \in Seq(Tokens) /\ budget' = 0 /\ produced' \in 0..budget' /\ pos' \in 0..n_ctx
  BY <1>1, ReturnTypes
<1>4. TypeOK'
  <2>1. has_cache' \in BOOLEAN /\ in_doubt' \in BOOLEAN
    BY <1>1, <1>2, Types, Zenon DEF sessionVars
  <2>2. <<>> \in Seq(Tokens)
    OBVIOUS
  <2>3. kv' \in Seq(Tokens) /\ n_past' \in Nat
    <3>1. kv \in Seq(Tokens) /\ n_past \in Nat
      BY Types
    <3>2. CASE kv' = <<>> /\ n_past' = 0
      BY <2>2, <3>2
    <3>3. CASE UNCHANGED backendVars
      BY <3>1, <3>3 DEF backendVars
    <3> QED
      BY <1>1, <3>2, <3>3
  <2> QED
    BY <1>0, <1>1, <1>3, <2>1, <2>3 DEF TypeOK, sessionVars
<1>5. ZeroMeansEmpty' /\ PrefixSnapshotsExact'
  BY <1>0, <1>1 DEF ZeroMeansEmpty, PrefixSnapshotsExact, backendVars
<1>6. GuardImpliesContext'
  BY <1>2 DEF GuardImpliesContext
<1> QED
  BY <1>3, <1>4, <1>5, <1>6, IdleInv

LEMMA StutterStep ==
  ASSUME Inv, UNCHANGED vars
  PROVE  Inv'
<1>1. /\ TypeOK' /\ ZeroMeansEmpty' /\ OpShape' /\ OpSync' /\ PrefixSnapshotsExact'
      /\ GenerationsExact' /\ GuardImpliesContext'
  BY DEF Inv, vars, TypeOK, ZeroMeansEmpty, OpShape, OpSync, PrefixSnapshotsExact,
         GenerationsExact, GuardImpliesContext, Prefix
<1> QED
  BY <1>1 DEF Inv

LEMMA NextInv == Inv /\ [Next]_vars => Inv'
<1> SUFFICES ASSUME Inv, [Next]_vars PROVE Inv'
  OBVIOUS
<1>1. CASE CacheLose
  BY <1>1, CacheLoseStep
<1>2. ASSUME NEW p \in Prompts, NEW m \in Budgets, Generate(p, m) PROVE Inv'
  BY <1>2, GenerateStep
<1>3. ASSUME NEW p \in WarmPrompts, Warm(p) PROVE Inv'
  BY <1>3, WarmStep
<1>4. CASE DecodeTail
  BY <1>4, DecodeTailStep
<1>5. CASE DecodeFresh
  BY <1>5, DecodeFreshStep
<1>6. CASE Restore
  BY <1>6, RestoreStep
<1>7. CASE PrefillBlock
  BY <1>7, PrefillBlockStep
<1>8. CASE PrefillDone
  BY <1>8, PrefillDoneStep
<1>9. CASE DecodeLast \/ LoopFeed
  BY <1>9, FeedStep
<1>10. CASE LoopEnd
  BY <1>10, LoopEndStep
<1>11. ASSUME NEW t \in Tokens, LoopToken(t) PROVE Inv'
  BY <1>11, LoopTokenStep
<1>12. CASE Abort
  BY <1>12, AbortStep
<1>13. CASE create_session
  BY <1>13, SessionBooksStep
<1>14. ASSUME NEW s \in 1..MaxSessions,
              save_session(s) \/ load_session(s) \/ load_sessionThrows(s) \/ delete_session(s)
       PROVE  Inv'
  BY <1>14, SaveSessionStep, LoadSessionStep, LoadSessionThrowsStep, SessionBooksStep
<1>15. CASE UNCHANGED vars
  BY <1>15, StutterStep
<1> QED
  BY <1>1, <1>2, <1>3, <1>4, <1>5, <1>6, <1>7, <1>8, <1>9, <1>10, <1>11, <1>12, <1>13, <1>14,
     <1>15 DEF Next, Exhausted

-----------------------------------------------------------------------------
(* Theorems                                                                *)

LEMMA Invariance == Spec => []Inv
<1>1. Init => Inv
  BY InitInv
<1>2. Inv /\ [Next]_vars => Inv'
  BY NextInv
<1> QED
  BY <1>1, <1>2, PTL DEF Spec

\* The types of the engine's state: budgets are never overrun and a prefill
\* never leaves the context, whatever the prompts, sessions and failures.
THEOREM TypeCorrect == Spec => []TypeOK
<1>1. Inv => TypeOK
  BY DEF Inv
<1> QED
  BY <1>1, Invariance, PTL

\* PrefixCache: every prefix snapshot on disk holds exactly the tokens it is
\* keyed by, whatever exceptions, warms, sessions and evictions came before.
THEOREM SnapshotsCorrect == Spec => []PrefixSnapshotsExact
<1>1. Inv => PrefixSnapshotsExact
  BY DEF Inv
<1> QED
  BY <1>1, Invariance, PTL

\* generate_stream(): every token is sampled with exactly the prompt and the
\* tokens before it in the KV cache, except in a hot continuation of a
\* context that something else has touched.
THEOREM GenerationsCorrect == Spec => []GenerationsExact
<1>1. Inv => GenerationsExact
  BY DEF Inv
<1> QED
  BY <1>1, Invariance, PTL

\* The `estende` test compares lengths only: that is enough as long as
\* nothing but the owner of context_tokens has touched the backend.
THEOREM LengthTestIsSound == Spec => []GuardImpliesContext
<1>1. Inv => GuardImpliesContext
  BY DEF Inv
<1> QED
  BY <1>1, Invariance, PTL
=============================================================================
