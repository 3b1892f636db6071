-------------------------- MODULE HttpServingProofs --------------------------
(* Safety of HttpServing for any number of connections, any set of requests *)
(* and any size of the generation gate.                                    *)
EXTENDS HttpServing, FiniteSetTheorems, SequenceTheorems, TLAPS

\* Between accept() and the start of the worker's thread there is at most one
\* connection, in the hands of the accept thread, which main has joined before
\* it drains.
AcceptShape ==
  /\ \A c \in Conns : pc[c] = "accepted" => accept_loop = "spawn"
  /\ \A c, d \in Conns : pc[c] = "accepted" /\ pc[d] = "accepted" => c = d
  /\ main = "start" => accept_loop = "none"
  /\ main \in {"drain", "exited"} => accept_loop = "exited"

\* Whoever must have the mutex has it, and its owner is where it will unlock it.
MutexOwned ==
  /\ \A c \in Conns : pc[c] = "engine" /\ NeedsMutex(c) => engine_mutex = c
  /\ engine_mutex # 0 => pc[engine_mutex] \in {"engine", "respond", "unwind"}

\* A place in the gate is held from the admission to the end of the handler.
GatePlaces ==
  \A c \in Conns :
    /\ c \in acquired =>
         pc[c] \in {"admitted", "lock", "engine", "escalate", "respond", "unwind"}
    /\ \/ pc[c] \in {"admitted", "escalate"}
       \/ pc[c] \in {"lock", "engine"} /\ Kind(c) = "generation"
       => c \in acquired

\* What a worker has written, and why, by the place it is at.
RequestShape(c) ==
  /\ pc[c] \in {"none", "backlog", "accepted", "read"} =>
       request[c] = NoRequest /\ sent[c] = <<>>
  /\ pc[c] \in {"route", "gate", "refused", "admitted", "lock", "engine", "escalate",
                "respond", "unwind"} => request[c] \in Requests
  /\ pc[c] \in {"gate", "refused", "admitted", "escalate"} => Kind(c) = "generation"
  /\ pc[c] \in {"lock", "engine"} => Kind(c) \in {"generation", "warm", "sessions"}
  /\ pc[c] \in {"route", "gate", "refused", "admitted", "escalate"} => sent[c] = <<>>
  /\ pc[c] \in {"lock", "engine"} =>
       sent[c] = IF Kind(c) = "generation" /\ request[c].stream THEN <<200>> ELSE <<>>
  /\ pc[c] = "escalate" => ~request[c].stream
  /\ pc[c] \notin {"escalate", "respond", "unwind"} => testo[c] = None
  /\ pc[c] = "respond" =>
       \/ sent[c] = <<>> /\ (Kind(c) = "generation" /\ status[c] = 200 =>
                               ~request[c].stream /\ testo[c] # None)
       \/ /\ sent[c] = <<200>> /\ status[c] = 500
          /\ Kind(c) = "generation" /\ request[c].stream
  /\ pc[c] = "unwind" => sent[c] # <<>>

AnswerShape(c) ==
  /\ Len(sent[c]) > 1 => sent[c] = <<200, 500>> /\ request[c].stream
  /\ pc[c] \in {"return", "gone"} /\ request[c] # NoRequest => sent[c] # <<>>
  /\ pc[c] = "unwind" /\ Kind(c) = "generation" /\ sent[c] = <<200>> =>
       (testo[c] = None <=> request[c].stream)

Inv ==
  /\ TypeOK /\ DrainIsComplete /\ AcceptShape
  /\ MutexOwned
  /\ GateExact /\ GatePlaces
  /\ AnswersAddUp /\ \A c \in Conns : RequestShape(c) /\ AnswerShape(c)

-----------------------------------------------------------------------------
(* Steps that touch no connection, and steps of one connection             *)

QuietStep == AcceptHead \/ AcceptNothing \/ Main \/ Signal \/ UNCHANGED vars

LEMMA NextSplit ==
  [Next]_vars =>
    QuietStep \/ \E c \in Conns : Client(c) \/ Worker(c) \/ Accept(c) \/ Spawn(c)
BY DEF Next, AcceptThread, QuietStep

\* A quiet step leaves the connections and the handler's state alone.
LEMMA QuietFrame ==
  QuietStep => UNCHANGED <<connVars, handlerVars, active_connections, parallel_capable,
                           aborted>>
<1> USE DEF vars, serverVars, restVars, mainVars
<1>1. AcceptHead \/ AcceptNothing =>
        UNCHANGED <<connVars, handlerVars, active_connections, parallel_capable, aborted>>
  BY DEF AcceptHead, AcceptNothing
<1>2. Main => UNCHANGED <<connVars, handlerVars, active_connections, parallel_capable, aborted>>
  BY DEF Main, MainStart, MainWaits, StopFlag, StopClose, StopJoin, StopDrain
<1>3. Signal => UNCHANGED <<connVars, handlerVars, active_connections, parallel_capable, aborted>>
  BY DEF Signal
<1> QED
  BY <1>1, <1>2, <1>3 DEF QuietStep

\* What the router returns.
LEMMA RouteType ==
  ASSUME NEW r
  PROVE  /\ route(r).handler \in {"respond", "throw", "generation", "warm", "sessions"}
         /\ route(r).status \in Nat
BY DEF route, Respond, Handler, GenerationPrompt, WarmPrompt, handle_metrics

LEMMA InitInv == Init => Inv
<1> SUFFICES ASSUME Init PROVE Inv
  OBVIOUS
<1> USE DEF Init
<1>1. TypeOK
  <2>1. /\ testo \in [Conns -> {None, "fast", "deep"}] /\ sent \in [Conns -> Seq(Nat)]
        /\ request \in [Conns -> Requests \cup {NoRequest}]
    OBVIOUS
  <2>2. {parallel_capable, g_shutdown, stuck, timed_out, aborted} \subseteq BOOLEAN
    BY Zenon
  <2> QED
    BY <2>1, <2>2 DEF TypeOK, Places
<1>2. Live = {} /\ acquired = {} /\ {c \in Conns : pc[c] = "refused"} = {}
  BY DEF Live
<1>3. Cardinality({}) = 0
  BY FS_EmptySet
<1>4. DrainIsComplete /\ AcceptShape
  BY <1>2, <1>3 DEF DrainIsComplete, AcceptShape
<1>5. MutexOwned
  BY DEF MutexOwned
<1>6. GateExact /\ GatePlaces
  <2>1. GatePlaces
    BY DEF GatePlaces
  <2>2. Cardinality(acquired) = 0 /\ Cardinality({c \in Conns : pc[c] = "refused"}) = 0
    BY <1>2, <1>3
  <2>3. \A c \in Conns : pc[c] = "none"
    OBVIOUS
  <2> QED
    BY <1>1, <2>1, <2>2, <2>3, HttpAssumption DEF GateExact
<1>7. ASSUME NEW c \in Conns PROVE RequestShape(c) /\ AnswerShape(c)
  BY DEF RequestShape, AnswerShape
<1>8. AnswersAddUp
  <2>1. {c \in {d \in Conns : request[d] # NoRequest} : pc[c] # "route"} = {}
    OBVIOUS
  <2>2. {c \in {d \in Conns : request[d] # NoRequest} :
           \E i \in 1..Len(sent[c]) : sent[c][i] >= 400} = {}
    OBVIOUS
  <2>3. \A c \in Conns : ~(Len(sent[c]) > 1) /\ pc[c] # "return" /\ pc[c] # "unwind"
    OBVIOUS
  <2>4. total_requests = 0 /\ errors = 0
    OBVIOUS
  <2> HIDE DEF Init
  <2>5. /\ total_requests = Cardinality({c \in {d \in Conns : request[d] # NoRequest} :
                                          pc[c] # "route"})
        /\ errors = Cardinality({c \in {d \in Conns : request[d] # NoRequest} :
                                  \E i \in 1..Len(sent[c]) : sent[c][i] >= 400})
    BY ONLY <1>3, <2>1, <2>2, <2>4
  <2> QED
    BY <2>3, <2>5, Zenon DEF AnswersAddUp
<1> QED
  BY <1>1, <1>4, <1>5, <1>6, <1>7, <1>8 DEF Inv

-----------------------------------------------------------------------------
(* Types and counters of connections                                       *)

LEMMA ConnsFinite ==
  ASSUME NEW S \in SUBSET Conns
  PROVE  IsFiniteSet(S) /\ Cardinality(S) \in Nat
<1>1. IsFiniteSet(Conns)
  BY HttpAssumption, FS_Interval DEF Conns
<1> QED
  BY <1>1, FS_Subset, FS_CardinalityType

\* A step of connection c moves no other connection.
LEMMA OthersStay ==
  ASSUME TypeOK, NEW c \in Conns, Client(c) \/ Worker(c) \/ Accept(c) \/ Spawn(c)
  PROVE  \A d \in Conns \ {c} :
           /\ pc'[d] = pc[d] /\ request'[d] = request[d] /\ status'[d] = status[d]
           /\ testo'[d] = testo[d] /\ sent'[d] = sent[d]
<1> DEFINE Same == \A d \in Conns \ {c} :
             /\ pc'[d] = pc[d] /\ request'[d] = request[d] /\ status'[d] = status[d]
             /\ testo'[d] = testo[d] /\ sent'[d] = sent[d]
<1>1. /\ pc \in [Conns -> Places]
      /\ request \in [Conns -> Requests \cup {NoRequest}]
      /\ status \in [Conns -> Nat]
      /\ testo \in [Conns -> {None, "fast", "deep"}]
      /\ sent \in [Conns -> Seq(Nat)]
  BY DEF TypeOK
<1> USE <1>1 DEF Goto, Answer, Terminate
<1>2. CASE Client(c)
  BY <1>2 DEF Client, ClientConnects, ReadDropped, ReadRejected, ReadRequest
<1>3. CASE Accept(c) \/ Spawn(c)
  BY <1>3 DEF Accept, Spawn
<1>4. CASE Worker(c)
  <2>1. CASE Route(c) \/ Write(c) \/ GateAdd(c) \/ GateRefuse(c) \/ Prepare(c) \/ LockEngine(c)
    BY <2>1 DEF Route, Write, GateAdd, GateRefuse, Prepare, LockEngine
  <2>2. CASE GenerationEnds(c) \/ GenerationThrows(c) \/ Escalate(c) \/ Unwind(c) \/ Return(c)
    BY <2>2 DEF GenerationEnds, GenerationThrows, Escalate, Unwind, Return
  <2>3. CASE WarmEnds(c) \/ WarmThrows(c) \/ SessionEnds(c) \/ SessionThrows(c) \/ EscalationKilled(c)
    BY <2>3 DEF WarmEnds, WarmThrows, SessionEnds, SessionThrows, EscalationKilled
  <2> QED
    BY <1>4, <2>1, <2>2, <2>3 DEF Worker
<1> QED
  BY <1>2, <1>3, <1>4

\* Only a spawn and a return change the set of live workers.
LEMMA LiveStep ==
  ASSUME TypeOK, NEW c \in Conns
  PROVE  /\ Client(c) \/ Accept(c) => Live' = Live /\ active_connections' = active_connections
         /\ Worker(c) => \/ Live' = Live /\ active_connections' = active_connections
                         \/ /\ c \in Live /\ Live' = Live \ {c}
                            /\ active_connections' = active_connections - 1
         /\ Spawn(c) => /\ c \notin Live /\ Live' = Live \cup {c}
                        /\ active_connections' = active_connections + 1
<1> USE DEF TypeOK, Live, At, Goto, Answer, Terminate, serverVars, connVars
<1>1. Client(c) \/ Accept(c) => Live' = Live /\ active_connections' = active_connections
  BY DEF Client, ClientConnects, ReadDropped, ReadRejected, ReadRequest, Accept
<1>2. Route(c) \/ Write(c) => Live' = Live /\ active_connections' = active_connections
  BY DEF Route, Write
<1>3. GateAdd(c) \/ GateRefuse(c) \/ Prepare(c) \/ LockEngine(c) =>
        Live' = Live /\ active_connections' = active_connections
  BY DEF GateAdd, GateRefuse, Prepare, LockEngine
<1>4. GenerationEnds(c) \/ GenerationThrows(c) \/ Escalate(c) \/ Unwind(c) =>
        Live' = Live /\ active_connections' = active_connections
  BY DEF GenerationEnds, GenerationThrows, Escalate, Unwind
<1>5. WarmEnds(c) \/ WarmThrows(c) \/ SessionEnds(c) \/ SessionThrows(c) \/ EscalationKilled(c) =>
        Live' = Live /\ active_connections' = active_connections
  BY DEF WarmEnds, WarmThrows, SessionEnds, SessionThrows, EscalationKilled
<1>6. Return(c) => /\ c \in Live /\ Live' = Live \ {c}
                   /\ active_connections' = active_connections - 1
  BY DEF Return
<1>7. Spawn(c) => /\ c \notin Live /\ Live' = Live \cup {c}
                  /\ active_connections' = active_connections + 1
  BY DEF Spawn
<1> QED
  BY <1>1, <1>2, <1>3, <1>4, <1>5, <1>6, <1>7 DEF Worker

\* The count of live workers, and what main finds after the drain.
LEMMA DrainStep == Inv /\ [Next]_vars => DrainIsComplete'
<1> SUFFICES ASSUME Inv, [Next]_vars PROVE DrainIsComplete'
  OBVIOUS
<1>0. TypeOK /\ DrainIsComplete /\ AcceptShape
  BY DEF Inv
<1>1. IsFiniteSet(Live) /\ Cardinality(Live) \in Nat
  BY ConnsFinite DEF Live
<1>2. CASE QuietStep
  <2>1. UNCHANGED <<pc, active_connections>> /\ Live' = Live
    BY <1>2, QuietFrame DEF connVars, Live
  <2>2. main' = "exited" /\ ~timed_out' =>
          (main = "exited" /\ ~timed_out) \/ (active_connections = 0 /\ main = "drain")
    <3> USE DEF mainVars, restVars, vars, MainIs
    <3>1. CASE StopDrain
      <4>1. main = "drain" /\ timed_out' = (active_connections > 0)
        BY <3>1 DEF StopDrain
      <4>2. ~timed_out' => ~(active_connections > 0)
        BY <4>1, Zenon
      <4> QED
        BY <1>0, <4>1, <4>2 DEF TypeOK
    <3>2. CASE AcceptHead \/ AcceptNothing \/ UNCHANGED vars
      <4>1. UNCHANGED <<main, timed_out>>
        BY <3>2 DEF AcceptHead, AcceptNothing
      <4> QED
        BY <4>1, Zenon
    <3>3. CASE Signal
      <4>1. UNCHANGED timed_out /\ main # "exited" /\ main' \in {main, "lock"}
        BY <3>3 DEF Signal
      <4> QED
        BY <4>1
    <3>4. CASE MainStart \/ MainWaits \/ StopFlag \/ StopClose \/ StopJoin
      BY <3>4 DEF MainStart, MainWaits, StopFlag, StopClose, StopJoin
    <3> QED
      BY <1>2, <3>1, <3>2, <3>3, <3>4 DEF QuietStep, Main
  <2>3. active_connections = 0 => Live = {}
    BY <1>0, <1>1, FS_EmptySet DEF DrainIsComplete
  <2>4. main = "drain" => \A c \in Conns : pc[c] # "accepted"
    BY <1>0 DEF AcceptShape
  <2> QED
    BY <1>0, <2>1, <2>2, <2>3, <2>4 DEF DrainIsComplete
<1>3. ASSUME NEW c \in Conns, Client(c) \/ Worker(c) \/ Accept(c) \/ Spawn(c)
      PROVE  DrainIsComplete'
  <2>1. UNCHANGED <<main, timed_out>>
    <3> USE DEF mainVars, restVars
    <3>1. CASE Client(c) \/ Accept(c) \/ Spawn(c)
      BY <3>1 DEF Client, ClientConnects, ReadDropped, ReadRejected, ReadRequest, Accept, Spawn
    <3>2. CASE Worker(c)
      BY <3>2 DEF Worker, Route, Write, GateAdd, GateRefuse, Prepare, LockEngine, GenerationEnds,
                  GenerationThrows, Escalate, Unwind, WarmEnds, WarmThrows, SessionEnds,
                  SessionThrows, EscalationKilled, Return
    <3> QED
      BY <1>3, <3>1, <3>2
  <2>2. active_connections' = Cardinality(Live')
    BY <1>0, <1>1, <1>3, LiveStep, FS_AddElement, FS_RemoveElement DEF DrainIsComplete
  <2>3. main = "exited" => accept_loop = "exited"
    BY <1>0 DEF AcceptShape
  <2>4. ASSUME main = "exited", ~timed_out
        PROVE  Live' = {} /\ \A d \in Conns : pc'[d] # "accepted"
    <3>1. ~Accept(c) /\ ~Spawn(c) /\ Live = {} /\ \A d \in Conns : pc[d] # "accepted"
      BY <1>0, <2>3, <2>4 DEF Accept, Spawn, DrainIsComplete
    <3>2. Live' = {}
      BY <1>0, <1>3, <3>1, LiveStep
    <3>3. CASE Client(c)
      <4>1. pc'[c] # "accepted"
        BY <1>0, <3>3 DEF Client, ClientConnects, ReadDropped, ReadRejected, ReadRequest, Goto,
                          TypeOK
      <4> QED
        BY <1>0, <1>3, <3>1, <3>2, <4>1, OthersStay
    <3>4. CASE Worker(c)
      <4>1. c \in Live
        BY <3>4 DEF Live, Worker, Route, Write, GateAdd, GateRefuse, Prepare, LockEngine,
                  GenerationEnds, GenerationThrows, Escalate, Unwind, WarmEnds, WarmThrows,
                  SessionEnds, SessionThrows, EscalationKilled, Return, At
      <4> QED
        BY <3>1, <4>1
    <3> QED
      BY <1>3, <3>1, <3>2, <3>3, <3>4
  <2> QED
    BY <1>0, <2>1, <2>2, <2>4 DEF DrainIsComplete
<1> QED
  BY <1>2, <1>3, NextSplit

LEMMA AcceptStep == Inv /\ [Next]_vars => AcceptShape'
<1> SUFFICES ASSUME Inv, [Next]_vars PROVE AcceptShape'
  OBVIOUS
<1>0. TypeOK /\ AcceptShape
  BY DEF Inv
<1> USE DEF AcceptShape
<1>1. CASE QuietStep
  <2>0. pc' = pc
    BY <1>1, QuietFrame DEF connVars
  <2> USE <1>0, <2>0 DEF serverVars, restVars, mainVars, vars, MainIs
  <2>1. CASE AcceptHead \/ AcceptNothing \/ UNCHANGED vars
    BY <2>1 DEF AcceptHead, AcceptNothing
  <2>2. CASE Signal
    BY <2>2 DEF Signal
  <2>3. CASE MainStart
    BY <2>3 DEF MainStart
  <2>4. CASE MainWaits \/ StopFlag \/ StopClose
    BY <2>4 DEF MainWaits, StopFlag, StopClose
  <2>5. CASE StopJoin \/ StopDrain
    BY <2>5 DEF StopJoin, StopDrain
  <2> QED
    BY <1>1, <2>1, <2>2, <2>3, <2>4, <2>5 DEF QuietStep, Main
<1>2. ASSUME NEW c \in Conns, Accept(c) \/ Spawn(c) PROVE AcceptShape'
  <2>1. pc'[c] = IF Accept(c) THEN "accepted" ELSE "read"
    BY <1>0, <1>2 DEF TypeOK, Accept, Spawn, Goto, At
  <2>2. /\ main' = main
        /\ IF Accept(c) THEN accept_loop = "accept" /\ accept_loop' = "spawn"
           ELSE accept_loop = "spawn" /\ pc[c] = "accepted" /\ accept_loop' = "head"
    BY <1>2 DEF Accept, Spawn, At, restVars, mainVars
  <2> QED
    BY <1>0, <1>2, <2>1, <2>2, OthersStay
<1>3. ASSUME NEW c \in Conns, Client(c) \/ Worker(c) PROVE AcceptShape'
  <2>1. UNCHANGED <<main, accept_loop>>
    <3> USE DEF restVars, mainVars, serverVars
    <3>1. CASE Client(c)
      BY <3>1 DEF Client, ClientConnects, ReadDropped, ReadRejected, ReadRequest
    <3>2. CASE Worker(c)
      BY <3>2 DEF Worker, Route, Write, GateAdd, GateRefuse, Prepare, LockEngine, GenerationEnds,
                  GenerationThrows, Escalate, Unwind, WarmEnds, WarmThrows, SessionEnds,
                  SessionThrows, EscalationKilled, Return
    <3> QED
      BY <1>3, <3>1, <3>2
  <2>2. pc'[c] # "accepted"
    <3> USE <1>0 DEF TypeOK, Goto, At, Answer, Terminate
    <3>1. CASE Client(c)
      BY <3>1 DEF Client, ClientConnects, ReadDropped, ReadRejected, ReadRequest
    <3>2. CASE Route(c) \/ Write(c) \/ GateAdd(c) \/ GateRefuse(c) \/ Prepare(c) \/ LockEngine(c)
      BY <3>2 DEF Route, Write, GateAdd, GateRefuse, Prepare, LockEngine
    <3>3. CASE GenerationEnds(c) \/ GenerationThrows(c) \/ Escalate(c) \/ Unwind(c) \/ Return(c)
      BY <3>3 DEF GenerationEnds, GenerationThrows, Escalate, Unwind, Return
    <3>4. CASE WarmEnds(c) \/ WarmThrows(c) \/ SessionEnds(c) \/ SessionThrows(c) \/ EscalationKilled(c)
      BY <3>4 DEF WarmEnds, WarmThrows, SessionEnds, SessionThrows, EscalationKilled
    <3> QED
      BY <1>3, <3>1, <3>2, <3>3, <3>4 DEF Worker
  <2> QED
    BY <1>0, <1>3, <2>1, <2>2, OthersStay
<1> QED
  BY <1>1, <1>2, <1>3, NextSplit

-----------------------------------------------------------------------------
(* The engine mutex                                                        *)

\* What a step of connection c does to the request it serves: nothing, once
\* the request has been read.
LEMMA KindStays ==
  ASSUME TypeOK, NEW c \in Conns, Worker(c) \/ Accept(c) \/ Spawn(c)
  PROVE  UNCHANGED <<request, parallel_capable>>
<1> USE DEF connVars, restVars
<1>1. CASE Accept(c) \/ Spawn(c)
  BY <1>1 DEF Accept, Spawn
<1>2. CASE Worker(c)
  BY <1>2 DEF Worker, Route, Write, GateAdd, GateRefuse, Prepare, LockEngine, GenerationEnds,
              GenerationThrows, Escalate, Unwind, WarmEnds, WarmThrows, SessionEnds,
              SessionThrows, EscalationKilled, Return
<1> QED
  BY <1>1, <1>2

LEMMA MutexStep == Inv /\ [Next]_vars => MutexOwned'
<1> SUFFICES ASSUME Inv, [Next]_vars PROVE MutexOwned'
  OBVIOUS
<1>0. TypeOK /\ MutexOwned
  BY DEF Inv
<1>a. pc \in [Conns -> Places] /\ engine_mutex \in Conns \cup {0} /\ 0 \notin Conns
  BY <1>0 DEF TypeOK, Conns
<1> USE DEF MutexOwned, NeedsMutex, Kind
<1>1. CASE QuietStep
  <2>1. UNCHANGED <<pc, request, engine_mutex, parallel_capable>>
    BY <1>1, QuietFrame DEF connVars, handlerVars
  <2> QED
    BY <1>0, <2>1
<1>2. ASSUME NEW c \in Conns, Client(c) PROVE MutexOwned'
  <2>1. /\ UNCHANGED <<engine_mutex, parallel_capable>>
        /\ pc[c] \in {"none", "read"} /\ pc'[c] # "engine"
    BY <1>a, <1>2 DEF Client, ClientConnects, ReadDropped, ReadRejected, ReadRequest, At, Goto,
                      handlerVars, restVars
  <2> QED
    BY <1>0, <1>a, <1>2, <2>1, OthersStay
<1>3. ASSUME NEW c \in Conns, Worker(c) \/ Accept(c) \/ Spawn(c) PROVE MutexOwned'
  <2>0. /\ UNCHANGED <<request, parallel_capable>>
        /\ \A d \in Conns \ {c} : pc'[d] = pc[d]
    BY <1>0, <1>3, KindStays, OthersStay
  <2> HIDE DEF NeedsMutex, MutexOwned
  <2>1. /\ \A d \in Conns : NeedsMutex(d)' = NeedsMutex(d)
    BY <2>0 DEF NeedsMutex
  <2> DEFINE Keeps == /\ engine_mutex' = engine_mutex
                      /\ pc'[c] # "engine"
                      /\ engine_mutex = c =>
                           pc'[c] \in {"engine", "respond", "unwind"}
             Frees == /\ engine_mutex' = IF engine_mutex = c THEN 0 ELSE engine_mutex
                      /\ pc'[c] # "engine"
             Stays == engine_mutex' = engine_mutex /\ pc'[c] = pc[c]
             Takes == /\ pc[c] # "engine" /\ NeedsMutex(c) => engine_mutex = 0
                      /\ pc'[c] = "engine"
                      /\ engine_mutex' = IF NeedsMutex(c) THEN c ELSE engine_mutex
  <2>2. Keeps \/ Frees \/ Stays \/ Takes => MutexOwned'
    BY <1>0, <1>a, <2>0, <2>1 DEF MutexOwned
  <2>3. CASE Accept(c) \/ Spawn(c)
    <3>1. Keeps
      BY <1>0, <1>a, <2>3 DEF Accept, Spawn, At, Goto, handlerVars, MutexOwned
    <3> QED
      BY <2>2, <3>1
  <2>4. CASE Route(c) \/ Prepare(c) \/ GateAdd(c) \/ GateRefuse(c) \/ Escalate(c) \/ Return(c)
    <3>1. Keeps
      BY <1>0, <1>a, <2>4 DEF Route, Prepare, GateAdd, GateRefuse, Escalate, Return, At, Goto,
                              Answer, Terminate, handlerVars, MutexOwned
    <3> QED
      BY <2>2, <3>1
  <2>5. CASE Write(c) \/ WarmEnds(c) \/ SessionEnds(c)
    <3>1. Keeps
      BY <1>a, <2>5 DEF Write, WarmEnds, SessionEnds, At, Goto, Answer, handlerVars
    <3> QED
      BY <2>2, <3>1
  <2>6. CASE SessionThrows(c) \/ EscalationKilled(c)
    <3>1. Stays
      BY <2>6 DEF SessionThrows, EscalationKilled, Terminate, handlerVars
    <3> QED
      BY <2>2, <3>1
  <2>7. CASE GenerationEnds(c) \/ GenerationThrows(c) \/ WarmThrows(c) \/ Unwind(c)
    <3>1. Frees
      BY <1>a, <2>7 DEF GenerationEnds, GenerationThrows, WarmThrows, Unwind, Unlocked, At, Goto,
                        Answer
    <3> QED
      BY <2>2, <3>1
  <2>8. CASE LockEngine(c)
    <3>1. Takes
      BY <1>a, <2>8 DEF LockEngine, At, Goto
    <3> QED
      BY <2>2, <3>1
  <2> QED
    BY <1>3, <2>3, <2>4, <2>5, <2>6, <2>7, <2>8 DEF Worker
<1> QED
  BY <1>1, <1>2, <1>3, NextSplit

LEMMA MutexImpliesExclusive == Inv => EngineExclusive
<1> SUFFICES ASSUME Inv PROVE EngineExclusive
  OBVIOUS
<1>0. TypeOK /\ MutexOwned
  BY DEF Inv
<1>1. ASSUME NEW c \in Conns, NEW d \in Conns, c # d, pc[c] = "engine", pc[d] = "engine"
      PROVE  parallel_capable /\ {Kind(c), Kind(d)} # {"sessions"}
  <2>1. ~NeedsMutex(c) \/ ~NeedsMutex(d)
    BY <1>0, <1>1 DEF MutexOwned
  <2>2. parallel_capable /\ (Kind(c) # "sessions" \/ Kind(d) # "sessions")
    BY <2>1 DEF NeedsMutex
  <2> QED
    BY <2>2
<1> QED
  BY <1>0, <1>1 DEF EngineExclusive, MutexOwned

-----------------------------------------------------------------------------
(* The generation gate                                                     *)

Refused == {c \in Conns : pc[c] = "refused"}

\* The counter and the places of the gate, without the types.
GateCount ==
  /\ Cardinality(acquired) <= max_concurrent_requests
  /\ active_generations = Cardinality(acquired) + Cardinality(Refused)

\* What a step of connection c does to the gate.
LEMMA GateEffect ==
  ASSUME TypeOK, NEW c \in Conns, Client(c) \/ Worker(c) \/ Accept(c) \/ Spawn(c),
         \A d \in Conns : RequestShape(d), GatePlaces
  PROVE  \/ /\ UNCHANGED <<acquired, active_generations>>
            /\ pc[c] # "refused" /\ pc'[c] # "refused"
            /\ \/ c \notin acquired
               \/ pc'[c] \in {"admitted", "lock", "engine", "escalate", "respond", "unwind"}
            /\ \/ pc'[c] \in {"admitted", "escalate"}
               \/ pc'[c] \in {"lock", "engine"} /\ Kind(c)' = "generation"
               => c \in acquired
         \/ /\ c \notin acquired /\ pc[c] # "refused" /\ pc'[c] = "refused"
            /\ acquired' = acquired /\ active_generations' = active_generations + 1
         \/ /\ c \notin acquired /\ pc[c] # "refused" /\ pc'[c] = "admitted"
            /\ acquired' = acquired \cup {c}
            /\ active_generations < max_concurrent_requests
            /\ active_generations' = active_generations + 1
         \/ /\ c \notin acquired /\ pc[c] = "refused" /\ pc'[c] = "respond"
            /\ acquired' = acquired /\ active_generations' = active_generations - 1
         \/ /\ c \in acquired /\ pc[c] # "refused" /\ pc'[c] = "return"
            /\ acquired' = acquired \ {c} /\ active_generations' = active_generations - 1
<1> DEFINE Same == /\ UNCHANGED <<acquired, active_generations>>
                   /\ pc[c] # "refused" /\ pc'[c] # "refused"
                   /\ \/ c \notin acquired
                      \/ pc'[c] \in {"admitted", "lock", "engine", "escalate", "respond",
                                     "unwind"}
                   /\ \/ pc'[c] \in {"admitted", "escalate"}
                      \/ pc'[c] \in {"lock", "engine"} /\ Kind(c)' = "generation"
                      => c \in acquired
<1>a. /\ pc \in [Conns -> Places] /\ acquired \subseteq Conns
      /\ active_generations \in Nat /\ max_concurrent_requests \in Nat
  BY HttpAssumption DEF TypeOK
<1>b. /\ c \in acquired =>
           pc[c] \in {"admitted", "lock", "engine", "escalate", "respond", "unwind"}
      /\ \/ pc[c] \in {"admitted", "escalate"}
         \/ pc[c] \in {"lock", "engine"} /\ Kind(c) = "generation"
         => c \in acquired
  BY DEF GatePlaces
<1>c. Worker(c) \/ Accept(c) \/ Spawn(c) => Kind(c)' = Kind(c)
  BY KindStays DEF Kind
<1> USE DEF At, Goto, Answer, Terminate, handlerVars
<1>1. CASE Client(c) \/ Accept(c) \/ Spawn(c)
  <2>1. Same
    BY <1>a, <1>b, <1>1 DEF Client, ClientConnects, ReadDropped, ReadRejected, ReadRequest,
                            Accept, Spawn
  <2> QED
    BY <2>1
<1>2. CASE Route(c)
  <2>1. pc'[c] = "lock" => Kind(c) # "generation"
    BY <1>a, <1>2 DEF Route, Kind
  <2>2. Same
    BY <1>a, <1>b, <1>c, <1>2, <2>1 DEF Route, Worker
  <2> QED
    BY <2>2
<1>3. CASE Write(c) \/ Escalate(c) \/ WarmEnds(c) \/ WarmThrows(c) \/ SessionEnds(c)
  <2>1. Same
    BY <1>a, <1>b, <1>3 DEF Write, Escalate, WarmEnds, WarmThrows, SessionEnds
  <2> QED
    BY <2>1
<1>4. CASE Prepare(c) \/ LockEngine(c) \/ SessionThrows(c) \/ EscalationKilled(c)
  <2>1. Same
    BY <1>a, <1>b, <1>c, <1>4 DEF Prepare, LockEngine, SessionThrows, EscalationKilled, Worker
  <2> QED
    BY <2>1
<1>5. CASE GenerationEnds(c) \/ GenerationThrows(c)
  <2>1. Same
    BY <1>a, <1>b, <1>5 DEF GenerationEnds, GenerationThrows
  <2> QED
    BY <2>1
<1>6. CASE GateAdd(c) \/ GateRefuse(c)
  BY <1>a, <1>b, <1>6 DEF GateAdd, GateRefuse
<1>7. CASE Unwind(c)
  <2>1. CASE c \in acquired
    BY <1>a, <1>7, <2>1 DEF Unwind
  <2>2. CASE c \notin acquired
    <3>1. Same
      BY <1>a, <1>7, <2>2 DEF Unwind
    <3> QED
      BY <3>1
  <2> QED
    BY <2>1, <2>2
<1>8. CASE Return(c)
  <2>1. Same
    BY <1>a, <1>b, <1>8 DEF Return
  <2> QED
    BY <2>1
<1> QED
  BY <1>1, <1>2, <1>3, <1>4, <1>5, <1>6, <1>7, <1>8 DEF Worker

LEMMA GateStep == Inv /\ [Next]_vars => GateCount' /\ GatePlaces' /\ acquired' \subseteq Conns
<1> SUFFICES ASSUME Inv, [Next]_vars
             PROVE  GateCount' /\ GatePlaces' /\ acquired' \subseteq Conns
  OBVIOUS
<1>0. /\ TypeOK /\ GatePlaces /\ GateCount
      /\ \A d \in Conns : RequestShape(d)
  BY DEF Inv, GateExact, GateCount, Refused
<1>1. CASE QuietStep
  <2>1. UNCHANGED <<pc, request, acquired, active_generations>>
    BY <1>1, QuietFrame DEF connVars, handlerVars
  <2>2. GateCount'
    BY <1>0, <2>1 DEF GateCount, Refused
  <2> QED
    BY <1>0, <2>1, <2>2 DEF GatePlaces, Kind, TypeOK
<1>2. ASSUME NEW c \in Conns, Client(c) \/ Worker(c) \/ Accept(c) \/ Spawn(c)
      PROVE  GateCount' /\ GatePlaces' /\ acquired' \subseteq Conns
  <2>0. \A d \in Conns \ {c} : pc'[d] = pc[d] /\ Kind(d)' = Kind(d)
    BY <1>0, <1>2, OthersStay DEF Kind
  <2>1. /\ IsFiniteSet(acquired) /\ Cardinality(acquired) \in Nat
        /\ IsFiniteSet(Refused) /\ Cardinality(Refused) \in Nat
        /\ max_concurrent_requests \in Nat /\ acquired \subseteq Conns
    BY <1>0, ConnsFinite, HttpAssumption DEF TypeOK, Refused
  <2>2. Refused' = IF pc'[c] = "refused" THEN Refused \cup {c} ELSE Refused \ {c}
    BY <2>0 DEF Refused
  <2>3. c \in Refused <=> pc[c] = "refused"
    BY DEF Refused
  <2>4. /\ Cardinality(Refused \cup {c}) =
             IF c \in Refused THEN Cardinality(Refused) ELSE Cardinality(Refused) + 1
        /\ Cardinality(Refused \ {c}) =
             IF c \in Refused THEN Cardinality(Refused) - 1 ELSE Cardinality(Refused)
        /\ Cardinality(acquired \cup {c}) =
             IF c \in acquired THEN Cardinality(acquired) ELSE Cardinality(acquired) + 1
        /\ Cardinality(acquired \ {c}) =
             IF c \in acquired THEN Cardinality(acquired) - 1 ELSE Cardinality(acquired)
    BY <2>1, FS_AddElement, FS_RemoveElement
  <2>5. GateCount'
    <3>1. \/ /\ UNCHANGED <<acquired, active_generations>>
             /\ c \notin Refused /\ Refused' = Refused \ {c}
          \/ /\ c \notin Refused /\ Refused' = Refused \cup {c}
             /\ acquired' = acquired /\ active_generations' = active_generations + 1
          \/ /\ c \notin acquired /\ c \notin Refused /\ Refused' = Refused \ {c}
             /\ acquired' = acquired \cup {c}
             /\ active_generations < max_concurrent_requests
             /\ active_generations' = active_generations + 1
          \/ /\ c \in Refused /\ Refused' = Refused \ {c}
             /\ acquired' = acquired /\ active_generations' = active_generations - 1
          \/ /\ c \in acquired /\ c \notin Refused /\ Refused' = Refused \ {c}
             /\ acquired' = acquired \ {c} /\ active_generations' = active_generations - 1
      BY <1>0, <1>2, <2>2, <2>3, GateEffect
    <3>2. /\ acquired' = acquired => Cardinality(acquired') = Cardinality(acquired)
          /\ acquired' = acquired \cup {c} =>
               Cardinality(acquired') = Cardinality(acquired \cup {c})
          /\ acquired' = acquired \ {c} =>
               Cardinality(acquired') = Cardinality(acquired \ {c})
          /\ Refused' = Refused \cup {c} =>
               Cardinality(Refused') = Cardinality(Refused \cup {c})
          /\ Refused' = Refused \ {c} =>
               Cardinality(Refused') = Cardinality(Refused \ {c})
      BY Zenon
    <3>3. /\ active_generations = Cardinality(acquired) + Cardinality(Refused)
          /\ Cardinality(acquired) <= max_concurrent_requests
      BY <1>0 DEF GateCount
    <3>4. /\ Cardinality(acquired') <= max_concurrent_requests
          /\ active_generations' = Cardinality(acquired') + Cardinality(Refused')
      BY <2>1, <2>4, <3>1, <3>2, <3>3
    <3> QED
      BY <3>4 DEF GateCount
  <2>6. GatePlaces' /\ acquired' \subseteq Conns
    BY <1>0, <1>2, <2>0, <2>1, GateEffect DEF GatePlaces
  <2> QED
    BY <2>5, <2>6
<1> QED
  BY <1>1, <1>2, NextSplit

-----------------------------------------------------------------------------
(* What is answered                                                        *)

LEMMA Lines ==
  /\ \A n \in Nat : Append(<<>>, n) = <<n>> /\ <<n>> # <<>> /\ Len(<<n>>) = 1 /\ <<n>>[1] = n
  /\ \A m, n \in Nat : <<m>> = <<n>> <=> m = n
  /\ \A n \in Nat : <<200, n>> # <<>> /\ <<200, n>> # <<200>> /\ Len(<<200, n>>) = 2
  /\ \A n \in Nat : <<200, n>>[1] = 200 /\ <<200, n>>[2] = n
  /\ Len(<<>>) = 0
<1>1. \A n \in Nat : Append(<<>>, n) = <<n>> /\ <<n>> # <<>> /\ Len(<<n>>) = 1 /\ <<n>>[1] = n
  OBVIOUS
<1>2. \A m, n \in Nat : <<m>> = <<n>> <=> m = n
  OBVIOUS
<1>3. \A n \in Nat : <<200, n>> # <<>> /\ Len(<<200, n>>) = 2
  OBVIOUS
<1>4. \A n \in Nat : <<200, n>>[1] = 200 /\ <<200, n>>[2] = n
  OBVIOUS
<1>5. \A n \in Nat : <<200, n>> # <<200>>
  BY <1>1, <1>3
<1>6. Len(<<>>) = 0
  OBVIOUS
<1> QED
  BY <1>1, <1>2, <1>3, <1>4, <1>5, <1>6

\* A second status line after the headers of a stream.
LEMMA TwoLines == \A n \in Nat : Append(<<200>>, n) = <<200, n>>
<1>1. ASSUME NEW n \in Nat, NEW s \in Seq(Nat), Len(s) = 1, s[1] = 200
      PROVE  Append(s, n) = <<200, n>>
  <2> DEFINE u == Append(s, n)
  <2>0. /\ u \in Seq(Nat) /\ Len(u) = Len(s) + 1
        /\ \A i \in 1..Len(s) : u[i] = s[i]
        /\ u[Len(s) + 1] = n
    BY AppendProperties
  <2> HIDE DEF u
  <2>1. u \in Seq(Nat) /\ Len(u) = 2 /\ u[1] = 200 /\ u[2] = n
    BY <1>1, <2>0
  <2>2. u = <<200, n>>
    BY <2>1
  <2> QED
    BY <2>2 DEF u
<1>2. <<200>> \in Seq(Nat) /\ Len(<<200>>) = 1 /\ <<200>>[1] = 200
  OBVIOUS
<1> QED
  BY <1>1, <1>2, Zenon

\* The shape is kept by every step of its own connection.
LEMMA OwnShape ==
  ASSUME TypeOK, NEW c \in Conns, Client(c) \/ Worker(c) \/ Accept(c) \/ Spawn(c),
         RequestShape(c), AnswerShape(c)
  PROVE  RequestShape(c)' /\ AnswerShape(c)'
<1>a. /\ pc \in [Conns -> Places] /\ request \in [Conns -> Requests \cup {NoRequest}]
      /\ status \in [Conns -> Nat] /\ sent \in [Conns -> Seq(Nat)]
      /\ testo \in [Conns -> {None, "fast", "deep"}]
  BY DEF TypeOK
<1>b. Worker(c) \/ Accept(c) \/ Spawn(c) => request' = request /\ Kind(c)' = Kind(c)
  BY KindStays DEF Kind
<1> USE <1>a DEF At, Goto, Answer
<1> HIDE DEF Kind
<1>1. CASE ClientConnects(c) \/ ReadDropped(c)
  BY <1>1 DEF ClientConnects, ReadDropped, RequestShape, AnswerShape
<1>2. CASE ReadRejected(c)
  <2>1. PICK n \in {413, 400} : sent' = [sent EXCEPT ![c] = Append(@, n)]
    BY <1>2 DEF ReadRejected
  <2>2. /\ sent'[c] = <<n>> /\ pc'[c] = "return" /\ UNCHANGED <<request, testo>>
        /\ request[c] = NoRequest
    BY <1>2, <2>1, Lines DEF ReadRejected, RequestShape, AnswerShape
  <2> QED
    BY <1>2, <2>2, Lines DEF ReadRejected, RequestShape, AnswerShape
<1>3. CASE ReadRequest(c)
  <2>1. /\ request'[c] \in Requests /\ pc'[c] = "route" /\ UNCHANGED <<sent, testo>>
        /\ sent[c] = <<>>
    BY <1>3 DEF ReadRequest, RequestShape, AnswerShape
  <2> QED
    BY <1>3, <2>1, Lines DEF ReadRequest, RequestShape, AnswerShape
<1>4. CASE Accept(c) \/ Spawn(c)
  <2>1. /\ UNCHANGED <<request, testo, sent>> /\ pc[c] \in {"backlog", "accepted"}
        /\ pc'[c] \in {"accepted", "read"}
    BY <1>4 DEF Accept, Spawn
  <2> QED
    BY <2>1, Lines DEF RequestShape, AnswerShape
<1>5. CASE Route(c)
  <2>1. \/ pc'[c] = "respond" /\ Kind(c) = "respond"
        \/ pc'[c] = pc[c]
        \/ pc'[c] = "gate" /\ Kind(c) = "generation"
        \/ pc'[c] = "lock" /\ Kind(c) \in {"warm", "sessions"}
    BY <1>5 DEF Route, Kind, Terminate
  <2>2. UNCHANGED <<request, testo, sent>> /\ pc[c] = "route"
    BY <1>5 DEF Route
  <2>3. Kind(c)' = Kind(c)
    BY <1>b, <1>5 DEF Worker
  <2>4. request'[c] \in Requests /\ sent'[c] = <<>> /\ testo'[c] = None /\ ~(Len(sent'[c]) > 1)
    BY <2>2, Lines DEF RequestShape
  <2>5. CASE pc'[c] = "respond" /\ Kind(c) = "respond"
    BY <2>3, <2>4, <2>5 DEF RequestShape, AnswerShape
  <2>6. CASE pc'[c] = pc[c]
    BY <2>2, <2>3, <2>4, <2>6 DEF RequestShape, AnswerShape
  <2>7. CASE pc'[c] = "gate" /\ Kind(c) = "generation"
    BY <2>3, <2>4, <2>7 DEF RequestShape, AnswerShape
  <2>8. CASE pc'[c] = "lock" /\ Kind(c) \in {"warm", "sessions"}
    BY <2>3, <2>4, <2>8 DEF RequestShape, AnswerShape
  <2> QED
    BY <2>1, <2>5, <2>6, <2>7, <2>8
<1>6. CASE Write(c)
  <2>1. /\ sent' = [sent EXCEPT ![c] = Append(@, status[c])] /\ pc'[c] = "unwind"
        /\ UNCHANGED <<request, testo>> /\ Kind(c)' = Kind(c) /\ pc[c] = "respond"
    BY <1>b, <1>6 DEF Write, Worker
  <2>2. CASE sent[c] = <<>>
    <3>1. sent'[c] = <<status[c]>> /\ status[c] \in Nat
      BY <2>1, <2>2, Lines
    <3>2. Kind(c) = "generation" /\ status[c] = 200 => ~request[c].stream /\ testo[c] # None
      BY <2>1, <2>2, Lines DEF RequestShape, AnswerShape
    <3> QED
      BY <2>1, <3>1, <3>2, Lines DEF RequestShape, AnswerShape
  <2>3. CASE sent[c] # <<>>
    <3>1. sent[c] = <<200>> /\ status[c] = 500 /\ request[c].stream
      BY <2>1, <2>3 DEF RequestShape, AnswerShape
    <3>2. sent'[c] = <<200, 500>>
      <4>1. sent'[c] = Append(sent[c], status[c])
        BY <2>1
      <4>2. Append(<<200>>, 500) = <<200, 500>>
        BY ONLY TwoLines
      <4> QED
        BY ONLY <3>1, <4>1, <4>2
    <3>3. sent'[c] # <<>> /\ sent'[c] # <<200>>
      BY <3>2, Lines
    <3>4. AnswerShape(c)'
      BY <2>1, <3>1, <3>2, <3>3 DEF RequestShape, AnswerShape
    <3>5. RequestShape(c)'
      BY <2>1, <3>3, Lines DEF RequestShape, AnswerShape
    <3> QED
      BY <3>4, <3>5
  <2> QED
    BY <2>2, <2>3
<1>7. CASE GateAdd(c) \/ GateRefuse(c)
  <2>1. /\ \/ pc'[c] \in {"refused", "admitted"} /\ pc[c] = "gate"
           \/ pc'[c] = "respond" /\ pc[c] = "refused" /\ status'[c] = 503
        /\ UNCHANGED <<request, testo, sent>> /\ Kind(c)' = Kind(c)
    BY <1>b, <1>7 DEF GateAdd, GateRefuse, Worker
  <2>2. sent'[c] = <<>> /\ Kind(c)' = "generation" /\ testo'[c] = None /\ request'[c] \in Requests
    BY <2>1 DEF RequestShape, AnswerShape
  <2>3. pc'[c] = "respond" => status'[c] # 200
    BY <2>1
  <2> QED
    BY <2>1, <2>2, <2>3, Lines DEF RequestShape, AnswerShape
<1>8. CASE Prepare(c)
  <2>0. Kind(c)' = Kind(c)
    BY <1>b, <1>8 DEF Worker
  <2>1. /\ UNCHANGED <<request, testo>> /\ Kind(c)' = Kind(c) /\ pc[c] = "admitted"
        /\ \/ UNCHANGED <<pc, sent>>
           \/ /\ pc'[c] = "lock"
              /\ sent' = IF request[c].stream THEN [sent EXCEPT ![c] = Append(@, 200)] ELSE sent
    BY <1>8, <2>0 DEF Prepare, Terminate
  <2>2. sent[c] = <<>> /\ Kind(c) = "generation"
    BY <2>1 DEF RequestShape, AnswerShape
  <2>3. \/ UNCHANGED <<pc, sent>>
        \/ pc'[c] = "lock" /\ sent'[c] = IF request[c].stream THEN <<200>> ELSE <<>>
    BY <2>1, <2>2, Lines
  <2>4. CASE UNCHANGED <<pc, sent>>
    BY <2>1, <2>4 DEF RequestShape, AnswerShape
  <2>5. CASE pc'[c] = "lock" /\ request[c].stream /\ sent'[c] = <<200>>
    BY <2>1, <2>2, <2>5, Lines DEF RequestShape, AnswerShape
  <2>6. CASE pc'[c] = "lock" /\ ~request[c].stream /\ sent'[c] = <<>>
    BY <2>1, <2>2, <2>6, Lines DEF RequestShape, AnswerShape
  <2> QED
    BY <2>3, <2>4, <2>5, <2>6
<1>9. CASE LockEngine(c)
  BY <1>b, <1>9 DEF LockEngine, Worker, RequestShape, AnswerShape
<1>10. CASE GenerationEnds(c)
  <2>1. /\ UNCHANGED <<request, sent>> /\ Kind(c)' = Kind(c)
        /\ pc[c] = "engine" /\ Kind(c) = "generation"
    BY <1>b, <1>10 DEF GenerationEnds, Worker
  <2>2. \/ request[c].stream /\ pc'[c] = "unwind" /\ testo' = testo
        \/ /\ ~request[c].stream /\ testo'[c] = "fast"
           /\ \/ pc'[c] = "escalate"
              \/ pc'[c] = "respond" /\ status'[c] = 200
    BY <1>10 DEF GenerationEnds
  <2>3. CASE request[c].stream /\ pc'[c] = "unwind" /\ testo' = testo
    <3>1. sent'[c] = <<200>> /\ testo'[c] = None /\ request'[c].stream /\ request'[c] \in Requests
      BY <2>1, <2>3 DEF RequestShape, AnswerShape
    <3> QED
      BY <2>3, <3>1, Lines DEF RequestShape, AnswerShape
  <2>4. CASE ~request[c].stream /\ testo'[c] = "fast"
    BY <2>1, <2>2, <2>4, Lines DEF None, RequestShape, AnswerShape
  <2> QED
    BY <2>2, <2>3, <2>4
<1>11. CASE GenerationThrows(c)
  <2>1. /\ UNCHANGED <<request, sent, testo>> /\ Kind(c)' = Kind(c)
        /\ pc[c] = "engine" /\ Kind(c) = "generation"
        /\ pc'[c] = "respond" /\ status'[c] = 500
    BY <1>b, <1>11 DEF GenerationThrows, Worker
  <2> QED
    BY <2>1, Lines DEF RequestShape, AnswerShape
<1>12. CASE Escalate(c)
  <2>0. Kind(c)' = Kind(c)
    BY <1>b, <1>12 DEF Worker
  <2>1. /\ UNCHANGED <<request, sent>> /\ Kind(c)' = Kind(c)
        /\ pc[c] = "escalate" /\ pc'[c] = "respond"
        /\ testo'[c] \in {"fast", "deep"}
    BY <1>12, <2>0 DEF Escalate, Relayed
  <2> QED
    BY <2>1, Lines DEF None, RequestShape, AnswerShape
<1>13. CASE Unwind(c)
  <2>1. /\ UNCHANGED <<request, sent>> /\ Kind(c)' = Kind(c)
        /\ pc[c] = "unwind" /\ pc'[c] = "return" /\ testo'[c] = None
    BY <1>b, <1>13 DEF Unwind, Worker
  <2> QED
    BY <2>1 DEF RequestShape, AnswerShape
<1>14. CASE WarmEnds(c) \/ WarmThrows(c) \/ SessionEnds(c)
  <2>0. Kind(c)' = Kind(c)
    BY <1>b, <1>14 DEF Worker
  <2>1. /\ UNCHANGED <<request, sent, testo>> /\ Kind(c)' = Kind(c)
        /\ pc[c] = "engine" /\ Kind(c) # "generation" /\ pc'[c] = "respond"
    BY <1>14, <2>0 DEF WarmEnds, WarmThrows, SessionEnds
  <2> QED
    BY <2>1, Lines DEF RequestShape, AnswerShape
<1>15. CASE SessionThrows(c) \/ EscalationKilled(c)
  <2>1. UNCHANGED <<pc, status, request, testo, sent>> /\ Kind(c)' = Kind(c)
    BY <1>b, <1>15 DEF SessionThrows, EscalationKilled, Terminate, Worker
  <2> QED
    BY <2>1 DEF RequestShape, AnswerShape
<1>16. CASE Return(c)
  <2>1. /\ UNCHANGED <<request, testo, sent>> /\ pc[c] = "return" /\ pc'[c] = "gone"
    BY <1>16 DEF Return
  <2> QED
    BY <2>1 DEF RequestShape, AnswerShape
<1> QED
  BY <1>1, <1>2, <1>3, <1>4, <1>5, <1>6, <1>7, <1>8, <1>9, <1>10, <1>11, <1>12, <1>13, <1>14,
     <1>15, <1>16 DEF Client, Worker

LEMMA ShapeStep ==
  Inv /\ [Next]_vars => \A c \in Conns : RequestShape(c)' /\ AnswerShape(c)'
<1> SUFFICES ASSUME Inv, [Next]_vars, NEW d \in Conns
             PROVE  RequestShape(d)' /\ AnswerShape(d)'
  OBVIOUS
<1>0. TypeOK /\ \A c \in Conns : RequestShape(c) /\ AnswerShape(c)
  BY DEF Inv
<1>1. CASE /\ pc'[d] = pc[d] /\ request'[d] = request[d] /\ status'[d] = status[d]
           /\ testo'[d] = testo[d] /\ sent'[d] = sent[d]
  BY <1>0, <1>1 DEF RequestShape, AnswerShape, Kind
<1>2. CASE QuietStep
  BY <1>1, <1>2, QuietFrame DEF connVars
<1>3. ASSUME NEW c \in Conns, Client(c) \/ Worker(c) \/ Accept(c) \/ Spawn(c)
      PROVE  RequestShape(d)' /\ AnswerShape(d)'
  <2>1. CASE d = c
    BY <1>0, <1>3, <2>1, OwnShape
  <2>2. CASE d # c
    BY <1>0, <1>1, <1>3, <2>2, OthersStay
  <2> QED
    BY <2>1, <2>2
<1> QED
  BY <1>2, <1>3, NextSplit

-----------------------------------------------------------------------------
(* The metrics                                                             *)

Counted == {c \in {d \in Conns : request[d] # NoRequest} : pc[c] # "route"}
GotError(c) == \E i \in 1..Len(sent[c]) : sent[c][i] >= 400
Failed == {c \in {d \in Conns : request[d] # NoRequest} : GotError(c)}

MetricsExact == ~aborted => /\ total_requests = Cardinality(Counted)
                            /\ errors = Cardinality(Failed)

LEMMA NoRequestIsNone == NoRequest \notin Requests
BY HttpAssumption DEF NoRequest, Request, Methods, None

\* What a step of connection c does to the metrics.
LEMMA MetricsEffect ==
  ASSUME TypeOK, NEW c \in Conns, Client(c) \/ Worker(c) \/ Accept(c) \/ Spawn(c),
         RequestShape(c), ~aborted'
  PROVE  /\ \/ UNCHANGED total_requests /\ (c \in Counted' <=> c \in Counted)
            \/ /\ total_requests' = total_requests + 1
               /\ c \notin Counted /\ c \in Counted'
         /\ \/ UNCHANGED errors /\ (c \in Failed' <=> c \in Failed)
            \/ errors' = errors + 1 /\ c \notin Failed /\ c \in Failed'
<1>a. /\ pc \in [Conns -> Places] /\ request \in [Conns -> Requests \cup {NoRequest}]
      /\ status \in [Conns -> Nat] /\ sent \in [Conns -> Seq(Nat)]
  BY DEF TypeOK
<1>b. /\ c \in Counted <=> request[c] # NoRequest /\ pc[c] # "route"
      /\ c \in Counted' <=> request'[c] # NoRequest /\ pc'[c] # "route"
      /\ c \in Failed <=> request[c] # NoRequest /\ GotError(c)
      /\ c \in Failed' <=> request'[c] # NoRequest /\ GotError(c)'
  BY DEF Counted, Failed
<1>c. /\ sent'[c] = sent[c] => (GotError(c)' <=> GotError(c))
      /\ sent[c] = <<>> => ~GotError(c)
      /\ \A n \in Nat : sent[c] = <<n>> => (GotError(c) <=> n >= 400)
      /\ \A n \in Nat : sent'[c] = <<n>> => (GotError(c)' <=> n >= 400)
      /\ sent'[c] = <<200, 500>> => GotError(c)'
  <2>1. sent'[c] = sent[c] => (GotError(c)' <=> GotError(c))
    BY DEF GotError
  <2>2. sent[c] = <<>> => ~GotError(c)
    BY DEF GotError
  <2>3. \A n \in Nat : sent[c] = <<n>> => (GotError(c) <=> n >= 400)
    BY DEF GotError
  <2>4. \A n \in Nat : sent'[c] = <<n>> => (GotError(c)' <=> n >= 400)
    BY DEF GotError
  <2>5. sent'[c] = <<200, 500>> => GotError(c)'
    <3> SUFFICES ASSUME sent'[c] = <<200, 500>> PROVE GotError(c)'
      OBVIOUS
    <3>1. 2 \in 1..Len(sent'[c]) /\ sent'[c][2] >= 400
      BY Lines
    <3> QED
      BY <3>1 DEF GotError
  <2> QED
    BY <2>1, <2>2, <2>3, <2>4, <2>5
<1> DEFINE Kept == /\ UNCHANGED <<total_requests, errors>>
                   /\ (pc[c] = "route" <=> pc'[c] = "route") \/ request[c] = NoRequest
                   /\ request'[c] = request[c]
                   /\ sent'[c] = sent[c] \/ request[c] = NoRequest
<1>d. Kept => /\ UNCHANGED <<total_requests, errors>>
              /\ c \in Counted' <=> c \in Counted
              /\ c \in Failed' <=> c \in Failed
  BY <1>b, <1>c
<1> HIDE DEF Counted, Failed, GotError
<1> USE <1>a DEF At, Goto, Answer, handlerVars, restVars
<1>1. CASE ClientConnects(c) \/ ReadDropped(c) \/ Accept(c) \/ Spawn(c)
  <2>1. Kept
    BY <1>1 DEF ClientConnects, ReadDropped, Accept, Spawn
  <2> QED
    BY <1>d, <2>1
<1>2. CASE ReadRejected(c)
  <2>1. request[c] = NoRequest
    BY <1>2 DEF ReadRejected, RequestShape
  <2>2. Kept
    BY <1>2, <2>1 DEF ReadRejected
  <2> QED
    BY <1>d, <2>2
<1>3. CASE ReadRequest(c)
  <2>1. /\ UNCHANGED <<total_requests, errors, sent>> /\ pc'[c] = "route"
        /\ request[c] = NoRequest /\ sent[c] = <<>>
    BY <1>3 DEF ReadRequest, RequestShape
  <2>2. c \notin Counted /\ c \notin Counted' /\ c \notin Failed /\ c \notin Failed'
    BY <1>b, <1>c, <2>1
  <2> QED
    BY <2>1, <2>2
<1>4. CASE Route(c)
  <2>1. /\ pc[c] = "route" /\ UNCHANGED <<request, sent, errors>>
        /\ total_requests' = total_requests + 1 /\ request[c] \in Requests
    BY <1>4 DEF Route, RequestShape
  <2>2. pc'[c] # "route"
    BY <1>4 DEF Route, Terminate
  <2> QED
    BY <1>b, <1>c, <2>1, <2>2, NoRequestIsNone
<1>5. CASE Write(c)
  <2>1. /\ pc[c] = "respond" /\ UNCHANGED <<request, total_requests>> /\ pc'[c] = "unwind"
        /\ sent' = [sent EXCEPT ![c] = Append(@, status[c])]
        /\ errors' = IF status[c] >= 400 THEN errors + 1 ELSE errors
    BY <1>5 DEF Write
  <2>2. request[c] # NoRequest
    BY <2>1, NoRequestIsNone DEF RequestShape
  <2>3. /\ c \in Counted /\ c \in Counted'
        /\ c \in Failed <=> GotError(c)
        /\ c \in Failed' <=> GotError(c)'
    BY <1>b, <2>1, <2>2
  <2>4. sent'[c] = Append(sent[c], status[c]) /\ sent[c] \in Seq(Nat) /\ status[c] \in Nat
    BY <2>1
  <2>5. CASE sent[c] = <<>>
    <3>1. sent'[c] = <<status[c]>>
      BY <2>4, <2>5, Lines
    <3>2. ~GotError(c) /\ (GotError(c)' <=> status[c] >= 400)
      BY <1>c, <2>4, <2>5, <3>1
    <3> QED
      BY <2>1, <2>3, <3>2
  <2>6. CASE sent[c] # <<>>
    <3>1. sent[c] = <<200>> /\ status[c] = 500
      BY <2>1, <2>6 DEF RequestShape
    <3>2. sent'[c] = <<200, 500>>
      BY ONLY <2>4, <3>1, TwoLines
    <3>3. ~GotError(c) /\ GotError(c)'
      BY <1>c, <3>1, <3>2
    <3> QED
      BY <2>1, <2>3, <3>1, <3>3
  <2> QED
    BY <2>5, <2>6
<1>6. CASE Prepare(c)
  <2>1. /\ pc[c] = "admitted" /\ UNCHANGED <<request, total_requests, errors>>
        /\ pc'[c] = "lock" /\ sent[c] = <<>>
        /\ sent' = IF request[c].stream THEN [sent EXCEPT ![c] = Append(@, 200)] ELSE sent
    BY <1>6 DEF Prepare, Terminate, RequestShape
  <2>2. sent'[c] = sent[c] \/ sent'[c] = <<200>>
    BY <2>1, Lines
  <2>3. ~GotError(c) /\ ~GotError(c)'
    BY <1>c, <2>1, <2>2
  <2> QED
    BY <1>b, <2>1, <2>3
<1>7. CASE GateAdd(c) \/ GateRefuse(c) \/ LockEngine(c) \/ Escalate(c) \/ Unwind(c)
  <2>1. Kept
    BY <1>7 DEF GateAdd, GateRefuse, LockEngine, Escalate, Unwind
  <2> QED
    BY <1>d, <2>1
<1>8. CASE GenerationEnds(c) \/ GenerationThrows(c) \/ Return(c)
  <2>1. Kept
    BY <1>8 DEF GenerationEnds, GenerationThrows, Return
  <2> QED
    BY <1>d, <2>1
<1>9. CASE WarmEnds(c) \/ WarmThrows(c) \/ SessionEnds(c) \/ SessionThrows(c) \/ EscalationKilled(c)
  <2>1. Kept
    BY <1>9 DEF WarmEnds, WarmThrows, SessionEnds, SessionThrows, EscalationKilled, Terminate
  <2> QED
    BY <1>d, <2>1
<1> QED
  BY <1>1, <1>2, <1>3, <1>4, <1>5, <1>6, <1>7, <1>8, <1>9 DEF Client, Worker

LEMMA MetricsStep == Inv /\ [Next]_vars => MetricsExact'
<1> SUFFICES ASSUME Inv, [Next]_vars PROVE MetricsExact'
  OBVIOUS
<1>0. TypeOK /\ MetricsExact /\ \A c \in Conns : RequestShape(c)
  BY DEF Inv, AnswersAddUp, MetricsExact, Counted, Failed, GotError
<1>1. CASE QuietStep
  <2>1. UNCHANGED <<pc, request, sent, total_requests, errors, aborted>>
    BY <1>1, QuietFrame DEF connVars, handlerVars
  <2>2. Counted' = Counted /\ Failed' = Failed
    BY <2>1 DEF Counted, Failed, GotError
  <2> QED
    BY <1>0, <2>1, <2>2 DEF MetricsExact
<1>2. ASSUME NEW c \in Conns, Client(c) \/ Worker(c) \/ Accept(c) \/ Spawn(c)
      PROVE  MetricsExact'
  <2> SUFFICES ASSUME ~aborted'
               PROVE  /\ total_requests' = Cardinality(Counted')
                      /\ errors' = Cardinality(Failed')
    BY DEF MetricsExact
  <2>0. ~aborted
    BY <1>2 DEF At, Client, ClientConnects, ReadDropped, ReadRejected, ReadRequest, Accept,
              Spawn, Worker, Route, Write, GateAdd, GateRefuse, Prepare, LockEngine,
              GenerationEnds, GenerationThrows, Escalate, Unwind, WarmEnds, WarmThrows,
              SessionEnds, SessionThrows, EscalationKilled, Return
  <2>1. \A d \in Conns \ {c} : pc'[d] = pc[d] /\ request'[d] = request[d] /\ sent'[d] = sent[d]
    BY <1>0, <1>2, OthersStay
  <2>2. Counted' = IF c \in Counted' THEN Counted \cup {c} ELSE Counted \ {c}
    BY <2>1 DEF Counted
  <2>3. Failed' = IF c \in Failed' THEN Failed \cup {c} ELSE Failed \ {c}
    <3>1. \A d \in Conns \ {c} : GotError(d)' <=> GotError(d)
      BY <2>1 DEF GotError
    <3> QED
      BY <2>1, <3>1 DEF Failed
  <2>4. /\ IsFiniteSet(Counted) /\ Cardinality(Counted) \in Nat
        /\ IsFiniteSet(Failed) /\ Cardinality(Failed) \in Nat
    BY ConnsFinite DEF Counted, Failed
  <2>5. /\ c \notin Counted => Cardinality(Counted \cup {c}) = Cardinality(Counted) + 1
        /\ c \notin Failed => Cardinality(Failed \cup {c}) = Cardinality(Failed) + 1
    BY <2>4, FS_AddElement
  <2>6. total_requests = Cardinality(Counted) /\ errors = Cardinality(Failed)
    BY <1>0, <2>0 DEF MetricsExact
  <2>7. /\ \/ UNCHANGED total_requests /\ Counted' = Counted
           \/ /\ total_requests' = total_requests + 1
              /\ c \notin Counted /\ Counted' = Counted \cup {c}
        /\ \/ UNCHANGED errors /\ Failed' = Failed
           \/ /\ errors' = errors + 1
              /\ c \notin Failed /\ Failed' = Failed \cup {c}
    <3>1. /\ \/ UNCHANGED total_requests /\ (c \in Counted' <=> c \in Counted)
             \/ /\ total_requests' = total_requests + 1
                /\ c \notin Counted /\ c \in Counted'
          /\ \/ UNCHANGED errors /\ (c \in Failed' <=> c \in Failed)
             \/ errors' = errors + 1 /\ c \notin Failed /\ c \in Failed'
      BY <1>0, <1>2, MetricsEffect
    <3>2. /\ (c \in Counted' <=> c \in Counted) => Counted' = Counted
          /\ (c \in Failed' <=> c \in Failed) => Failed' = Failed
      BY <2>2, <2>3
    <3> QED
      BY <2>2, <2>3, <3>1, <3>2
  <2>8. total_requests' = Cardinality(Counted')
    BY <2>5, <2>6, <2>7
  <2>9. errors' = Cardinality(Failed')
    BY <2>5, <2>6, <2>7
  <2> QED
    BY <2>8, <2>9
<1> QED
  BY <1>1, <1>2, NextSplit

-----------------------------------------------------------------------------
(* Types                                                                   *)

\* The part of TypeOK about the connections and the handlers' state.
ConnTypes ==
  /\ pc \in [Conns -> Places]
  /\ request \in [Conns -> Requests \cup {NoRequest}]
  /\ status \in [Conns -> Nat] /\ sent \in [Conns -> Seq(Nat)]
  /\ testo \in [Conns -> {None, "fast", "deep"}]
  /\ engine_mutex \in Conns \cup {0}
  /\ total_requests \in Nat /\ errors \in Nat

LEMMA ConnTypesStep ==
  ASSUME TypeOK, NEW c \in Conns, Client(c) \/ Worker(c) \/ Accept(c) \/ Spawn(c)
  PROVE  ConnTypes'
<1>0. ConnTypes
  BY DEF TypeOK, ConnTypes
<1> USE DEF Goto, Answer, Terminate
<1>1. pc' = pc \/ \E there \in Places : pc' = [pc EXCEPT ![c] = there]
  <2> USE DEF Places
  <2>1. CASE Client(c) \/ Accept(c) \/ Spawn(c)
    BY <2>1 DEF Client, ClientConnects, ReadDropped, ReadRejected, ReadRequest, Accept, Spawn
  <2>2. CASE Route(c) \/ Write(c) \/ GateAdd(c) \/ GateRefuse(c) \/ Prepare(c) \/ LockEngine(c)
    BY <2>2 DEF Route, Write, GateAdd, GateRefuse, Prepare, LockEngine
  <2>3. CASE GenerationEnds(c) \/ GenerationThrows(c) \/ Escalate(c) \/ Unwind(c) \/ Return(c)
    BY <2>3 DEF GenerationEnds, GenerationThrows, Escalate, Unwind, Return
  <2>4. CASE WarmEnds(c) \/ WarmThrows(c) \/ SessionEnds(c) \/ SessionThrows(c) \/ EscalationKilled(c)
    BY <2>4 DEF WarmEnds, WarmThrows, SessionEnds, SessionThrows, EscalationKilled
  <2> QED
    BY <2>1, <2>2, <2>3, <2>4 DEF Worker
<1>2. status' = status \/ \E n \in Nat : status' = [status EXCEPT ![c] = n]
  <2>1. CASE Client(c) \/ Accept(c) \/ Spawn(c)
    BY <2>1 DEF Client, ClientConnects, ReadDropped, ReadRejected, ReadRequest, Accept, Spawn
  <2>2. CASE Route(c)
    BY <2>2, RouteType DEF Route
  <2>3. CASE Write(c) \/ GateAdd(c) \/ GateRefuse(c) \/ Prepare(c) \/ LockEngine(c)
    BY <2>3 DEF Write, GateAdd, GateRefuse, Prepare, LockEngine
  <2>4. CASE GenerationEnds(c) \/ GenerationThrows(c) \/ Escalate(c) \/ Unwind(c) \/ Return(c)
    BY <2>4 DEF GenerationEnds, GenerationThrows, Escalate, Unwind, Return
  <2>5. CASE WarmEnds(c) \/ WarmThrows(c) \/ SessionEnds(c) \/ SessionThrows(c) \/ EscalationKilled(c)
    BY <2>5 DEF WarmEnds, WarmThrows, SessionEnds, SessionThrows, EscalationKilled
  <2> QED
    BY <2>1, <2>2, <2>3, <2>4, <2>5 DEF Worker
<1>3. testo' = testo \/ \E text \in {None, "fast", "deep"} : testo' = [testo EXCEPT ![c] = text]
  <2>1. CASE Client(c) \/ Accept(c) \/ Spawn(c)
    BY <2>1 DEF Client, ClientConnects, ReadDropped, ReadRejected, ReadRequest, Accept, Spawn
  <2>2. CASE Route(c) \/ Write(c) \/ GateAdd(c) \/ GateRefuse(c) \/ Prepare(c) \/ LockEngine(c)
    BY <2>2 DEF Route, Write, GateAdd, GateRefuse, Prepare, LockEngine
  <2>3. CASE GenerationEnds(c) \/ GenerationThrows(c) \/ Escalate(c) \/ Unwind(c) \/ Return(c)
    BY <2>3 DEF GenerationEnds, GenerationThrows, Escalate, Relayed, Unwind, Return
  <2>4. CASE WarmEnds(c) \/ WarmThrows(c) \/ SessionEnds(c) \/ SessionThrows(c) \/ EscalationKilled(c)
    BY <2>4 DEF WarmEnds, WarmThrows, SessionEnds, SessionThrows, EscalationKilled
  <2> QED
    BY <2>1, <2>2, <2>3, <2>4 DEF Worker
<1>4. sent' = sent \/ \E n \in Nat : sent' = [sent EXCEPT ![c] = Append(@, n)]
  <2>1. CASE Client(c) \/ Accept(c) \/ Spawn(c)
    BY <2>1 DEF Client, ClientConnects, ReadDropped, ReadRejected, ReadRequest, Accept, Spawn
  <2>2. CASE Write(c)
    BY <1>0, <2>2 DEF Write, ConnTypes
  <2>3. CASE Prepare(c)
    BY <2>3 DEF Prepare
  <2>4. CASE Route(c) \/ GateAdd(c) \/ GateRefuse(c) \/ LockEngine(c)
    BY <2>4 DEF Route, GateAdd, GateRefuse, LockEngine
  <2>5. CASE GenerationEnds(c) \/ GenerationThrows(c) \/ Escalate(c) \/ Unwind(c) \/ Return(c)
    BY <2>5 DEF GenerationEnds, GenerationThrows, Escalate, Unwind, Return
  <2>6. CASE WarmEnds(c) \/ WarmThrows(c) \/ SessionEnds(c) \/ SessionThrows(c) \/ EscalationKilled(c)
    BY <2>6 DEF WarmEnds, WarmThrows, SessionEnds, SessionThrows, EscalationKilled
  <2> QED
    BY <2>1, <2>2, <2>3, <2>4, <2>5, <2>6 DEF Worker
<1>5. request' = request \/ \E r \in Requests : request' = [request EXCEPT ![c] = r]
  <2>1. CASE Client(c)
    BY <2>1 DEF Client, ClientConnects, ReadDropped, ReadRejected, ReadRequest
  <2>2. CASE Worker(c) \/ Accept(c) \/ Spawn(c)
    BY <2>2, KindStays
  <2> QED
    BY <2>1, <2>2
<1>6. /\ engine_mutex' \in {engine_mutex, c, 0}
      /\ total_requests' \in {total_requests, total_requests + 1}
      /\ errors' \in {errors, errors + 1}
  <2> USE DEF handlerVars, Unlocked
  <2>1. CASE Client(c) \/ Accept(c) \/ Spawn(c)
    BY <2>1 DEF Client, ClientConnects, ReadDropped, ReadRejected, ReadRequest, Accept, Spawn
  <2>2. CASE Route(c) \/ Write(c) \/ GateAdd(c) \/ GateRefuse(c) \/ Prepare(c) \/ LockEngine(c)
    BY <2>2 DEF Route, Write, GateAdd, GateRefuse, Prepare, LockEngine
  <2>3. CASE GenerationEnds(c) \/ GenerationThrows(c) \/ Escalate(c) \/ Unwind(c) \/ Return(c)
    BY <2>3 DEF GenerationEnds, GenerationThrows, Escalate, Unwind, Return
  <2>4. CASE WarmEnds(c) \/ WarmThrows(c) \/ SessionEnds(c) \/ SessionThrows(c) \/ EscalationKilled(c)
    BY <2>4 DEF WarmEnds, WarmThrows, SessionEnds, SessionThrows, EscalationKilled
  <2> QED
    BY <2>1, <2>2, <2>3, <2>4 DEF Worker
<1>7. pc' \in [Conns -> Places]
  BY <1>0, <1>1 DEF ConnTypes
<1>8. status' \in [Conns -> Nat]
  BY <1>0, <1>2 DEF ConnTypes
<1>9. testo' \in [Conns -> {None, "fast", "deep"}]
  <2> DEFINE Texts == {None, "fast", "deep"}
  <2>1. testo \in [Conns -> Texts]
    BY <1>0 DEF ConnTypes
  <2>2. testo' = testo \/ \E text \in Texts : testo' = [testo EXCEPT ![c] = text]
    BY <1>3
  <2> HIDE DEF Texts
  <2>3. testo' \in [Conns -> Texts]
    BY <2>1, <2>2
  <2> QED
    BY <2>3 DEF Texts
<1>10. sent' \in [Conns -> Seq(Nat)]
  <2>1. sent \in [Conns -> Seq(Nat)] /\ sent[c] \in Seq(Nat)
    BY <1>0 DEF ConnTypes
  <2>2. \A n \in Nat : Append(sent[c], n) \in Seq(Nat)
    BY <2>1, AppendProperties
  <2>3. sent' = sent \/ \E s \in Seq(Nat) : sent' = [sent EXCEPT ![c] = s]
    BY <1>4, <2>2
  <2> QED
    BY <2>1, <2>3
<1>11. request' \in [Conns -> Requests \cup {NoRequest}]
  BY <1>0, <1>5 DEF ConnTypes
<1>12. /\ engine_mutex' \in Conns \cup {0}
       /\ total_requests' \in Nat /\ errors' \in Nat
  BY <1>0, <1>6 DEF ConnTypes
<1> QED
  BY <1>7, <1>8, <1>9, <1>10, <1>11, <1>12, Zenon DEF ConnTypes

LEMMA TypeStep == Inv /\ [Next]_vars => TypeOK'
<1> SUFFICES ASSUME Inv, [Next]_vars PROVE TypeOK'
  OBVIOUS
<1>0. TypeOK
  BY DEF Inv
<1>1. ConnTypes'
  <2>1. CASE QuietStep
    BY <1>0, <2>1, QuietFrame DEF TypeOK, ConnTypes, connVars, handlerVars
  <2> QED
    BY <1>0, <2>1, NextSplit, ConnTypesStep
<1>2. active_connections' \in Nat
  <2>1. Live' \subseteq Conns /\ active_connections' = Cardinality(Live')
    BY DrainStep DEF DrainIsComplete, Live
  <2> QED
    BY <2>1, ConnsFinite
<1>3. active_generations' \in Nat /\ acquired' \subseteq Conns
  <2>1. /\ acquired' \subseteq Conns /\ Refused' \subseteq Conns
        /\ active_generations' = Cardinality(acquired') + Cardinality(Refused')
    BY GateStep DEF GateCount, Refused
  <2>2. Cardinality(acquired') \in Nat /\ Cardinality(Refused') \in Nat
    BY <2>1, ConnsFinite
  <2> QED
    BY <2>1, <2>2
<1>4. /\ acceptor' \in {"none", "open", "closed"}
      /\ accept_loop' \in {"none", "head", "accept", "spawn", "exited"}
      /\ main' \in {"start", "lock", "pred", "asleep", "leave", "stop", "close", "join",
                    "drain", "exited"}
  <2>1. CASE QuietStep
    <3> USE DEF serverVars, mainVars, restVars, vars, MainIs
    <3>1. CASE AcceptHead \/ AcceptNothing \/ UNCHANGED vars
      BY <1>0, <3>1 DEF AcceptHead, AcceptNothing, TypeOK
    <3>2. CASE Signal
      BY <1>0, <3>2 DEF Signal, TypeOK
    <3>3. CASE Main
      BY <1>0, <3>3 DEF Main, MainStart, MainWaits, StopFlag, StopClose, StopJoin, StopDrain,
                        TypeOK
    <3> QED
      BY <2>1, <3>1, <3>2, <3>3 DEF QuietStep
  <2>2. ASSUME NEW c \in Conns, Client(c) \/ Worker(c) \/ Accept(c) \/ Spawn(c)
        PROVE  /\ acceptor' = acceptor /\ main' = main
               /\ accept_loop' \in {accept_loop, "spawn", "head"}
    <3> USE DEF serverVars, mainVars, restVars
    <3>1. CASE Client(c) \/ Accept(c) \/ Spawn(c)
      BY <3>1 DEF Client, ClientConnects, ReadDropped, ReadRejected, ReadRequest, Accept, Spawn
    <3>2. CASE Worker(c)
      BY <3>2 DEF Worker, Route, Write, GateAdd, GateRefuse, Prepare, LockEngine, GenerationEnds,
                  GenerationThrows, Escalate, Unwind, WarmEnds, WarmThrows, SessionEnds,
                  SessionThrows, EscalationKilled, Return
    <3> QED
      BY <2>2, <3>1, <3>2
  <2> QED
    BY <1>0, <2>1, <2>2, NextSplit DEF TypeOK
<1>5. running' \in BOOLEAN /\ {parallel_capable', g_shutdown', stuck', timed_out', aborted'} \subseteq BOOLEAN
  <2>0. /\ running \in BOOLEAN /\ parallel_capable \in BOOLEAN /\ g_shutdown \in BOOLEAN
        /\ stuck \in BOOLEAN /\ timed_out \in BOOLEAN /\ aborted \in BOOLEAN
    BY <1>0, Zenon DEF TypeOK
  <2>1. CASE QuietStep
    <3> USE DEF serverVars, mainVars, restVars, vars
    <3>1. CASE AcceptHead \/ AcceptNothing \/ UNCHANGED vars
      <4>1. UNCHANGED <<running, parallel_capable, g_shutdown, stuck, timed_out, aborted>>
        BY <3>1 DEF AcceptHead, AcceptNothing
      <4> QED
        BY <2>0, <4>1, Zenon
    <3>2. CASE Signal
      <4>1. /\ UNCHANGED <<running, parallel_capable, timed_out, aborted>>
            /\ \/ stuck' = TRUE /\ g_shutdown' = g_shutdown
               \/ g_shutdown' = TRUE /\ stuck' = stuck
        BY <3>2 DEF Signal
      <4> QED
        BY <2>0, <4>1, Zenon
    <3>3. CASE MainStart \/ MainWaits \/ StopFlag \/ StopClose \/ StopJoin
      <4>1. /\ UNCHANGED <<parallel_capable, g_shutdown, stuck, timed_out, aborted>>
            /\ \/ running' = running
               \/ running' = TRUE
               \/ running' = FALSE
        BY <3>3 DEF MainStart, MainWaits, StopFlag, StopClose, StopJoin
      <4> QED
        BY <2>0, <4>1, Zenon
    <3>4. CASE StopDrain
      <4>1. /\ UNCHANGED <<running, parallel_capable, g_shutdown, stuck, aborted>>
            /\ timed_out' = (active_connections > 0)
        BY <3>4 DEF StopDrain
      <4>2. (active_connections > 0) \in BOOLEAN
        BY <1>0 DEF TypeOK
      <4> QED
        BY <2>0, <4>1, <4>2, Zenon
    <3> QED
      BY <2>1, <3>1, <3>2, <3>3, <3>4 DEF QuietStep, Main
  <2>2. ASSUME NEW c \in Conns, Client(c) \/ Worker(c) \/ Accept(c) \/ Spawn(c)
        PROVE  /\ UNCHANGED <<running, parallel_capable, g_shutdown, stuck, timed_out>>
               /\ aborted' = aborted \/ aborted' = TRUE
    <3> USE DEF serverVars, mainVars, restVars, Terminate
    <3>1. CASE Client(c) \/ Accept(c) \/ Spawn(c)
      BY <3>1 DEF Client, ClientConnects, ReadDropped, ReadRejected, ReadRequest, Accept, Spawn
    <3>2. CASE Route(c) \/ Write(c) \/ GateAdd(c) \/ GateRefuse(c) \/ Prepare(c) \/ LockEngine(c)
      BY <3>2 DEF Route, Write, GateAdd, GateRefuse, Prepare, LockEngine
    <3>3. CASE GenerationEnds(c) \/ GenerationThrows(c) \/ Escalate(c) \/ Unwind(c) \/ Return(c)
      BY <3>3 DEF GenerationEnds, GenerationThrows, Escalate, Unwind, Return
    <3>4. CASE WarmEnds(c) \/ WarmThrows(c) \/ SessionEnds(c) \/ SessionThrows(c) \/ EscalationKilled(c)
      BY <3>4 DEF WarmEnds, WarmThrows, SessionEnds, SessionThrows, EscalationKilled
    <3> QED
      BY <2>2, <3>1, <3>2, <3>3, <3>4 DEF Worker
  <2>3. ASSUME NEW c \in Conns, Client(c) \/ Worker(c) \/ Accept(c) \/ Spawn(c)
        PROVE  /\ running' \in BOOLEAN
               /\ {parallel_capable', g_shutdown', stuck', timed_out', aborted'} \subseteq BOOLEAN
    <3>1. /\ UNCHANGED <<running, parallel_capable, g_shutdown, stuck, timed_out>>
          /\ aborted' = aborted \/ aborted' = TRUE
      BY <2>2, <2>3
    <3> QED
      BY <2>0, <3>1, Zenon
  <2> QED
    BY <2>1, <2>3, NextSplit, Zenon
<1> QED
  BY <1>1, <1>2, <1>3, <1>4, <1>5 DEF TypeOK, ConnTypes

-----------------------------------------------------------------------------

\* Every step keeps the invariant.
LEMMA NextInv == Inv /\ [Next]_vars => Inv'
<1> SUFFICES ASSUME Inv, [Next]_vars PROVE Inv'
  OBVIOUS
<1>1. TypeOK' /\ DrainIsComplete' /\ AcceptShape' /\ MutexOwned'
  BY TypeStep, DrainStep, AcceptStep, MutexStep
<1>2. GateCount' /\ GatePlaces'
  BY GateStep
<1>3. \A c \in Conns : RequestShape(c)' /\ AnswerShape(c)'
  BY ShapeStep
<1>4. GateExact'
  <2>1. \A c \in Conns : pc'[c] \in {"admitted", "escalate"} => c \in acquired'
    BY <1>2 DEF GatePlaces
  <2>2. acquired' \subseteq Live'
    BY <1>1, <1>2 DEF GatePlaces, Live, TypeOK
  <2> QED
    BY <1>1, <1>2, <2>1, <2>2 DEF GateExact, GateCount, Refused
<1>5. AnswersAddUp'
  BY <1>3, MetricsStep DEF AnswersAddUp, AnswerShape, MetricsExact, Counted, Failed, GotError
<1> QED
  BY <1>1, <1>2, <1>3, <1>4, <1>5 DEF Inv

\* The inductive invariant holds in every reachable state of the server.
THEOREM Invariance == Spec => []Inv
BY InitInv, NextInv, PTL DEF Spec

\* Whatever throws and whichever handler answers with the mutex held, two
\* workers are never inside a single-sequence engine together, and the engine
\* mutex is never left behind (run_generation(), handle_warm() and
\* handle_sessions() of api_handler.cpp).
THEOREM EngineIsExclusive == Spec => []EngineExclusive
<1>1. Inv => EngineExclusive
  BY MutexImpliesExclusive
<1> QED
  BY <1>1, Invariance, PTL

\* BusyGuard's fetch_add and fetch_sub stay balanced through refusals, failed
\* generations and escalations: the counter is the number of places taken and
\* refusals in progress, and never more than max_concurrent_requests have a place.
THEOREM GateIsExact == Spec => []GateExact
<1>1. Inv => GateExact
  BY DEF Inv
<1> QED
  BY <1>1, Invariance, PTL

\* Every routed request has its answer when its worker returns, a second status
\* line appears only after the headers of a stream that failed, and the
\* metrics count exactly the routed requests and the errors answered.
THEOREM AnswersCorrect == Spec => []AnswersAddUp
<1>1. Inv => AnswersAddUp
  BY DEF Inv
<1> QED
  BY <1>1, Invariance, PTL

\* stop() of http_server.cpp: active_connections_ is the number of workers that
\* still use the server, and a drain that ends in time leaves none behind, not
\* even a connection accepted while the flag was being cleared.
THEOREM DrainCorrect == Spec => []DrainIsComplete
<1>1. Inv => DrainIsComplete
  BY DEF Inv
<1> QED
  BY <1>1, Invariance, PTL
=============================================================================
