----------------------------- MODULE HttpServing -----------------------------
(***************************************************************************)
(* The HTTP side of the process: the accept thread and the detached        *)
(* connection workers of src/server/http_server.cpp, what each worker does *)
(* in src/server/api_handler.cpp (routes, the generation gate, the engine  *)
(* mutex, streaming, escalation to the deep lane of                        *)
(* src/server/escalation.cpp), and the main thread of src/main.cpp, which  *)
(* waits for a signal and then stops and destroys the server.              *)
(*                                                                         *)
(* A request is what route() and the handlers look at: method, path,       *)
(* credentials and whether its body has the fields that are read.  An      *)
(* answer is its status line.  The engine is a call that returns or        *)
(* throws; its own state is the subject of EngineContext, ParallelServing  *)
(* and CachePrefetch.  An exception that leaves a detached worker, a       *)
(* SIGPIPE nobody ignores, or a signal handler that locks a mutex its own  *)
(* thread holds, ends the process's service: aborted and stuck.            *)
(***************************************************************************)
EXTENDS Naturals, Sequences, FiniteSets, FiniteSetsExt

CONSTANTS MaxConns,                 \* bound: client connections, in the order they come
          Requests,                 \* requests the clients may send
          max_concurrent_requests,  \* Config: places in the generation gate
          enable_cors, enable_metrics,
          escalation_endpoint,      \* "none", "valid", "invalid" or "huge_port"
          escalation_trigger,       \* "empty", "broken" or "regex"
          lock_scoped               \* does the wait's lock end before stop()?

Conns == 1..MaxConns

Methods == {"GET", "POST", "DELETE", "OPTIONS"}

Targets == {"/health", "/metrics", "/v1/models", "/v1/completions",
            "/v1/chat/completions", "/v1/warm", "/v1/sessions",
            "/v1/sessions/id", "/v1/sessions/id/save", "/v1/sessions/id/load",
            "unknown", "not_utf8"}

\* "prompt" has every field the handler reads, "no_prompt" lacks it;
\* in "bad_messages" and "bad_options" a field that is read without a check
\* has another type, so that reading it throws.
Bodies == {"not_json", "no_prompt", "bad_messages", "bad_options", "prompt"}

Request == [method : Methods, target : Targets, authorized : BOOLEAN,
            body : Bodies, stream : BOOLEAN]

ASSUME HttpAssumption ==
  /\ MaxConns \in Nat
  /\ Requests \subseteq Request
  /\ max_concurrent_requests \in Nat
  /\ {enable_cors, enable_metrics, lock_scoped} \subseteq BOOLEAN
  /\ escalation_endpoint \in {"none", "valid", "invalid", "huge_port"}
  /\ escalation_trigger \in {"empty", "broken", "regex"}

None == "none"

\* where a connection can be: with the client, the accept thread or a worker
Places == {"none", "backlog", "accepted", "read", "route", "gate", "refused", "admitted",
           "lock", "engine", "escalate", "respond", "unwind", "return", "gone"}

NoRequest == [method |-> None, target |-> None, authorized |-> FALSE,
              body |-> None, stream |-> FALSE]

VARIABLES running, active_connections,      \* HttpServer::Impl
          acceptor,     \* "none", "open" or "closed"
          accept_loop,  \* where the accept thread is
          pc,           \* where each connection is
          request,      \* the request a worker was handed, NoRequest before that
          status,       \* the status its respond() is about to write
          testo,        \* where the text of a non-streaming answer comes from
          sent,         \* status lines written to each client
          engine_mutex, \* the worker that holds it, or 0
          acquired,     \* the workers whose BusyGuard got a place
          active_generations, total_requests, errors,
          parallel_capable,     \* engine.parallel_capable(), fixed at the start
          main,         \* where the main thread is
          g_shutdown,
          stuck,        \* history: the handler locked the mutex main holds
          timed_out,    \* history: the drain gave up
          aborted       \* std::terminate() was called, or SIGPIPE arrived

serverVars == <<running, active_connections, acceptor, accept_loop>>
handlerVars == <<engine_mutex, acquired, active_generations, total_requests, errors>>
connVars == <<pc, request, status, testo, sent>>
mainVars == <<main, g_shutdown, stuck, timed_out>>
restVars == <<mainVars, parallel_capable, aborted>>
vars == <<serverVars, handlerVars, connVars, restVars>>

Init == /\ running = FALSE /\ active_connections = 0
        /\ acceptor = "none" /\ accept_loop = "none"
        /\ pc = [c \in Conns |-> "none"]
        /\ request = [c \in Conns |-> NoRequest]
        /\ status = [c \in Conns |-> 0]
        /\ testo = [c \in Conns |-> None]
        /\ sent = [c \in Conns |-> <<>>]
        /\ engine_mutex = 0 /\ acquired = {}
        /\ active_generations = 0 /\ total_requests = 0 /\ errors = 0
        /\ parallel_capable \in BOOLEAN
        /\ main = "start"
        /\ g_shutdown = FALSE
        /\ stuck = FALSE /\ timed_out = FALSE /\ aborted = FALSE

-----------------------------------------------------------------------------
(* The router *)

Respond(n) == [handler |-> "respond", status |-> n]
Handler(h) == [handler |-> h, status |-> 0]

\* handle_generation() up to the point where it has a prompt: m.value() and
\* format_chat() are outside its try blocks
GenerationPrompt(r) ==
  IF \/ r.body \in {"not_json", "no_prompt"}
     \/ r.body = "bad_messages" /\ r.target = "/v1/completions"
  THEN Respond(400)
  ELSE Handler(IF r.body = "bad_messages" THEN "throw" ELSE "generation")

\* the same part of handle_warm(), which takes messages or a prompt
WarmPrompt(r) ==
  IF r.body \in {"not_json", "no_prompt"} THEN Respond(400)
  ELSE Handler(IF r.body = "bad_messages" THEN "throw" ELSE "warm")

handle_metrics == Respond(200)

\* Which answer or which handler a request gets, in the order of the checks.
\* A path that is not UTF-8 cannot be put into the JSON of its 404: dump() throws.
route(r) ==
  IF enable_cors /\ r.method = "OPTIONS" THEN Respond(204)
  ELSE IF r.target = "/health" THEN Respond(200)
  ELSE IF ~r.authorized THEN Respond(401)
  ELSE IF r.target = "/metrics" THEN IF enable_metrics THEN handle_metrics ELSE Respond(404)
  ELSE IF r.target = "/v1/models" THEN Respond(IF r.method = "GET" THEN 200 ELSE 405)
  ELSE IF r.target \in {"/v1/completions", "/v1/chat/completions"}
    THEN IF r.method # "POST" THEN Respond(405) ELSE GenerationPrompt(r)
  ELSE IF r.target = "/v1/warm"
    THEN IF r.method # "POST" THEN Respond(405) ELSE WarmPrompt(r)
  ELSE IF r.target = "unknown" THEN Respond(404)
  ELSE IF r.target = "not_utf8" THEN Handler("throw")
  ELSE Handler("sessions")

SessionOperation(r) ==
  \/ r.method = "POST" /\ r.target \in {"/v1/sessions", "/v1/sessions/id/save",
                                        "/v1/sessions/id/load"}
  \/ r.method = "DELETE" /\ r.target = "/v1/sessions/id"

\* Does this fast answer go to the deep lane?  A broken regex never matches.
dovrebbe(text) ==
  /\ escalation_trigger # "empty"
  /\ text = "blank" \/ (text = "refusal" /\ escalation_trigger = "regex")

\* What http_post() may bring back: nothing (no connection, no 200), the
\* whole answer, or what had arrived when recv() failed or timed out.  Its
\* send() to a lane that has hung up raises SIGPIPE, which ends the process.
http_post == {"nothing", "whole", "cut", "killed"}

\* analizza() before it: no request to an invalid URL, and the exception of
\* stoi() for a port that is no int
EscalationOutcomes ==
  IF escalation_endpoint = "valid" THEN http_post
  ELSE IF escalation_endpoint = "huge_port" THEN {"throws"} ELSE {"nothing"}

\* The text to answer with: anything but a whole deep answer keeps the fast one.
Relayed(deep) == IF deep = "whole" THEN "deep" ELSE "fast"

-----------------------------------------------------------------------------
(* A connection: client, accept thread and worker *)

At(c, here) == pc[c] = here /\ ~aborted

Goto(c, there) == pc' = [pc EXCEPT ![c] = there]

Answer(c, n) == /\ Goto(c, "respond")
                /\ status' = [status EXCEPT ![c] = n]

\* Mutant: the lock is not given back
UnlockedNever(c) == engine_mutex' = engine_mutex

\* a unique_lock or lock_guard of the worker goes out of scope
Unlocked(c) == engine_mutex' = IF engine_mutex = c THEN 0 ELSE engine_mutex

ClientConnects(c) ==
  /\ At(c, "none") /\ acceptor = "open"
  /\ \A b \in 1..(c - 1) : pc[b] # "none"
  /\ Goto(c, "backlog")
  /\ UNCHANGED <<serverVars, handlerVars, request, status, testo, sent, restVars>>

\* accept_loop(): the flag, then a non-blocking accept
AcceptHead ==
  /\ accept_loop = "head" /\ ~aborted
  /\ accept_loop' = IF running THEN "accept" ELSE "exited"
  /\ UNCHANGED <<running, active_connections, acceptor, handlerVars, connVars,
                 restVars>>

Accept(c) ==
  /\ accept_loop = "accept" /\ acceptor = "open" /\ At(c, "backlog")
  /\ \A b \in 1..(c - 1) : pc[b] # "backlog"
  /\ accept_loop' = "spawn"
  /\ Goto(c, "accepted")
  /\ UNCHANGED <<running, active_connections, acceptor, handlerVars, request, status,
                 testo, sent, restVars>>

\* the worker is counted before its thread exists
Spawn(c) ==
  /\ accept_loop = "spawn" /\ At(c, "accepted")
  /\ accept_loop' = "head"
  /\ active_connections' = active_connections + 1
  /\ Goto(c, "read")
  /\ UNCHANGED <<running, acceptor, handlerVars, request, status, testo, sent,
                 restVars>>

\* Mutant: a blocking accept, which close() does not wake
AcceptBlocks == accept_loop = "accept" /\ FALSE /\ UNCHANGED vars

\* would_block, or an error from an acceptor that is closed under it
AcceptNothing ==
  /\ accept_loop = "accept" /\ ~aborted
  /\ acceptor = "closed" \/ \A c \in Conns : pc[c] # "backlog"
  /\ accept_loop' = "head"
  /\ UNCHANGED <<running, active_connections, acceptor, handlerVars, connVars,
                 restVars>>

\* handle_connection() returns without an answer: a hang-up or a header flood
ReadDropped(c) ==
  /\ At(c, "read")
  /\ Goto(c, "return")
  /\ UNCHANGED <<serverVars, handlerVars, request, status, testo, sent, restVars>>

\* a body over the limit (413) or a malformed request (400), not counted
ReadRejected(c) ==
  /\ At(c, "read")
  /\ \E n \in {413, 400} : sent' = [sent EXCEPT ![c] = Append(@, n)]
  /\ Goto(c, "return")
  /\ UNCHANGED <<serverVars, handlerVars, request, status, testo, restVars>>

ReadRequest(c) ==
  /\ At(c, "read")
  /\ \E r \in Requests : request' = [request EXCEPT ![c] = r]
  /\ Goto(c, "route")
  /\ UNCHANGED <<serverVars, handlerVars, status, testo, sent, restVars>>

Terminate == /\ aborted' = TRUE
             /\ UNCHANGED <<pc, status>>

Route(c) ==
  /\ At(c, "route")
  /\ total_requests' = total_requests + 1
  /\ LET way == route(request[c]) IN
       \/ /\ way.handler = "respond"
          /\ Answer(c, way.status) /\ UNCHANGED aborted
       \/ /\ way.handler = "throw" /\ Terminate
       \/ /\ way.handler = "generation"
          /\ Goto(c, "gate") /\ UNCHANGED <<status, aborted>>
       \/ /\ way.handler \in {"warm", "sessions"}
          /\ Goto(c, "lock") /\ UNCHANGED <<status, aborted>>
  /\ UNCHANGED <<serverVars, engine_mutex, acquired, active_generations, errors,
                 request, testo, sent, mainVars, parallel_capable>>

\* respond(), or the 204 of OPTIONS: begin, chunk and end, one status line
Write(c) ==
  /\ At(c, "respond")
  /\ sent' = [sent EXCEPT ![c] = Append(@, status[c])]
  /\ errors' = IF status[c] >= 400 THEN errors + 1 ELSE errors
  /\ Goto(c, "unwind")
  /\ status' = [status EXCEPT ![c] = 0]
  /\ UNCHANGED <<serverVars, engine_mutex, acquired, active_generations,
                 total_requests, request, testo, restVars>>

-----------------------------------------------------------------------------
(* Generation *)

Kind(c) == route(request[c]).handler

\* Mutant: one generation too many
GateAddOffByOne(c) ==
  /\ At(c, "gate")
  /\ active_generations' = active_generations + 1
  /\ IF active_generations > max_concurrent_requests
     THEN Goto(c, "refused") /\ UNCHANGED acquired
     ELSE Goto(c, "admitted") /\ acquired' = acquired \cup {c}
  /\ UNCHANGED <<serverVars, engine_mutex, total_requests, errors, request, status,
                 testo, sent, restVars>>

\* prefetch_prefix() runs without the engine mutex (CachePrefetch is about it);
\* BusyGuard: fetch_add, then the comparison with what it returned
GateAdd(c) ==
  /\ At(c, "gate")
  /\ active_generations' = active_generations + 1
  /\ IF active_generations >= max_concurrent_requests
     THEN Goto(c, "refused") /\ UNCHANGED acquired
     ELSE Goto(c, "admitted") /\ acquired' = acquired \cup {c}
  /\ UNCHANGED <<serverVars, engine_mutex, total_requests, errors, request, status,
                 testo, sent, restVars>>

GateRefuse(c) ==
  /\ At(c, "refused")
  /\ active_generations' = active_generations - 1
  /\ Answer(c, 503)
  /\ UNCHANGED <<serverVars, engine_mutex, acquired, total_requests, errors,
                 request, testo, sent, restVars>>

\* gen_config_from(): a field of another type throws
gen_config_fromThrows(r) == r.body = "bad_options"

\* gen_config_from() and body.value("stream"), outside the try block; a
\* stream's status line and headers go out before anything is generated
Prepare(c) ==
  /\ At(c, "admitted")
  /\ IF gen_config_fromThrows(request[c])
     THEN Terminate /\ UNCHANGED sent
     ELSE /\ Goto(c, "lock")
          /\ sent' = IF request[c].stream THEN [sent EXCEPT ![c] = Append(@, 200)]
                     ELSE sent
          /\ UNCHANGED <<status, aborted>>
  /\ UNCHANGED <<serverVars, handlerVars, request, testo, mainVars,
                 parallel_capable>>

\* Mutant: sessions take the mutex only when generations do
NeedsMutexUnlessParallel(c) == ~parallel_capable

\* Sessions always lock; generation and warm unless the engine interleaves.
NeedsMutex(c) == Kind(c) = "sessions" \/ ~parallel_capable

LockEngine(c) ==
  /\ At(c, "lock")
  /\ NeedsMutex(c) => engine_mutex = 0
  /\ engine_mutex' = IF NeedsMutex(c) THEN c ELSE engine_mutex
  /\ Goto(c, "engine")
  /\ UNCHANGED <<serverVars, acquired, active_generations, total_requests, errors,
                 request, status, testo, sent, restVars>>

\* run_generation() returns and unlocks.  A stream has sent its pieces and
\* ends; another answer is relayed first if the deep lane should try.
GenerationEnds(c) ==
  /\ At(c, "engine") /\ Kind(c) = "generation"
  /\ Unlocked(c)
  /\ \/ /\ request[c].stream
        /\ Goto(c, "unwind") /\ UNCHANGED <<status, testo>>
     \/ /\ ~request[c].stream
        /\ \E text \in {"answer", "refusal", "blank"} :
             /\ testo' = [testo EXCEPT ![c] = "fast"]
             /\ IF /\ request[c].target = "/v1/chat/completions"
                   /\ escalation_endpoint # "none" /\ dovrebbe(text)
                THEN Goto(c, "escalate") /\ UNCHANGED status
                ELSE Answer(c, 200)
  /\ UNCHANGED <<serverVars, acquired, active_generations, total_requests, errors,
                 request, sent, restVars>>

\* Mutant: the exception is swallowed
GenerationThrowsSilently(c) ==
  /\ At(c, "engine") /\ Kind(c) = "generation"
  /\ Unlocked(c)
  /\ Goto(c, "unwind")
  /\ UNCHANGED <<serverVars, acquired, active_generations, total_requests, errors,
                 request, status, testo, sent, restVars>>

\* the engine, or dump() of a text cut inside a character, throws: caught,
\* answered with 500
GenerationThrows(c) ==
  /\ At(c, "engine") /\ Kind(c) = "generation"
  /\ Unlocked(c)
  /\ Answer(c, 500)
  /\ UNCHANGED <<serverVars, acquired, active_generations, total_requests, errors,
                 request, testo, sent, restVars>>

\* the deep lane is asked with the place in the gate kept, without the mutex;
\* a fast text that stands may still be one that dump() rejects
Escalate(c) ==
  /\ At(c, "escalate")
  /\ \E deep \in EscalationOutcomes \ {"killed"} :
       /\ testo' = [testo EXCEPT ![c] = Relayed(deep)]
       /\ \/ deep # "throws" /\ Answer(c, 200)
          \/ deep # "whole" /\ Answer(c, 500)
  /\ UNCHANGED <<serverVars, handlerVars, request, sent, restVars>>

EscalationKilled(c) ==
  /\ At(c, "escalate") /\ "killed" \in EscalationOutcomes
  /\ Terminate
  /\ UNCHANGED <<serverVars, handlerVars, request, testo, sent, mainVars,
                 parallel_capable>>

\* What the destructors of a handler's scope give back: the mutex that warm
\* and sessions answer under, and the place in the gate.
Unwind(c) ==
  /\ At(c, "unwind")
  /\ Unlocked(c)
  /\ acquired' = acquired \ {c}
  /\ active_generations' = IF c \in acquired THEN active_generations - 1
                           ELSE active_generations
  /\ Goto(c, "return")
  /\ testo' = [testo EXCEPT ![c] = None]
  /\ UNCHANGED <<serverVars, total_requests, errors, request, status, sent,
                 restVars>>

-----------------------------------------------------------------------------
(* Warm and sessions *)

\* answered with the mutex held
WarmEnds(c) ==
  /\ At(c, "engine") /\ Kind(c) = "warm"
  /\ Answer(c, 200)
  /\ UNCHANGED <<serverVars, handlerVars, request, testo, sent, restVars>>

\* the lock is inside the try block: gone before the error is answered
WarmThrows(c) ==
  /\ At(c, "engine") /\ Kind(c) = "warm"
  /\ Unlocked(c)
  /\ \E n \in {400, 500} : Answer(c, n)
  /\ UNCHANGED <<serverVars, acquired, active_generations, total_requests, errors,
                 request, testo, sent, restVars>>

\* the lock is outside: answered with the mutex held in every case
SessionEnds(c) ==
  /\ At(c, "engine") /\ Kind(c) = "sessions"
  /\ \E n \in IF SessionOperation(request[c]) THEN {200, 404} ELSE {405} : Answer(c, n)
  /\ UNCHANGED <<serverVars, handlerVars, request, testo, sent, restVars>>

\* only EngineError is caught
SessionThrows(c) ==
  /\ At(c, "engine") /\ Kind(c) = "sessions" /\ SessionOperation(request[c])
  /\ Terminate
  /\ UNCHANGED <<serverVars, handlerVars, request, testo, sent, mainVars,
                 parallel_capable>>

\* the worker's last use of the server object
Return(c) ==
  /\ At(c, "return")
  /\ active_connections' = active_connections - 1
  /\ Goto(c, "gone")
  /\ UNCHANGED <<running, acceptor, accept_loop, handlerVars, request, status,
                 testo, sent, restVars>>

-----------------------------------------------------------------------------
(* The main thread and the signal handler *)

MainIs(here) == main = here /\ ~stuck /\ ~aborted

\* The thread that waits owns g_shutdown_mutex around the wait; in
\* run_zeroconfig() it keeps it until the function returns.
MainHoldsMutex ==
  \/ main \in {"pred", "leave"}
  \/ ~lock_scoped /\ main \in {"stop", "close", "join", "drain"}

\* start(), then both handlers are installed
MainStart ==
  /\ MainIs("start")
  /\ main' = "lock"
  /\ running' = TRUE /\ acceptor' = "open" /\ accept_loop' = "head"
  /\ UNCHANGED <<active_connections, handlerVars, connVars, g_shutdown, stuck,
                 timed_out, parallel_capable, aborted>>

\* lock, predicate, wait, and the unlock of a scoped lock
MainWaits ==
  /\ \/ MainIs("lock") /\ main' = "pred"
     \/ MainIs("pred") /\ main' = IF g_shutdown THEN "leave" ELSE "asleep"
     \/ MainIs("leave") /\ main' = "stop"
  /\ UNCHANGED <<serverVars, handlerVars, connVars, g_shutdown, stuck, timed_out,
                 parallel_capable, aborted>>

\* request_shutdown() runs on the main thread: it locks the mutex, sets the
\* flag and wakes the wait, or blocks for ever on the mutex its thread holds
Signal ==
  /\ main \notin {"start", "exited"} /\ ~stuck /\ ~aborted
  /\ IF MainHoldsMutex
     THEN stuck' = TRUE /\ UNCHANGED <<g_shutdown, main>>
     ELSE /\ g_shutdown' = TRUE
          /\ main' = IF main = "asleep" THEN "lock" ELSE main
          /\ UNCHANGED stuck
  /\ UNCHANGED <<serverVars, handlerVars, connVars, timed_out, parallel_capable,
                 aborted>>

StopFlag ==
  /\ MainIs("stop")
  /\ running' = FALSE
  /\ main' = "close"
  /\ UNCHANGED <<active_connections, acceptor, accept_loop, handlerVars, connVars,
                 g_shutdown, stuck, timed_out, parallel_capable, aborted>>

StopClose ==
  /\ MainIs("close")
  /\ acceptor' = "closed"
  /\ main' = "join"
  /\ UNCHANGED <<running, active_connections, accept_loop, handlerVars, connVars,
                 g_shutdown, stuck, timed_out, parallel_capable, aborted>>

\* Mutant: the accept thread is detached
StopJoinDetached ==
  /\ MainIs("join")
  /\ main' = "drain"
  /\ UNCHANGED <<serverVars, handlerVars, connVars, g_shutdown, stuck, timed_out,
                 parallel_capable, aborted>>

StopJoin ==
  /\ MainIs("join") /\ accept_loop = "exited"
  /\ main' = "drain"
  /\ UNCHANGED <<serverVars, handlerVars, connVars, g_shutdown, stuck, timed_out,
                 parallel_capable, aborted>>

\* the bounded wait ends: every worker has returned, or the 30 s are over
StopDrain ==
  /\ MainIs("drain")
  /\ timed_out' = (active_connections > 0)
  /\ main' = "exited"
  /\ UNCHANGED <<serverVars, handlerVars, connVars, g_shutdown, stuck,
                 parallel_capable, aborted>>

-----------------------------------------------------------------------------
Worker(c) ==
  \/ Route(c) \/ Write(c) \/ GateAdd(c) \/ GateRefuse(c)
  \/ Prepare(c) \/ LockEngine(c) \/ GenerationEnds(c) \/ GenerationThrows(c)
  \/ Escalate(c) \/ EscalationKilled(c) \/ Unwind(c) \/ WarmEnds(c) \/ WarmThrows(c) \/ SessionEnds(c)
  \/ SessionThrows(c) \/ Return(c)

AcceptThread == AcceptHead \/ AcceptNothing \/ \E c \in Conns : Accept(c) \/ Spawn(c)

Main == MainStart \/ MainWaits \/ StopFlag \/ StopClose \/ StopJoin \/ StopDrain

Client(c) == ClientConnects(c) \/ ReadDropped(c) \/ ReadRejected(c) \/ ReadRequest(c)

Next == AcceptThread \/ Main \/ Signal \/ \E c \in Conns : Client(c) \/ Worker(c)

\* The threads run and engine calls return; nothing makes a client send or
\* a signal arrive.  Weak fairness is enough for a worker that waits for the
\* engine mutex: the others take it once each.  For Worker(c) this assumes
\* more than the code guarantees: a write to a client returns.  The blocking
\* asio::write of http_server.cpp has no send timeout, and a streamed token
\* is written with the engine mutex held, so a client that stops reading and
\* stays connected keeps the mutex from the others.
Fairness == /\ WF_vars(AcceptThread)
            /\ WF_vars(Main)
            /\ \A c \in Conns : WF_vars(Worker(c))

Spec == Init /\ [][Next]_vars /\ Fairness
-----------------------------------------------------------------------------
(* Properties *)

\* Types of the server's state; the counters of connections and generations
\* never go below zero.
TypeOK ==
  /\ running \in BOOLEAN /\ active_connections \in Nat
  /\ acceptor \in {"none", "open", "closed"}
  /\ accept_loop \in {"none", "head", "accept", "spawn", "exited"}
  /\ pc \in [Conns -> Places]
  /\ request \in [Conns -> Requests \cup {NoRequest}]
  /\ status \in [Conns -> Nat] /\ sent \in [Conns -> Seq(Nat)]
  /\ testo \in [Conns -> {None, "fast", "deep"}]
  /\ engine_mutex \in Conns \cup {0} /\ acquired \subseteq Conns
  /\ active_generations \in Nat /\ total_requests \in Nat /\ errors \in Nat
  /\ main \in {"start", "lock", "pred", "asleep", "leave", "stop", "close", "join",
               "drain", "exited"}
  /\ {parallel_capable, g_shutdown, stuck, timed_out, aborted} \subseteq BOOLEAN

\* Connections with a worker that still uses the server object.
Live == {c \in Conns : pc[c] \notin {"none", "backlog", "accepted", "gone"}}

\* A single-sequence engine is never shared: at most one generation, warm
\* or session operation is inside it, whatever throws and whichever handler
\* answers with or without the mutex; an interleaving engine still gets its
\* session operations one at a time.  The mutex is never left behind: its
\* owner is inside a handler that will unlock it.
EngineExclusive ==
  /\ \A c, d \in Conns :
       c # d /\ pc[c] = "engine" /\ pc[d] = "engine" =>
          parallel_capable /\ {Kind(c), Kind(d)} # {"sessions"}
  /\ engine_mutex # 0 => pc[engine_mutex] \in {"engine", "respond", "unwind"}

\* The gate is exact through refusals, failed generations and escalations:
\* the counter is the number of requests that have a place or are just being
\* refused, and never more than max_concurrent_requests have one.
GateExact ==
  /\ TypeOK
  /\ Cardinality(acquired) <= max_concurrent_requests
  /\ active_generations =
       Cardinality(acquired) + Cardinality({c \in Conns : pc[c] = "refused"})
  /\ \A c \in Conns : pc[c] \in {"admitted", "escalate"} => c \in acquired
  /\ acquired \subseteq Live

\* Every request that was handed to the router has exactly one answer when
\* its worker returns; the only connection that sees two status lines is a
\* stream whose generation failed after its headers were out.  The metrics
\* count exactly the routed requests and the errors answered to them.
AnswersAddUp ==
  /\ \A c \in Conns :
       /\ Len(sent[c]) > 1 => sent[c] = <<200, 500>> /\ request[c].stream
       /\ pc[c] = "return" /\ request[c] # NoRequest => sent[c] # <<>>
       /\ pc[c] = "unwind" /\ Kind(c) = "generation" /\ sent[c] = <<200>> =>
            (testo[c] = None <=> request[c].stream)
  /\ LET routed == {c \in Conns : request[c] # NoRequest}
         Failed(c) == \E i \in 1..Len(sent[c]) : sent[c][i] >= 400
     IN ~aborted => /\ total_requests = Cardinality({c \in routed : pc[c] # "route"})
                    /\ errors = Cardinality({c \in routed : Failed(c)})

\* stop() sees every worker: when it returns without having run out of time,
\* no worker is left that uses the server object about to be destroyed, not
\* even one whose connection was accepted while the flag was being cleared.
DrainIsComplete ==
  /\ active_connections = Cardinality(Live)
  /\ main = "exited" /\ ~timed_out =>
       Live = {} /\ \A c \in Conns : pc[c] # "accepted"

\* A signal ends the process: the wait is woken, the accept thread leaves
\* its poll and the drain is bounded.  The exceptions are a signal in the
\* moment the waiting thread owns the mutex and, where the lock is not
\* scoped (run_zeroconfig), a second signal while the server stops.
ShutdownCompletes ==
  g_shutdown ~> \/ main = "exited" \/ aborted
                \/ stuck /\ (main \in {"pred", "leave"} \/ ~lock_scoped)

\* Every request that reached the router is answered and its worker returns:
\* no failed generation, refusal or failed escalation keeps the mutex or a
\* place in the gate from the others, as long as clients read their answers.
RequestsAnswered == \A c \in Conns : (pc[c] = "route") ~> (pc[c] = "gone" \/ aborted)
=============================================================================
