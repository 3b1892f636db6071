-------------------------------- MODULE Arca --------------------------------
(***************************************************************************)
(* The shared archive: the engine's client (src/arca/client.cpp), the      *)
(* daemon that serves it and any other Redis client (src/arca/server.cpp), *)
(* the incremental parser (src/arca/resp.cpp) and the command dispatch     *)
(* (src/arca/archive.cpp).                                                 *)
(*                                                                         *)
(* The wire carries symbols instead of characters: an array header, a bulk *)
(* string or a reply line, each cut only between symbols.  TCP delivers    *)
(* them in order and in slices of any size; connections break, replies     *)
(* come late, the daemon stops.  What the disk store and the corpus do     *)
(* inside (eviction, failed writes, drafts) is a choice of outcomes here   *)
(* and the subject of DiskCacheStore and CorpusIndex.                      *)
(***************************************************************************)
EXTENDS Naturals, Sequences, FiniteSets, FiniteSetsExt, SequencesExt

CONSTANTS Keys, Values,
          Callers,      \* threads of the engine that share one ArcaClient
          Inputs,       \* what other clients may send, each a sequence of symbols
          Archived,     \* pairs <<key, value>> on disk when the daemon starts
          MaxConns,     \* bound: connections in one behaviour
          MaxCalls      \* bound: get() and set() calls and inputs of other clients

\* array headers and the number of bulks they announce; "*bad" is a header
\* with a length that is not a number or not a reasonable one, "*huge" one
\* with more digits than a long has
Arity == [h \in {"*0", "*1", "*2", "*3"} |->
            CASE h = "*0" -> 0 [] h = "*1" -> 1 [] h = "*2" -> 2 [] h = "*3" -> 3]
Headers == DOMAIN Arity \cup {"*bad", "*huge"}
Bulks == Keys \cup Values \cup {"GET", "SET", "DEL", "EXISTS", "PING", "DBSIZE",
                               "ARCA.OBSERVE", "ARCA.DRAFT", "tokens", "odd_bytes"}
Symbols == Headers \cup Bulks

\* a bulk string carries its length, so none is taken for a header
ASSUME ArcaAssumption ==
  /\ Bulks \cap Headers = {}
  /\ Inputs \subseteq Seq(Symbols)
  /\ Archived \subseteq Bulks \X Bulks
  /\ \A p, q \in Archived : p[1] = q[1] => p = q
  /\ MaxConns \in Nat /\ MaxCalls \in Nat

Conns == 1..MaxConns

VARIABLES sock,     \* ArcaClient::Impl::sock: a connection, or 0
          call,     \* the get() or set() each caller is in
          conn,     \* both ends of each connection and the worker that serves it
          store,    \* the archive: a function from the keys it holds to their values
          running, active_connections, accept_loop, stopper,   \* ArcaServer
          calls,
          puts, got,    \* history: what set() was handed, what get() returned
          missed        \* history: workers that stop() did not find registered

clientVars == <<sock, call, calls, puts, got>>
daemonVars == <<running, active_connections, accept_loop, stopper, missed>>
vars == <<clientVars, daemonVars, conn, store>>

Idle == [pc |-> "idle", cmd |-> <<>>, buf |-> <<>>]

\* client: is the peer's end open?  up, down: bytes in flight.  worker: where
\* the daemon's thread is; buf, ready, out: its parser and its replies.
\* sent, served: history of the symbols sent and the commands dispatched.
NoConn == [client |-> "none", worker |-> "none", up |-> <<>>, down |-> <<>>,
           buf |-> <<>>, ready |-> <<>>, out |-> <<>>, registered |-> FALSE,
           shut |-> FALSE, sent |-> <<>>, served |-> <<>>]

Init == /\ sock = 0
        /\ call = [t \in Callers |-> Idle]
        /\ conn = [c \in Conns |-> NoConn]
        /\ store = [k \in {p[1] : p \in Archived} |-> CHOOSE v \in Bulks : <<k, v>> \in Archived]
        /\ running = TRUE /\ active_connections = 0
        /\ accept_loop = "head" /\ stopper = "none"
        /\ calls = 0
        /\ puts = Archived /\ got = [t \in Callers |-> <<>>]
        /\ missed = {}

-----------------------------------------------------------------------------
(* The incremental parser *)

\* One command from the front of the buffer, if it is all there.  RespError is
\* an "error"; the out_of_range of stol() is none and "throws".
parse_one(buf) ==
  IF buf = <<>> THEN [found |-> "more", cmd |-> <<>>, len |-> 0]
  ELSE IF buf[1] \notin Headers THEN [found |-> "command", cmd |-> <<buf[1]>>, len |-> 1]
  ELSE IF buf[1] \notin DOMAIN Arity
    THEN [found |-> IF buf[1] = "*huge" THEN "throws" ELSE "error", cmd |-> <<>>, len |-> 0]
  ELSE LET n == Arity[buf[1]]
           parts == SubSeq(buf, 2, IF n < Len(buf) THEN n + 1 ELSE Len(buf))
       IN  IF ToSet(parts) \cap Headers # {}
           THEN [found |-> "error", cmd |-> <<>>, len |-> 0]
           ELSE IF Len(parts) < n THEN [found |-> "more", cmd |-> <<>>, len |-> 0]
           ELSE [found |-> "command", cmd |-> parts, len |-> n + 1]

\* feed(): all complete commands, and what is left for the next slice
feed[buf \in Seq(Symbols)] ==
  LET p == parse_one(buf) IN
  IF p.found # "command"
  THEN [ready |-> <<>>, rest |-> buf, end |-> p.found]
  ELSE LET f == feed[SubSeq(buf, p.len + 1, Len(buf))]
       IN  IF p.cmd = <<>> THEN f ELSE [f EXCEPT !.ready = <<p.cmd>> \o @]

-----------------------------------------------------------------------------
(* The archive *)

\* words of a command with its name
Words == [name \in {"SET", "GET", "DEL", "EXISTS", "DBSIZE", "ARCA.OBSERVE", "ARCA.DRAFT"} |->
            IF name = "DBSIZE" THEN 1 ELSE IF name \in {"SET", "ARCA.DRAFT"} THEN 3 ELSE 2]

Without(s, S) == [j \in DOMAIN s \ S |-> s[j]]

With(s, k, v) == [j \in DOMAIN s \cup {k} |-> IF j = k THEN v ELSE s[j]]

\* What store_.put() may leave: the value, at the price of older entries; the
\* archive as it was, because the value is too large; or, when it could not be
\* written, neither the key nor the entries already evicted for it.  (An
\* exception of fs::remove() after a failed write is left out.)
put(s, k, v) ==
  LET olds == SUBSET (DOMAIN s \ {k}) IN
    {[store |-> With(Without(s, old), k, v), reply |-> <<"+OK">>] : old \in olds}
    \cup {[store |-> Without(s, old \cup {k}), reply |-> <<"-ERR">>] : old \in olds}
    \cup {[store |-> s, reply |-> <<"-ERR">>]}

\* a payload of whole u32s
unpack_tokens(payload) == payload = "tokens"

\* The outcomes of one command: the archive after it and the reply.  A get()
\* of an entry whose file is unreadable drops it.
dispatch(cmd, s) ==
  LET name == cmd[1]
      Same(reply) == {[store |-> s, reply |-> reply]}
      Dropped(reply) == {[store |-> Without(s, {cmd[2]}), reply |-> reply]}
  IN  IF name = "PING" THEN Same(<<"+PONG">>)
      ELSE IF name \notin DOMAIN Words \/ Len(cmd) # Words[name] THEN Same(<<"-ERR">>)
      ELSE IF name = "SET" THEN put(s, cmd[2], cmd[3])
      ELSE IF name = "GET"
        THEN IF cmd[2] \notin DOMAIN s THEN Same(<<"$-1">>)
             ELSE Same(<<"$", s[cmd[2]]>>) \cup Dropped(<<"$-1">>)
      ELSE IF name = "DEL" THEN Dropped(<<":">>)
      ELSE IF name \in {"EXISTS", "DBSIZE"} THEN Same(<<":">>)
      ELSE IF ~unpack_tokens(cmd[2]) THEN Same(<<"-ERR">>)
      ELSE IF name = "ARCA.OBSERVE" THEN Same(<<"+OK">>)
      ELSE Same(<<"-ERR">>) \cup Same(<<"$-1">>) \cup Same(<<"$", "tokens">>)

-----------------------------------------------------------------------------
(* The client *)

Fresh(c) == conn[c].client = "none" /\ \A b \in 1..(c - 1) : conn[b].client # "none"

AcceptorOpen == stopper \in {"none", "join"}

Wire(cmd) == <<IF Len(cmd) = 2 THEN "*2" ELSE "*3">> \o cmd

\* Connection c after its client wrote; nobody reads what comes after the worker left.
Pushed(c, bytes) ==
  IF conn[c].worker = "gone" THEN conn[c]
  ELSE [conn[c] EXCEPT !.up = @ \o bytes, !.sent = @ \o bytes]

\* Connection n after its client closed it
Closed(n) == [n EXCEPT !.client = "closed", !.down = <<>>]

\* get() and set() are entered
BeginCall(t, cmd) ==
  /\ call[t].pc = "idle" /\ calls < MaxCalls
  /\ calls' = calls + 1
  /\ call' = [call EXCEPT ![t] = [pc |-> "connect", cmd |-> cmd, buf |-> <<>>]]
  /\ UNCHANGED <<sock, got, daemonVars, conn, store>>

get(t, k) == BeginCall(t, <<"GET", k>>) /\ UNCHANGED puts

set(t, k, v) == BeginCall(t, <<"SET", k, v>>) /\ puts' = puts \cup {<<k, v>>}

\* The call returns: a get() with the reply, <<>> for nullopt.
Return(t, reply) ==
  /\ call' = [call EXCEPT ![t] = Idle]
  /\ got' = IF call[t].cmd[1] # "GET" THEN got
            ELSE [got EXCEPT ![t] = IF reply = <<>> THEN <<>>
                                    ELSE <<call[t].cmd[2], reply[1]>>]

\* drop(): the socket is destroyed with whatever is in flight towards it
Drop == /\ sock' = 0
        /\ conn' = IF sock = 0 THEN conn
                   ELSE [conn EXCEPT ![sock] = Closed(@)]

connect(t) ==
  /\ call[t].pc = "connect"
  /\ call' = [call EXCEPT ![t].pc = "send"]
  /\ \/ sock # 0 /\ UNCHANGED <<sock, conn>>
     \/ /\ sock = 0 /\ AcceptorOpen
        /\ \E c \in Conns : /\ Fresh(c)
                            /\ sock' = c
                            /\ conn' = [conn EXCEPT ![c].client = "open"]
  /\ UNCHANGED <<calls, puts, got, daemonVars, store>>

\* refused, unresolved or too slow
connectFails(t) ==
  /\ call[t].pc = "connect" /\ sock = 0
  /\ Return(t, <<>>)
  /\ UNCHANGED <<sock, calls, puts, daemonVars, conn, store>>

write_all(t) ==
  /\ call[t].pc = "send" /\ sock # 0
  /\ call' = [call EXCEPT ![t].pc = "reply"]
  /\ conn' = [conn EXCEPT ![sock] = Pushed(sock, Wire(call[t].cmd))]
  /\ UNCHANGED <<sock, calls, puts, got, daemonVars, store>>

\* an error after a part was sent: the connection is dropped
write_allFails(t) ==
  /\ call[t].pc = "send" /\ sock # 0
  /\ \E n \in 0..Len(call[t].cmd) :
       conn' = [conn EXCEPT
                  ![sock] = Closed(Pushed(sock, SubSeq(Wire(call[t].cmd), 1, n)))]
  /\ sock' = 0
  /\ Return(t, <<>>)
  /\ UNCHANGED <<calls, puts, daemonVars, store>>

\* A reply is a line, and for a bulk string its payload.
Complete(buf) == buf[1] = "$" => Len(buf) >= 2

\* nil, error and integer replies are no value; a simple string is an empty one
Reply(buf) == IF buf[1] = "$" THEN <<buf[2]>>
              ELSE IF buf[1] \in {"+OK", "+PONG"} THEN <<"">> ELSE <<>>

\* recv_more(): some of what has arrived; bytes after the reply are lost
\* with the buffer when read_reply() returns
read_reply(t) ==
  /\ call[t].pc = "reply" /\ sock # 0
  /\ \E n \in 1..Len(conn[sock].down) :
       LET buf == call[t].buf \o SubSeq(conn[sock].down, 1, n) IN
       /\ conn' = [conn EXCEPT ![sock].down = SubSeq(@, n + 1, Len(@))]
       /\ IF Complete(buf) THEN Return(t, Reply(buf))
          ELSE call' = [call EXCEPT ![t].buf = buf] /\ UNCHANGED got
  /\ UNCHANGED <<sock, calls, puts, daemonVars, store>>

\* Mutant: a timeout keeps the connection.
read_replyFailsKeeps(t) ==
  /\ call[t].pc = "reply"
  /\ Return(t, <<>>)
  /\ UNCHANGED <<sock, conn, calls, puts, daemonVars, store>>

\* the deadline passes, the peer hangs up, or another thread dropped the socket
read_replyFails(t) ==
  /\ call[t].pc = "reply"
  /\ Drop
  /\ Return(t, <<>>)
  /\ UNCHANGED <<calls, puts, daemonVars, store>>

-----------------------------------------------------------------------------
(* Other clients of the same archive *)

Others == {c \in Conns : conn[c].client = "open" /\ c # sock}

\* one connects and sends its commands, or nothing
OtherSends(input) ==
  /\ AcceptorOpen /\ calls < MaxCalls
  /\ calls' = calls + 1
  /\ \E c \in Conns :
       Fresh(c) /\ conn' = [conn EXCEPT ![c] = [Pushed(c, input) EXCEPT !.client = "open"]]
  /\ puts' = puts \cup {<<cmd[2], cmd[3]>> :
                          cmd \in {x \in ToSet(feed[input].ready) :
                                     x[1] = "SET" /\ Len(x) = 3}}
  /\ UNCHANGED <<sock, call, got, daemonVars, store>>

OtherCloses(c) ==
  /\ conn' = [conn EXCEPT ![c] = Closed(@)]
  /\ UNCHANGED <<clientVars, daemonVars, store>>

-----------------------------------------------------------------------------
(* The daemon *)

AcceptHead ==
  /\ accept_loop = "head"
  /\ accept_loop' = IF running THEN "accept" ELSE "exited"
  /\ UNCHANGED <<running, active_connections, stopper, missed, clientVars, conn, store>>

\* The next connection in the backlog, or would_block.  The worker is
\* counted here and registers itself later.
Accept ==
  /\ accept_loop = "accept"
  /\ accept_loop' = "head"
  /\ LET backlog == {c \in Conns : conn[c].client # "none" /\ conn[c].worker = "none"} IN
       IF backlog = {} THEN UNCHANGED <<active_connections, conn>>
       ELSE /\ active_connections' = active_connections + 1
            /\ conn' = [conn EXCEPT ![Min(backlog)].worker = "start"]
  /\ UNCHANGED <<running, stopper, missed, clientVars, store>>

Register(c) ==
  /\ conn[c].worker = "start"
  /\ conn' = [conn EXCEPT ![c].worker = "read", ![c].registered = TRUE]
  /\ UNCHANGED <<clientVars, daemonVars, store>>

\* The worker after feed() of a slice: after a malformed command the ones
\* before it in the same slice are not dispatched.
Fed(w, f) ==
  IF f.end = "error"
  THEN [w EXCEPT !.buf = f.rest, !.out = <<"-ERR">>, !.worker = "fail"]
  ELSE [w EXCEPT !.buf = f.rest, !.ready = f.ready,
                 !.worker = IF f.ready # <<>> THEN "dispatch" ELSE @]

\* read_some(): any part of what is in flight
Slice(c, n) == conn[c].buf \o SubSeq(conn[c].up, 1, n)

\* Mutant: an incomplete command at the end of a slice is dropped.
ReadForgets(c) ==
  /\ conn[c].worker = "read"
  /\ \E n \in 1..Len(conn[c].up) :
       LET f == feed[Slice(c, n)]
           w == [conn[c] EXCEPT !.up = SubSeq(@, n + 1, Len(@))]
       IN  f.end # "throws" /\ conn' = [conn EXCEPT ![c] = [Fed(w, f) EXCEPT !.buf = <<>>]]
  /\ UNCHANGED <<clientVars, daemonVars, store>>

Read(c) ==
  /\ conn[c].worker = "read"
  /\ \E n \in 1..Len(conn[c].up) :
       LET f == feed[Slice(c, n)]
           w == [conn[c] EXCEPT !.up = SubSeq(@, n + 1, Len(@))]
       IN  f.end # "throws" /\ conn' = [conn EXCEPT ![c] = Fed(w, f)]
  /\ UNCHANGED <<clientVars, daemonVars, store>>

\* an exception that is no RespError leaves the detached thread and ends the daemon
ReadAborts(c) ==
  /\ conn[c].worker = "read"
  /\ \E n \in 1..Len(conn[c].up) : feed[Slice(c, n)].end = "throws"
  /\ stopper' = "aborted"
  /\ UNCHANGED <<clientVars, running, active_connections, accept_loop, missed, conn, store>>

\* the client hung up (a reset loses what is in flight), or stop() shut the
\* socket down
ReadEnds(c) ==
  /\ conn[c].worker = "read"
  /\ conn[c].client = "closed" \/ (conn[c].shut /\ conn[c].up = <<>>)
  /\ conn' = [conn EXCEPT ![c].worker = "leave"]
  /\ UNCHANGED <<clientVars, daemonVars, store>>

\* Archive::dispatch(), one command at a time under its mutex
Dispatch(c) ==
  /\ conn[c].worker = "dispatch"
  /\ \E o \in dispatch(Head(conn[c].ready), store) :
       /\ store' = o.store
       /\ conn' = [conn EXCEPT ![c].out = @ \o o.reply, ![c].ready = Tail(@),
                               ![c].served = Append(@, Head(conn[c].ready)),
                               ![c].worker = IF Len(conn[c].ready) = 1 THEN "write" ELSE @]
  /\ UNCHANGED <<clientVars, daemonVars>>

\* The replies of one slice, or the parser's error, go out; a write to a
\* socket that is shut down fails, one to a peer that hung up may.
Write(c) ==
  /\ conn[c].worker \in {"write", "fail"}
  /\ \E ok \in BOOLEAN :
       /\ ok => ~conn[c].shut
       /\ ~ok => conn[c].shut \/ conn[c].client = "closed"
       /\ conn' = [conn EXCEPT
            ![c].down = IF ok /\ conn[c].client = "open" THEN @ \o conn[c].out ELSE @,
            ![c].out = <<>>,
            ![c].worker = IF ok /\ @ = "write" THEN "read" ELSE "leave"]
  /\ UNCHANGED <<clientVars, daemonVars, store>>

Leave(c) ==
  /\ conn[c].worker = "leave"
  /\ conn' = [conn EXCEPT ![c] = [NoConn EXCEPT !.client = conn[c].client,
                                                !.worker = "gone", !.down = conn[c].down]]
  /\ active_connections' = active_connections - 1
  /\ UNCHANGED <<running, accept_loop, stopper, missed, clientVars, store>>

StopFlag ==
  /\ stopper = "none"
  /\ running' = FALSE
  /\ stopper' = "join"
  /\ UNCHANGED <<active_connections, accept_loop, missed, clientVars, conn, store>>

StopJoin ==
  /\ stopper = "join" /\ accept_loop = "exited"
  /\ stopper' = "shutdown"
  /\ UNCHANGED <<running, active_connections, accept_loop, missed, clientVars, conn, store>>

\* Mutant: the sockets are left to their clients.
StopShutdownNone ==
  /\ stopper = "shutdown"
  /\ stopper' = "wait"
  /\ missed' = {c \in Conns : conn[c].worker = "start"}
  /\ UNCHANGED <<running, active_connections, accept_loop, clientVars, conn, store>>

StopShutdown ==
  /\ stopper = "shutdown"
  /\ stopper' = "wait"
  /\ conn' = [c \in Conns |-> [conn[c] EXCEPT !.shut = conn[c].registered]]
  /\ missed' = {c \in Conns : conn[c].worker = "start"}
  /\ UNCHANGED <<running, active_connections, accept_loop, clientVars, store>>

\* Mutant: the wait is forgotten.
StopWaitSkipped ==
  /\ stopper = "wait"
  /\ stopper' = "stopped"
  /\ UNCHANGED <<running, active_connections, accept_loop, missed, clientVars, conn, store>>

StopWait ==
  /\ stopper = "wait" /\ active_connections = 0
  /\ stopper' = "stopped"
  /\ UNCHANGED <<running, active_connections, accept_loop, missed, clientVars, conn, store>>

-----------------------------------------------------------------------------
Client(t) ==
  \/ \E k \in Keys : get(t, k) \/ \E v \in Values : set(t, k, v)
  \/ connect(t) \/ connectFails(t) \/ write_all(t) \/ write_allFails(t)
  \/ read_reply(t) \/ read_replyFails(t)

Other == \/ \E input \in Inputs : OtherSends(input)
         \/ \E c \in Others : OtherCloses(c)

AcceptThread == stopper # "aborted" /\ (AcceptHead \/ Accept)

Worker(c) == /\ stopper # "aborted"
             /\ \/ Register(c) \/ Read(c) \/ ReadAborts(c) \/ ReadEnds(c) \/ Dispatch(c)
                \/ Write(c) \/ Leave(c)

Stopping == StopJoin \/ StopShutdown \/ StopWait

Next == \/ \E t \in Callers : Client(t)
        \/ Other \/ AcceptThread \/ StopFlag \/ Stopping
        \/ \E c \in Conns : Worker(c)

\* The daemon's threads run; nothing makes a client do anything.
Fairness == /\ WF_vars(AcceptThread) /\ WF_vars(Stopping)
            /\ \A c \in Conns : WF_vars(Worker(c))

Spec == Init /\ [][Next]_vars /\ Fairness

-----------------------------------------------------------------------------
(* Properties *)

\* Types of client and daemon; the count of connections never goes below zero.
TypeOK ==
  /\ sock \in 0..MaxConns
  /\ \A t \in Callers : /\ call[t].pc \in {"idle", "connect", "send", "reply"}
                        /\ got[t] = <<>> \/ Len(got[t]) = 2
  /\ \A c \in Conns :
       /\ conn[c].client \in {"none", "open", "closed"}
       /\ conn[c].worker \in {"none", "start", "read", "dispatch", "write", "fail",
                             "leave", "gone"}
       /\ conn[c].worker = "dispatch" <=> conn[c].ready # <<>>
  /\ DOMAIN store \subseteq Bulks /\ store \in [DOMAIN store -> Bulks]
  /\ active_connections \in 0..MaxConns
  /\ accept_loop \in {"head", "accept", "exited"}
  /\ stopper \in {"none", "join", "shutdown", "wait", "stopped", "aborted"}

ArcaCache == INSTANCE ResponseCache WITH Keys <- Bulks, Values <- Bulks

\* The client and the daemon together are a response cache: a get() returns
\* nothing or a completion once set under its own key, never the reply to an
\* earlier command, whatever was cut off, late, evicted or reconnected.
CacheSpec == ArcaCache!CacheSpec

\* However the bytes of a connection are cut into slices, the daemon
\* dispatches the commands that a parser of the whole stream would find, in
\* that order, each once: what was dispatched, what is ready and what is
\* still to be parsed add up, until a malformed command ends the connection.
CommandsAsSent ==
  \A c \in Conns :
    LET here == conn[c]
        whole == feed[here.sent].ready
    IN  /\ IsPrefix(here.served, whole)
        /\ here.worker \notin {"fail", "leave", "gone"} =>
             here.served \o here.ready \o feed[here.buf \o here.up].ready = whole

Alive == {c \in Conns : conn[c].worker \notin {"none", "gone"}}

\* "Every worker MUST finish before Impl (and its io_context) destructs":
\* when stop() returns, no worker is left and none can start any more.
NoWorkerOutlivesStop ==
  /\ TypeOK
  /\ active_connections = Cardinality(Alive)
  /\ stopper = "stopped" => Alive = {} /\ accept_loop = "exited"

\* stop() returns although clients keep their connections open, except for
\* a worker that was counted but had not registered its socket when stop()
\* shut the sockets down: it waits for as long as that client stays.
StopReturns ==
  (stopper # "none") ~> (stopper \in {"stopped", "aborted"} \/ missed \cap Alive # {})
=============================================================================
