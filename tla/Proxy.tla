------------------------------- MODULE Proxy -------------------------------
(***************************************************************************)
(* TCP connections proxied to another device: the ProxyService that        *)
(* listens on a local port (tcpProxy.go), the client that opens a proxy    *)
(* per connection (service/client.go), the server that dials the remote    *)
(* address and forwards (service/server.go), their managers, and Close of  *)
(* each of them.                                                           *)
(*                                                                         *)
(* Packets and streams are what BaseService and Multiplexer make of them:  *)
(* in order, an answer for the request it matches, an EOF for a stream     *)
(* that was closed at the other end, an error for all when the link fails  *)
(* (between two frames; a failure inside a frame is Multiplexer's cut).    *)
(* What is forwarded is left out; a copy that meets a peer which is gone   *)
(* may end at any time.  The buffers of the streams never fill up here.    *)
(***************************************************************************)
EXTENDS Integers, Sequences

CONSTANTS Conns,     \* local connections the service may accept
          None,      \* nobody
          Quiet      \* bound: connections accepted only while nothing is being closed,
                     \* and after which nothing is closed but by failures

ASSUME ProxyAssumption == None \notin Conns /\ Quiet \subseteq Conns

Closers == {"api", "acceptor", "watcher"}

VARIABLES
    \* ProxyService
    stopped,   \* its context is cancelled
    acceptor,  \* where its first goroutine is: accept, cleanup, done
    watcher,   \* and its second: watch, cleanup, done
    listener,  \* the port is open or closed
    closer,    \* per caller of ProxyService.Close: where it is
    clientMu,  \* who holds clientMu
    client,    \* p.client is set
    links,     \* history: clients connected
    \* the connection between the devices
    link,      \* none, up, down
    toServer,  \* control packets on their way to the server
    toClient,  \* and to the client
    \* per connection, client
    pc,        \* acceptConnection: off, get, dial, hello, request, wait, stream, add, open, end
    local,     \* the accepted connection: none, open, closed
    cs,        \* the client's end of its stream: none, open, closed
    cid,       \* the stream's ID, as the answer has it
    managed,   \* it is in the client's Manager
    reader,    \* forwardRemoteToLocal: off, copy, end
    ask,       \* Client.Close: no, wait, got, ok, failed
    \* server
    serve,     \* off, on, closing, closed
    work,      \* the handler Serve is in, and for which connection
    nextID,    \* BaseServer.streamIDCounter
    known,     \* per connection: it is in the server's Manager
    attached,  \* per connection: Proxy.Stream is set
    remote,    \* per connection: the remote connection: none, open, closed
    ss,        \* per connection: the server's end of its stream
    sid,       \* per connection: the stream's ID
    fwd,       \* per connection: forward: off, wait, copy, end
    copies,    \* per connection: which of forward's two copies run
    eof        \* ends of streams that have been sent EOF: <<connection, side>>

service == <<stopped, acceptor, watcher, listener, closer>>
getting == <<clientMu, client, links>>
net     == <<link, toServer, toClient>>
conn    == <<pc, local, cs, cid, managed, reader, ask>>
handler == <<serve, work, nextID>>
table   == <<known, attached>>
forward == <<remote, ss, sid, fwd, copies>>
vars == <<service, getting, net, conn, handler, table, forward, eof>>

\* What Quiet restricts.
MayClose == \A c \in Quiet : pc[c] = "off"
IsQuiet == ~stopped /\ watcher = "watch" /\ \A c \in Conns : ask[c] = "no"

No == [at |-> "none", c |-> None]

Init ==
    /\ stopped = FALSE /\ acceptor = "accept" /\ watcher = "watch" /\ listener = "open"
    /\ closer = [k \in Closers |-> "no"]
    /\ clientMu = None /\ client = FALSE /\ links = 0
    /\ link = "none" /\ toServer = <<>> /\ toClient = <<>>
    /\ pc = [c \in Conns |-> "off"] /\ local = [c \in Conns |-> "none"]
    /\ cs = [c \in Conns |-> "none"] /\ cid = [c \in Conns |-> 0]
    /\ managed = [c \in Conns |-> FALSE] /\ reader = [c \in Conns |-> "off"]
    /\ ask = [c \in Conns |-> "no"]
    /\ serve = "off" /\ work = No /\ nextID = 1
    /\ known = [c \in Conns |-> FALSE] /\ attached = [c \in Conns |-> FALSE]
    /\ remote = [c \in Conns |-> "none"] /\ ss = [c \in Conns |-> "none"]
    /\ sid = [c \in Conns |-> 0] /\ fwd = [c \in Conns |-> "off"]
    /\ copies = [c \in Conns |-> {}]
    /\ eof = {}

\* Stream.Close for the ends given: EOF to the other end while the link is up.
Shut(ends, set) == [c \in Conns |-> IF c \in set /\ ends[c] = "open" THEN "closed" ELSE ends[c]]
SendEof(ends, set, side) ==
    eof' = IF link = "up" THEN eof \cup {<<c, side>> : c \in {d \in set : ends[d] = "open"}} ELSE eof
CloseClientEnds(set) == cs' = Shut(cs, set) /\ SendEof(cs, set, "server")
CloseServerEnds(set) == ss' = Shut(ss, set) /\ SendEof(ss, set, "client")
-----------------------------------------------------------------------------
(* ProxyService.Serve: the goroutine that accepts, and the one that checks *)
(* twice a second that the device is there.                                *)

\* AcceptTCP has returned: is the context done?
AcceptorChecks == acceptor' = IF stopped THEN "cleanup" ELSE "accept"

\* acceptConnection starts; it ends at once if the device is not there.
Accept(c) ==
    /\ acceptor = "accept" /\ listener = "open" /\ pc[c] = "off"
    /\ c \in Quiet => IsQuiet
    /\ AcceptorChecks
    /\ \/ pc' = [pc EXCEPT ![c] = "get"] /\ local' = [local EXCEPT ![c] = "open"]
       \/ pc' = [pc EXCEPT ![c] = "end"] /\ local' = [local EXCEPT ![c] = "closed"]
    /\ UNCHANGED <<stopped, watcher, listener, closer, getting, net, cs, cid, managed, reader,
                   ask, handler, table, forward, eof>>

AcceptError ==
    /\ acceptor = "accept" /\ listener = "closed"
    /\ AcceptorChecks
    /\ UNCHANGED <<stopped, watcher, listener, closer, getting, net, conn, handler, table,
                   forward, eof>>

\* The context is done; or the device has gone.
WatcherStops ==
    /\ watcher = "watch" /\ MayClose
    /\ watcher' = "cleanup"
    /\ UNCHANGED <<stopped, acceptor, listener, closer, getting, net, conn, handler, table,
                   forward, eof>>

\* cleanup closes the port, then the service: cancel, as in CloseBegin.
Cleanup(k) ==
    /\ \/ k = "acceptor" /\ acceptor = "cleanup" /\ acceptor' = "done" /\ UNCHANGED watcher
       \/ k = "watcher" /\ watcher = "cleanup" /\ watcher' = "done" /\ UNCHANGED acceptor
    /\ listener' = "closed"
    /\ stopped' = TRUE
    /\ closer' = [closer EXCEPT ![k] = "client"]
    /\ UNCHANGED <<getting, net, conn, handler, table, forward, eof>>
-----------------------------------------------------------------------------
(* ProxyService.Close, by ProxyManager.Close or by cleanup.                *)

CloseBegin ==
    /\ closer["api"] = "no" /\ ~stopped /\ MayClose
    /\ stopped' = TRUE
    /\ closer' = [closer EXCEPT !["api"] = "client"]
    /\ UNCHANGED <<acceptor, watcher, listener, getting, net, conn, handler, table, forward, eof>>

\* CloseAll of the client there is by now, if there is one: its managed
\* streams, then its connection, which closes all streams unless it is down.
CloseClient(k) ==
    /\ closer[k] = "client"
    /\ closer' = [closer EXCEPT ![k] = "done"]
    /\ IF client
       THEN /\ cs' = Shut(cs, IF link = "up" THEN Conns ELSE {c \in Conns : managed[c]})
            /\ managed' = [c \in Conns |-> FALSE]
            /\ link' = "down"
       ELSE UNCHANGED <<cs, managed, link>>
    /\ UNCHANGED <<stopped, acceptor, watcher, listener, getting, toServer, toClient, pc, local,
                   cid, reader, ask, handler, table, forward, eof>>
-----------------------------------------------------------------------------
(* acceptConnection: getOrCreateClient under clientMu, ...                 *)

Step(c, where) == pc' = [pc EXCEPT ![c] = where]

\* acceptConnection returns and closes the local connection.
Return(c) == Step(c, "end") /\ local' = [local EXCEPT ![c] = "closed"]

BugNoClientLock == TRUE
ClientMuFree == clientMu = None

GetClient(c) ==
    /\ pc[c] = "get" /\ ClientMuFree
    /\ IF client THEN Step(c, "request") /\ UNCHANGED clientMu
       ELSE Step(c, "dial") /\ clientMu' = c
    /\ UNCHANGED <<service, client, links, net, local, cs, cid, managed, reader, ask, handler,
                   table, forward, eof>>

\* NewStream with the service's context.
Dial(c) ==
    /\ pc[c] = "dial"
    /\ \/ ~stopped /\ Step(c, "hello") /\ UNCHANGED <<clientMu, local>>
       \/ Return(c) /\ clientMu' = None
    /\ UNCHANGED <<service, client, links, net, cs, cid, managed, reader, ask, handler, table,
                   forward, eof>>

\* Connect, which knows nothing of the context; the server starts to serve.
Hello(c) ==
    /\ pc[c] = "hello"
    /\ clientMu' = None
    /\ \/ /\ Step(c, "request") /\ client' = TRUE /\ links' = links + 1
          /\ link' = "up" /\ serve' = "on"
          /\ UNCHANGED local
       \/ Return(c) /\ UNCHANGED <<client, links, link, serve>>
    /\ UNCHANGED <<service, toServer, toClient, cs, cid, managed, reader, ask, work, nextID,
                   table, forward, eof>>

\* ... Client.Open: the request, ...
Request(c) ==
    /\ pc[c] = "request"
    /\ IF link = "up"
       THEN Step(c, "wait") /\ toServer' = Append(toServer, <<"open", c>>) /\ UNCHANGED local
       ELSE Return(c) /\ UNCHANGED toServer
    /\ UNCHANGED <<service, getting, link, toClient, cs, cid, managed, reader, ask, handler,
                   table, forward, eof>>

\* ... the stream with the ID of the answer.  On a link that has failed it
\* can be had only if a frame of the server has created it before.
GetStream(c) ==
    /\ pc[c] = "stream"
    /\ \/ Step(c, "add") /\ cs' = [cs EXCEPT ![c] = "open"] /\ UNCHANGED local
       \/ link # "up" /\ Return(c) /\ UNCHANGED cs
    /\ UNCHANGED <<service, getting, net, cid, managed, reader, ask, handler, table, forward, eof>>

\* AddProxy, and the goroutines that forward.  forwardLocalToRemote ends
\* without effect: a Stream has no CloseWrite.
AddProxy(c) ==
    /\ pc[c] = "add"
    /\ Step(c, "open")
    /\ managed' = [managed EXCEPT ![c] = TRUE]
    /\ reader' = [reader EXCEPT ![c] = "copy"]
    /\ UNCHANGED <<service, getting, net, local, cs, cid, ask, handler, table, forward, eof>>

BugWaitsForReader(c) == reader[c] = "end"
CtxDone(c) == stopped

\* <-p.ctx.Done()
ConnectionEnds(c) ==
    /\ pc[c] = "open" /\ CtxDone(c)
    /\ Return(c)
    /\ UNCHANGED <<service, getting, net, cs, cid, managed, reader, ask, handler, table, forward, eof>>

\* forwardRemoteToLocal closes both when its copy ends.
ReaderEnds(c) ==
    /\ reader[c] = "copy"
    /\ reader' = [reader EXCEPT ![c] = "end"]
    /\ CloseClientEnds({c})
    /\ local' = [local EXCEPT ![c] = "closed"]
    /\ UNCHANGED <<service, getting, net, pc, cid, managed, ask, handler, table, forward>>

\* Nothing more to read from the stream.
ClientStreamOver(c) == cs[c] = "closed" \/ <<c, "client">> \in eof \/ link = "down"
-----------------------------------------------------------------------------
(* Client.Close(proxyID), and the answers.                                 *)

AskClose(c) ==
    /\ MayClose
    /\ pc[c] \in {"open", "end"} /\ reader[c] # "off" /\ ask[c] = "no"
    /\ link = "up"
    /\ ask' = [ask EXCEPT ![c] = "wait"]
    /\ toServer' = Append(toServer, <<"close", c>>)
    /\ UNCHANGED <<service, getting, link, toClient, pc, local, cs, cid, managed, reader,
                   handler, table, forward, eof>>

\* RemoveProxy after the answer.
AskDone(c) ==
    /\ ask[c] = "got"
    /\ ask' = [ask EXCEPT ![c] = "ok"]
    /\ CloseClientEnds(IF managed[c] THEN {c} ELSE {})
    /\ managed' = [managed EXCEPT ![c] = FALSE]
    /\ UNCHANGED <<service, getting, net, pc, local, cid, reader, handler, table, forward>>

Opened(c, ok, id) == [re |-> "open", c |-> c, ok |-> ok, id |-> id]
Closed(c) == [re |-> "close", c |-> c, ok |-> TRUE, id |-> 0]

\* The Matchers: type and proxy ID.
BugMatchesType(c, pkt) == TRUE
Match(c, pkt) == pkt.c = c

Dispatch ==
    /\ toClient # <<>>
    /\ toClient' = Tail(toClient)
    /\ LET pkt == Head(toClient)
           \* requests that wait for a packet of this type
           waiting == {c \in Conns : Match(c, pkt) /\
                         IF pkt.re = "open" THEN pc[c] = "wait" ELSE ask[c] = "wait"}
       IN  IF waiting = {} THEN UNCHANGED <<pc, local, cid, ask>>
           ELSE \E c \in waiting :
                  IF pkt.re = "close"
                  THEN ask' = [ask EXCEPT ![c] = "got"] /\ UNCHANGED <<pc, local, cid>>
                  ELSE /\ IF pkt.ok THEN Step(c, "stream") /\ UNCHANGED local ELSE Return(c)
                       /\ cid' = [cid EXCEPT ![c] = pkt.id]
                       /\ UNCHANGED ask
    /\ UNCHANGED <<service, getting, link, toServer, cs, managed, reader, handler, table,
                   forward, eof>>

\* failAllPending.
DispatchEnd ==
    /\ link = "down"
    /\ toClient' = <<>>
    /\ pc' = [c \in Conns |-> IF pc[c] = "wait" THEN "end" ELSE pc[c]]
    /\ local' = [c \in Conns |-> IF pc[c] = "wait" THEN "closed" ELSE local[c]]
    /\ ask' = [c \in Conns |-> IF ask[c] = "wait" THEN "failed" ELSE ask[c]]
    /\ UNCHANGED <<service, getting, link, toServer, cs, cid, managed, reader, handler, table,
                   forward, eof>>

LinkFails ==
    /\ link = "up" /\ link' = "down"
    /\ UNCHANGED <<service, getting, toServer, toClient, conn, handler, table, forward, eof>>
-----------------------------------------------------------------------------
(* Server: Serve takes one packet after the other.                         *)

Handling(type, c) == serve = "on" /\ work = No /\ toServer # <<>> /\ Head(toServer) = <<type, c>>
Then(where, c) == work' = IF where = "none" THEN No ELSE [at |-> where, c |-> c]

\* An answer; Serve ends when it cannot be sent.
Reply(pkt) ==
    /\ work' = No
    /\ IF link = "up" THEN toClient' = Append(toClient, pkt) /\ UNCHANGED serve
       ELSE serve' = "closing" /\ UNCHANGED toClient

\* handleOpen: the dial, ...
HandleOpen(c) ==
    /\ Handling("open", c)
    /\ toServer' = Tail(toServer)
    /\ \/ Reply(Opened(c, FALSE, 0)) /\ UNCHANGED remote
       \/ /\ remote' = [remote EXCEPT ![c] = "open"]
          /\ Then("stream", c)
          /\ UNCHANGED <<serve, toClient>>
    /\ UNCHANGED <<service, getting, link, conn, nextID, table, ss, sid, fwd, copies, eof>>

BugCountsDown == nextID - 1
IDAfter == nextID + 1

\* ... a stream, which a closed multiplexer refuses (the remote connection
\* is forgotten then), ...
OpenStream(c) ==
    /\ work = [at |-> "stream", c |-> c]
    /\ nextID' = IDAfter
    /\ \/ /\ \A d \in Conns : ss[d] = "open" => sid[d] # nextID
          /\ ss' = [ss EXCEPT ![c] = "open"] /\ sid' = [sid EXCEPT ![c] = nextID]
          /\ Then("answer", c)
          /\ UNCHANGED <<serve, toClient>>
       \/ /\ link = "down" \/ \E d \in Conns : ss[d] = "open" /\ sid[d] = nextID
          /\ Reply(Opened(c, FALSE, 0))
          /\ UNCHANGED <<ss, sid>>
    /\ UNCHANGED <<service, getting, link, toServer, conn, table, remote, fwd, copies, eof>>

\* ... the answer, ...
AnswerOpen(c) ==
    /\ work = [at |-> "answer", c |-> c]
    /\ IF link = "up"
       THEN /\ toClient' = Append(toClient, Opened(c, TRUE, sid[c]))
            /\ Then("add", c)
            /\ UNCHANGED <<serve, remote>>
       ELSE /\ remote' = [remote EXCEPT ![c] = "closed"]
            /\ serve' = "closing" /\ work' = No
            /\ UNCHANGED toClient
    /\ UNCHANGED <<service, getting, link, toServer, conn, nextID, table, ss, sid, fwd, copies, eof>>

\* ... and only then the proxy and its forward goroutine.
AddServerProxy(c) ==
    /\ work = [at |-> "add", c |-> c]
    /\ work' = No
    /\ known' = [known EXCEPT ![c] = TRUE]
    /\ fwd' = [fwd EXCEPT ![c] = "wait"]
    /\ UNCHANGED <<service, getting, net, conn, serve, nextID, attached, remote, ss, sid, copies, eof>>

\* handleClose: Proxy.Close, which closes what is set by now, ...
BugRemoteKept(c) == remote[c]
RemoteClosed(c) == "closed"

HandleClose(c) ==
    /\ Handling("close", c)
    /\ toServer' = Tail(toServer)
    /\ Then("remove", c)
    /\ IF known[c]
       THEN /\ CloseServerEnds(IF attached[c] THEN {c} ELSE {})
            /\ remote' = [remote EXCEPT ![c] = RemoteClosed(c)]
       ELSE UNCHANGED <<ss, eof, remote>>
    /\ UNCHANGED <<service, getting, link, toClient, conn, serve, nextID, table, sid, fwd, copies>>

\* ... RemoveProxy, which closes the stream if it has been set since, and the
\* answer.
RemoveServerProxy(c) ==
    /\ work = [at |-> "remove", c |-> c]
    /\ Reply(Closed(c))
    /\ CloseServerEnds(IF known[c] /\ attached[c] THEN {c} ELSE {})
    /\ known' = [known EXCEPT ![c] = FALSE]
    /\ UNCHANGED <<service, getting, link, toServer, conn, nextID, attached, remote, sid, fwd, copies>>

ServeEnds ==
    /\ serve = "on" /\ work = No /\ link = "down"
    /\ serve' = "closing"
    /\ UNCHANGED <<service, getting, net, conn, work, nextID, table, forward, eof>>

\* Server.Close: the managed streams, not the remote connections; the link is
\* down and its multiplexer closed already.
ServerClose ==
    /\ serve = "closing"
    /\ serve' = "closed" /\ toServer' = <<>>
    /\ CloseServerEnds({c \in Conns : known[c] /\ attached[c]})
    /\ known' = [c \in Conns |-> FALSE]
    /\ UNCHANGED <<service, getting, link, toClient, conn, work, nextID, attached, remote, sid, fwd, copies>>
-----------------------------------------------------------------------------
(* Server: forward.                                                        *)

\* waitForStream finds the stream that handleOpen has opened.
ForwardStart(c) ==
    /\ fwd[c] = "wait"
    /\ fwd' = [fwd EXCEPT ![c] = "copy"]
    /\ attached' = [attached EXCEPT ![c] = TRUE]
    /\ copies' = [copies EXCEPT ![c] = {"out", "in"}]
    /\ UNCHANGED <<service, getting, net, conn, handler, known, remote, ss, sid, eof>>

\* A copy ends: "out" reads the remote connection, "in" the stream.
CopyEnds(c, dir) ==
    /\ dir \in copies[c]
    /\ copies' = [copies EXCEPT ![c] = @ \ {dir}]
    /\ UNCHANGED <<service, getting, net, conn, handler, table, remote, ss, sid, fwd, eof>>

ServerStreamOver(c) == ss[c] = "closed" \/ <<c, "server">> \in eof \/ link = "down"
NothingToCopy(c, dir) == IF dir = "out" THEN remote[c] = "closed" ELSE ServerStreamOver(c)

\* Both copies have ended.
ForwardEnd(c) ==
    /\ fwd[c] = "copy" /\ copies[c] = {}
    /\ fwd' = [fwd EXCEPT ![c] = "end"]
    /\ remote' = [remote EXCEPT ![c] = "closed"]
    /\ CloseServerEnds({c})
    /\ UNCHANGED <<service, getting, net, conn, handler, table, sid, copies>>
-----------------------------------------------------------------------------
AcceptorStep == AcceptError \/ Cleanup("acceptor")
WatcherStep == (stopped /\ WatcherStops) \/ Cleanup("watcher")
ConnStep(c) == Dial(c) \/ Hello(c) \/ Request(c) \/ GetStream(c) \/ AddProxy(c) \/ ConnectionEnds(c)
HandlerStep ==
    \/ \E c \in Conns :
         \/ HandleOpen(c) \/ OpenStream(c) \/ AnswerOpen(c) \/ AddServerProxy(c)
         \/ HandleClose(c) \/ RemoveServerProxy(c)
    \/ ServeEnds \/ ServerClose

Next ==
    \/ AcceptError \/ WatcherStops
    \/ \E k \in {"acceptor", "watcher"} : Cleanup(k)
    \/ CloseBegin \/ \E k \in Closers : CloseClient(k)
    \/ \E c \in Conns :
         \/ Accept(c) \/ GetClient(c) \/ Dial(c) \/ Hello(c) \/ Request(c) \/ GetStream(c)
         \/ AddProxy(c) \/ ConnectionEnds(c) \/ ReaderEnds(c) \/ AskClose(c) \/ AskDone(c)
         \/ HandleOpen(c) \/ OpenStream(c) \/ AnswerOpen(c) \/ AddServerProxy(c)
         \/ HandleClose(c) \/ RemoveServerProxy(c)
         \/ ForwardStart(c) \/ (\E dir \in {"out", "in"} : CopyEnds(c, dir)) \/ ForwardEnd(c)
    \/ Dispatch \/ DispatchEnd \/ LinkFails \/ ServeEnds \/ ServerClose

Spec == Init /\ [][Next]_vars

(***************************************************************************)
(* Goroutines that can go on do; dials and handshakes time out, and what   *)
(* is written is taken.  A copy ends by itself only when there is nothing  *)
(* more to read: it is not assumed that the application or the remote end  *)
(* ever sends or closes, or that the link fails.  A goroutine that waits   *)
(* for clientMu gets it, as sync.Mutex is fair to waiters.                 *)
(***************************************************************************)
FairSpec ==
    /\ Spec
    /\ WF_vars(AcceptorStep) /\ WF_vars(WatcherStep) /\ \A k \in Closers : WF_vars(CloseClient(k))
    /\ \A c \in Conns :
         /\ SF_vars(GetClient(c)) /\ WF_vars(ConnStep(c)) /\ WF_vars(AskDone(c))
         /\ WF_vars(ClientStreamOver(c) /\ ReaderEnds(c))
         /\ WF_vars(ForwardStart(c)) /\ WF_vars(ForwardEnd(c))
         /\ \A dir \in {"out", "in"} : WF_vars(NothingToCopy(c, dir) /\ CopyEnds(c, dir))
    /\ WF_vars(Dispatch) /\ WF_vars(DispatchEnd) /\ WF_vars(HandlerStep)
-----------------------------------------------------------------------------
Ends == {"none", "open", "closed"}

\* Types of the service, the client and the server.
TypeOK ==
    /\ stopped \in BOOLEAN /\ client \in BOOLEAN /\ listener \in {"open", "closed"}
    /\ acceptor \in {"accept", "cleanup", "done"} /\ watcher \in {"watch", "cleanup", "done"}
    /\ closer \in [Closers -> {"no", "client", "done"}]
    /\ clientMu \in Conns \cup {None} /\ link \in {"none", "up", "down"}
    /\ pc \in [Conns -> {"off", "get", "dial", "hello", "request", "wait", "stream", "add", "open", "end"}]
    /\ local \in [Conns -> Ends] /\ cs \in [Conns -> Ends] /\ ss \in [Conns -> Ends]
    /\ remote \in [Conns -> Ends] /\ fwd \in [Conns -> {"off", "wait", "copy", "end"}]
    /\ serve \in {"off", "on", "closing", "closed"} /\ nextID \in Nat \ {0}

(***************************************************************************)
(* However many connections are opened at once, each is forwarded through  *)
(* the stream that the server forwards to its own remote connection.       *)
(***************************************************************************)
StreamsPaired ==
    /\ \A c \in Conns : cs[c] # "none" => cid[c] = sid[c]
    /\ \A c, d \in Conns : c # d /\ cs[c] = "open" /\ cs[d] = "open" => cid[c] # cid[d]

(***************************************************************************)
(* A service has one client for all its connections, though they all start *)
(* by looking for it.                                                      *)
(***************************************************************************)
OneLink == links <= 1

(***************************************************************************)
(* When Client.Close has succeeded, the remote connection, the forward     *)
(* goroutine and the local connection all end, wherever forward was when   *)
(* the request came, and though application and remote end stay silent.    *)
(***************************************************************************)
CloseReleases ==
    \A c \in Conns : ask[c] = "ok" ~> remote[c] = "closed" /\ fwd[c] = "end" /\ local[c] = "closed"

(***************************************************************************)
(* Every accepted connection is closed when the service was closed, though *)
(* it may just look for a client, connect one or wait for an answer.       *)
(***************************************************************************)
LocalReleased == \A c \in Conns : stopped /\ local[c] = "open" ~> local[c] = "closed"
=============================================================================
