---------------------------- MODULE BaseService ----------------------------
(***************************************************************************)
(* The request/response layer all protocols share: BaseClient, BaseServer  *)
(* and the ControlPlane each of them owns, talking length-prefixed packets *)
(* over the control stream of a connection.                                *)
(*                                                                         *)
(* A packet is two parts on the stream, its length and its body, written   *)
(* by one of several goroutines and read by one of several: the control    *)
(* plane's, and one for every handshake.  A handshake that timed out       *)
(* leaves its reader behind.  The stream itself is what Multiplexer and    *)
(* StreamReader make of it: in order, ended by one error for one reader    *)
(* (errChan) or by the local Close for all of them.                        *)
(***************************************************************************)
EXTENDS Integers, Sequences

CONSTANTS Reqs,        \* requests the client's callers may make
          Key,         \* what a request's Matcher looks at: type and run ID
          None,        \* nothing
          EventCap,    \* ControlBufferSize (32 in the code)
          Unasked,     \* types of the packets the server sends unasked
          CloseRaces,  \* bound: the client's Close may meet a connection that fails
          MaxConnects, \* bound: calls of Connect
          MaxEvents    \* bound: packets the server sends unasked

\* Goroutines that write: Connect, requests; Serve, a run that ends.
Writers == {"connect", "serve", "event"} \cup Reqs
WriterSide(w) == IF w \in {"serve", "event"} THEN "server" ELSE "client"

\* A packet (of the type of an answer, perhaps, with a payload no matcher can
\* decode), and what a call of ReadPacket returns instead of one.
Packets == [type : {"hello", "ack", "event", "failed", "garbled", "req", "resp", "unreadable"},
            req : Reqs \cup {None}]

ASSUME BaseServiceAssumption ==
    /\ None \notin Writers \cup Packets /\ Reqs \cap {"connect", "serve", "event"} = {}
    /\ Unasked \subseteq {"event", "unreadable"} /\ CloseRaces \in BOOLEAN
    /\ EventCap \in Nat \ {0} /\ MaxConnects \in Nat \ {0} /\ MaxEvents \in Nat

Sides == {"client", "server"}
Other(s) == IF s = "client" THEN "server" ELSE "client"

Packet(type, r) == [type |-> type, req |-> r]
Hello == Packet("hello", None)
Ack == Packet("ack", None)

\* The latter: the error of the stream, and the middle of a packet.
Failed == Packet("failed", None)     \* the stream has ended
Garbled == Packet("garbled", None)   \* no packet starts here

\* Goroutines that read: on each side the control plane's, and the ones of
\* readHandshakeWithTimeout, numbered by the calls of Accept and Connect.
Plane(s) == <<s, 0>>
Handshake(s, n) == <<s, n>>
Readers == {Plane(s) : s \in Sides} \cup {Handshake("server", 1)}
             \cup {Handshake("client", n) : n \in 1..MaxConnects}
ReaderSide(x) == x[1]

VARIABLES
    in,        \* per side: parts on their way to it, in dataChan or on the wire
    stream,    \* per side: its control stream: open, error (one queued), quiet, closed
    conn,      \* the connection: up or down
    mu,        \* per side: who holds PacketReadWriteCloser.writeMu
    wr,        \* per writer: progress of its WritePacket
    read,      \* per reader: progress of its ReadPacket
    events,    \* per side: ControlPlane.events
    stopped,   \* per side: the context of ControlPlane.run is cancelled
    cl,        \* where Connect is
    connects,  \* number of calls of Connect (bound)
    done,      \* handshakeDone of the client
    closing,   \* where Close of the client is
    disp,      \* where runDispatcher is
    packet,    \* the packet runDispatcher has
    dispStop,  \* dispatchCancel was called
    pending,   \* BaseClient.pending
    resp,      \* per request: PendingRequest.Response (capacity 1)
    req,       \* per request: where SendRequest is
    dropped,   \* history: Deliver found the channel full
    srv,       \* where Accept, Serve and Close of the server are
    nEvents,   \* packets sent unasked (bound)
    due        \* history, per side: packets sent to it and not dealt with

wire   == <<in, stream, conn>>
client == <<cl, connects, done, closing, disp, packet, dispStop>>
reqs   == <<pending, resp, req, dropped>>
server == <<srv, nEvents>>
planes == <<events, stopped>>
vars == <<wire, mu, wr, read, planes, client, reqs, server, due>>

Off == [pc |-> "off", pkt |-> Failed]

Init ==
    /\ in = [s \in Sides |-> <<>>] /\ stream = [s \in Sides |-> "open"] /\ conn = "up"
    /\ mu = [s \in Sides |-> None] /\ wr = [w \in Writers |-> Off]
    /\ read = [x \in Readers |-> IF x = Handshake("server", 1) THEN [Off EXCEPT !.pc = "len"] ELSE Off]
    /\ events = [s \in Sides |-> <<>>] /\ stopped = [s \in Sides |-> FALSE]
    /\ cl = "idle" /\ connects = 0 /\ done = FALSE /\ closing = "no"
    /\ disp = "off" /\ packet = Failed /\ dispStop = FALSE
    /\ pending = {} /\ resp = [r \in Reqs |-> None] /\ req = [r \in Reqs |-> "idle"]
    /\ dropped = FALSE
    /\ srv = "accept" /\ nEvents = 0
    /\ due = [s \in Sides |-> <<>>]

\* History: side s deals with the packet that came first.
Deal(s) == due' = [due EXCEPT ![s] = IF @ = <<>> THEN @ ELSE Tail(@)]
-----------------------------------------------------------------------------
(* WritePacket: length and body under writeMu.                             *)

StartWrite(w, pkt) == wr' = [wr EXCEPT ![w] = [pc |-> "len", pkt |-> pkt]]

BugNoWriteLock(s) == TRUE
WriteMuFree(s) == mu[s] = None

WriteLength(w) ==
    LET s == WriterSide(w)
    IN  /\ wr[w].pc = "len" /\ WriteMuFree(s)
        /\ IF conn = "down"
           THEN wr' = [wr EXCEPT ![w].pc = "failed"] /\ UNCHANGED <<in, mu>>
           ELSE /\ in' = [in EXCEPT ![Other(s)] = Append(@, <<"len", wr[w].pkt>>)]
                /\ mu' = [mu EXCEPT ![s] = w]
                /\ wr' = [wr EXCEPT ![w].pc = "body"]
        /\ UNCHANGED <<stream, conn, read, planes, client, reqs, server, due>>

WriteBody(w) ==
    LET s == WriterSide(w)
    IN  /\ wr[w].pc = "body"
        /\ IF conn = "down"
           THEN wr' = [wr EXCEPT ![w].pc = "failed"] /\ UNCHANGED <<in, due>>
           ELSE /\ in' = [in EXCEPT ![Other(s)] = Append(@, <<"body", wr[w].pkt>>)]
                /\ wr' = [wr EXCEPT ![w].pc = "ok"]
                /\ due' = [due EXCEPT ![Other(s)] = Append(@, wr[w].pkt)]
        /\ mu' = [mu EXCEPT ![s] = None]
        /\ UNCHANGED <<stream, conn, read, planes, client, reqs, server>>
-----------------------------------------------------------------------------
(* ReadPacket.                                                             *)

Read(x, to, pkt) == read' = [read EXCEPT ![x] = [pc |-> to, pkt |-> pkt]]

\* Four bytes of a JSON body are no length below the limit: what is left of
\* the body stays on the stream.
ReadLength(x) ==
    LET s == ReaderSide(x)
        part == Head(in[s])
    IN  /\ read[x].pc = "len" /\ in[s] # <<>>
        /\ IF part[1] = "len"
           THEN Read(x, "body", part[2]) /\ in' = [in EXCEPT ![s] = Tail(@)]
           ELSE Read(x, "got", Garbled) /\ in' = [in EXCEPT ![s][1] = <<"rest", part[2]>>]
        /\ UNCHANGED <<stream, conn, mu, wr, planes, client, reqs, server, due>>

\* If another reader has had the first bytes of the body, the next length is
\* taken for the end of it.
ReadBody(x) ==
    LET s == ReaderSide(x)
    IN  /\ read[x].pc = "body"
        /\ \/ /\ in[s] # <<>> /\ Head(in[s])[1] # "rest"
              /\ Read(x, "got", IF Head(in[s]) = <<"body", read[x].pkt>>
                                THEN read[x].pkt ELSE Garbled)
              /\ in' = [in EXCEPT ![s] = Tail(@)]
           \/ /\ Len(in[s]) > 1 /\ Head(in[s])[1] = "rest"
              /\ Read(x, "got", Garbled)
              /\ in' = [in EXCEPT ![s] = Tail(Tail(@))]
        /\ UNCHANGED <<stream, conn, mu, wr, planes, client, reqs, server, due>>

\* The error of errChan, which can overtake data, or EOF after Close.
ReadEnd(x) ==
    LET s == ReaderSide(x)
    IN  /\ read[x].pc \in {"len", "body"}
        /\ \/ stream[s] = "error" /\ stream' = [stream EXCEPT ![s] = "quiet"]
           \/ stream[s] = "closed" /\ in[s] = <<>> /\ UNCHANGED stream
        /\ Read(x, "got", Failed)
        /\ UNCHANGED <<in, conn, mu, wr, planes, client, reqs, server, due>>

ConnFails ==
    /\ conn = "up" /\ conn' = "down"
    /\ CloseRaces \/ closing = "no"
    /\ UNCHANGED <<in, stream, mu, wr, read, planes, client, reqs, server, due>>

\* readLoop sees the failure, between two frames: inside one it would tell no
\* stream (Multiplexer, cut).  Packets that are lost with the connection are
\* the ones the error overtakes.
StreamError(s) ==
    /\ conn = "down" /\ stream[s] = "open"
    /\ stream' = [stream EXCEPT ![s] = "error"]
    /\ UNCHANGED <<in, conn, mu, wr, read, planes, client, reqs, server, due>>
-----------------------------------------------------------------------------
(* ControlPlane.run.                                                       *)

Started(s) == read[Plane(s)].pc # "off"

\* EnsureStarted, with the rest of the step that calls it.
EnsureStarted(s) ==
    read' = IF Started(s) THEN read
            ELSE [read EXCEPT ![Plane(s)].pc = "len"]

BugNoCapacity(s) == TRUE
HasRoom(s) == Len(events[s]) < EventCap

BugGivesUpWhenFull(s) == TRUE
GivesUp(s) == stopped[s]

\* The select on the context is for packets; an error waits for room for ever.
PlaneSend(s) ==
    LET x == Plane(s)
        bad == read[x].pkt \in {Failed, Garbled}
    IN  /\ read[x].pc = "got"
        /\ \/ /\ HasRoom(s)
              /\ events' = [events EXCEPT ![s] = Append(@, read[x].pkt)]
              /\ Read(x, IF bad \/ stopped[s] THEN "done" ELSE "len", Failed)
           \/ /\ GivesUp(s) /\ ~bad
              /\ Read(x, "done", Failed)
              /\ UNCHANGED events
        /\ UNCHANGED <<wire, mu, wr, stopped, client, reqs, server, due>>

\* ControlPlane.Next has something: a packet, an error, or the closed channel.
HasNext(s) == events[s] # <<>> \/ read[Plane(s)].pc = "done"
NextEvent(s) == IF events[s] = <<>> THEN Failed ELSE Head(events[s])
TakeEvent(s) == events' = [events EXCEPT ![s] = IF @ = <<>> THEN @ ELSE Tail(@)]
-----------------------------------------------------------------------------
(* BaseClient.Connect.                                                     *)

Connect ==
    /\ cl \in {"idle", "failed"} /\ ~done /\ closing = "no" /\ connects < MaxConnects
    /\ cl' = "hello" /\ connects' = connects + 1
    /\ StartWrite("connect", Hello)
    /\ UNCHANGED <<wire, mu, read, planes, done, closing, disp, packet, dispStop,
                   reqs, server, due>>

\* The hello is out (or not): start the reader of this handshake.
ConnectWait ==
    /\ cl = "hello" /\ wr["connect"].pc \in {"ok", "failed"}
    /\ IF wr["connect"].pc = "ok"
       THEN cl' = "wait" /\ Read(Handshake("client", connects), "len", Failed)
       ELSE cl' = "failed" /\ UNCHANGED read
    /\ wr' = [wr EXCEPT !["connect"] = Off]
    /\ UNCHANGED <<wire, mu, planes, connects, done, closing, disp, packet, dispStop,
                   reqs, server, due>>

\* What a handshake has received; None while it is waiting.
Handshaken(s, n) == IF read[Handshake(s, n)].pc = "got" THEN read[Handshake(s, n)].pkt ELSE None

AckReceived == Handshaken("client", connects) = Ack

\* ensureDispatcher, then handshakeDone.
ConnectAck ==
    /\ cl = "wait" /\ AckReceived
    /\ cl' = "connected" /\ done' = TRUE /\ disp' = "next"
    /\ EnsureStarted("client")
    /\ Deal("client")
    /\ UNCHANGED <<wire, mu, wr, planes, connects, closing, packet, dispStop, reqs,
                   server>>

\* Anything else, or the timeout, which leaves the reader behind.
ConnectFail ==
    /\ cl = "wait"
    /\ ~AckReceived
    /\ cl' = "failed"
    /\ UNCHANGED <<wire, mu, wr, read, planes, connects, done, closing, disp, packet,
                   dispStop, reqs, server, due>>

\* BaseClient.Close.
CloseDispatch ==
    /\ closing = "no" /\ cl \in {"idle", "failed", "connected"}
    /\ CloseRaces \/ conn = "up"
    /\ closing' = "plane"
    /\ dispStop' = (disp # "off")
    /\ UNCHANGED <<wire, mu, wr, read, planes, cl, connects, done, disp, packet, reqs,
                   server, due>>

ClosePlane ==
    /\ closing = "plane"
    /\ closing' = "mux"
    /\ stopped' = [stopped EXCEPT !["client"] = Started("client")]
    /\ UNCHANGED <<wire, mu, wr, read, events, cl, connects, done, disp, packet,
                   dispStop, reqs, server, due>>

\* Multiplexer.Close, which does nothing once readLoop has failed: that sets the
\* flag it looks at, before it tells the streams.
MuxClose(s) ==
    /\ conn' = "down"
    /\ \/ stream[s] = "open" /\ stream' = [stream EXCEPT ![s] = "closed"]
       \/ conn = "down" /\ UNCHANGED stream

CloseMux ==
    /\ closing = "mux"
    /\ closing' = "closed"
    /\ MuxClose("client")
    /\ UNCHANGED <<in, mu, wr, read, planes, cl, connects, done, disp, packet, dispStop,
                   reqs, server, due>>
-----------------------------------------------------------------------------
(* SendRequest, called once the client is connected (EnsureConnected).     *)

SendRequest(r) ==
    /\ done /\ req[r] = "idle"
    /\ pending' = pending \cup {r}
    /\ req' = [req EXCEPT ![r] = "open"]
    /\ StartWrite(r, Packet("req", r))
    /\ UNCHANGED <<wire, mu, read, planes, client, resp, dropped, server, due>>

Waiting(r) == req[r] = "open" /\ wr[r].pc = "ok"

\* Deliver: a non-blocking send on a channel of capacity 1.
Deliver(rs, pkt) ==
    /\ resp' = [r \in Reqs |-> IF r \in rs /\ resp[r] = None THEN pkt ELSE resp[r]]
    /\ dropped' = (dropped \/ \E r \in rs : resp[r] # None)

Complete(r) ==
    /\ pending' = pending \ {r}
    /\ Deliver({r} \cap pending, Failed)

\* WritePacket failed, or the caller's context is done.
RequestFail(r) ==
    /\ Waiting(r) \/ (req[r] = "open" /\ wr[r].pc = "failed")
    /\ Complete(r)
    /\ req' = [req EXCEPT ![r] = "failed"]
    /\ wr' = [wr EXCEPT ![r] = Off]
    /\ UNCHANGED <<wire, mu, read, planes, client, server, due>>

RequestReturn(r) ==
    /\ Waiting(r) /\ resp[r] # None
    /\ req' = [req EXCEPT ![r] = IF resp[r] = Failed THEN "failed" ELSE "answered"]
    /\ wr' = [wr EXCEPT ![r] = Off]
    /\ UNCHANGED <<wire, mu, read, planes, client, pending, resp, dropped, server, due>>
-----------------------------------------------------------------------------
(* runDispatcher.                                                          *)

\* Next has an event or an error; dispatchCtx being done comes first or not.
DispatchNext ==
    /\ disp = "next" /\ HasNext("client")
    /\ TakeEvent("client")
    /\ IF NextEvent("client") \in {Failed, Garbled}
       THEN disp' = "fail" /\ packet' = Failed
       ELSE disp' = "match" /\ packet' = NextEvent("client")
    /\ UNCHANGED <<wire, mu, wr, read, stopped, cl, connects, done, closing, dispStop,
                   reqs, server, due>>

DispatchStopped ==
    /\ disp = "next" /\ dispStop
    /\ disp' = "fail"
    /\ UNCHANGED <<wire, mu, wr, read, planes, cl, connects, done, closing, packet,
                   dispStop, reqs, server, due>>

Match(r, pkt) == pkt.type = "resp" /\ Key[pkt.req] = Key[r]

\* The matcher of any request returns an error, and the request ends with it.
MatchFails(pkt) == pkt.type = "unreadable"

BugKeepsPending(rs) == pending
Removed(rs) == pending \ rs

\* dispatchPending, in the map's order: any.  Unmatched packets are events.
DispatchPending ==
    /\ disp = "match"
    /\ IF \E r \in pending : Match(r, packet) \/ MatchFails(packet)
       THEN \E r \in pending :
               /\ \/ Match(r, packet) /\ Deliver({r}, packet)
                  \/ MatchFails(packet) /\ Deliver({r}, Failed)
               /\ pending' = Removed({r})
       ELSE UNCHANGED <<pending, resp, dropped>>
    /\ disp' = "next" /\ packet' = Failed
    /\ Deal("client")
    /\ UNCHANGED <<wire, mu, wr, read, planes, cl, connects, done, closing, dispStop,
                   req, server>>

BugFailsNone == {}
AllPending == pending

FailAllPending ==
    /\ disp = "fail"
    /\ Deliver(AllPending, Failed)
    /\ pending' = {}
    /\ disp' = "done"
    /\ UNCHANGED <<wire, mu, wr, read, planes, cl, connects, done, closing, packet,
                   dispStop, req, server, due>>
-----------------------------------------------------------------------------
(* BaseServer: Accept, Serve and Close, as the stream handlers call them.  *)

Accept ==
    /\ srv = "accept" /\ Handshaken("server", 1) = Hello
    /\ srv' = "ack"
    /\ StartWrite("serve", Ack)
    /\ Deal("server")
    /\ UNCHANGED <<wire, mu, read, planes, client, reqs, nEvents>>

\* Another packet, an error or the timeout.
AcceptFail ==
    /\ srv = "accept"
    /\ Handshaken("server", 1) # Hello
    /\ srv' = "closing"
    /\ UNCHANGED <<wire, mu, wr, read, planes, client, reqs, nEvents, due>>

\* The ack or an answer is out; Serve calls Next, the first time starting the
\* control plane.
ServeLoop ==
    /\ srv \in {"ack", "answer"} /\ wr["serve"].pc \in {"ok", "failed"}
    /\ IF wr["serve"].pc = "ok"
       THEN srv' = "next" /\ EnsureStarted("server")
       ELSE srv' = "closing" /\ UNCHANGED read
    /\ wr' = [wr EXCEPT !["serve"] = Off]
    /\ UNCHANGED <<wire, mu, planes, client, reqs, nEvents, due>>

\* Next and Dispatch: a request is answered; a type the dispatcher does not
\* know, like a second hello, is an error that ends Serve.
Serve ==
    /\ srv = "next" /\ HasNext("server")
    /\ TakeEvent("server")
    /\ LET pkt == NextEvent("server")
       IN  /\ IF pkt.type = "req"
              THEN srv' = "answer" /\ StartWrite("serve", Packet("resp", pkt.req))
              ELSE srv' = "closing" /\ UNCHANGED wr
           /\ IF pkt \in {Failed, Garbled} THEN UNCHANGED due ELSE Deal("server")
    /\ UNCHANGED <<wire, mu, read, stopped, client, reqs, nEvents>>

\* Another goroutine of the server, like monitorExecution, sends a packet.  A
\* peer of another version may send one the client's matchers cannot decode.
SendEvent ==
    /\ srv \in {"next", "answer"} /\ nEvents < MaxEvents /\ wr["event"].pc # "len"
    /\ wr["event"].pc # "body"
    /\ \E type \in Unasked : StartWrite("event", Packet(type, None))
    /\ nEvents' = nEvents + 1
    /\ UNCHANGED <<wire, mu, read, planes, client, reqs, srv, due>>

ServerClose ==
    /\ srv = "closing"
    /\ srv' = "closed"
    /\ stopped' = [stopped EXCEPT !["server"] = Started("server")]
    /\ MuxClose("server")
    /\ UNCHANGED <<in, mu, wr, read, events, client, reqs, nEvents, due>>
-----------------------------------------------------------------------------
ReadStep(x) == ReadLength(x) \/ ReadBody(x) \/ ReadEnd(x)
ConnectStep == ConnectWait \/ ConnectAck \/ ConnectFail
CloseStep == ClosePlane \/ CloseMux
DispatchStep == DispatchNext \/ DispatchStopped \/ DispatchPending \/ FailAllPending
ServerStep == Accept \/ AcceptFail \/ ServeLoop \/ Serve \/ ServerClose

Next ==
    \/ \E w \in Writers : WriteLength(w) \/ WriteBody(w)
    \/ \E x \in Readers : ReadLength(x) \/ ReadBody(x) \/ ReadEnd(x)
    \/ ConnFails
    \/ \E s \in Sides : StreamError(s) \/ PlaneSend(s)
    \/ Connect \/ ConnectWait \/ ConnectAck \/ ConnectFail
    \/ CloseDispatch \/ ClosePlane \/ CloseMux
    \/ \E r \in Reqs : SendRequest(r) \/ RequestFail(r) \/ RequestReturn(r)
    \/ DispatchNext \/ DispatchStopped \/ DispatchPending \/ FailAllPending
    \/ Accept \/ AcceptFail \/ ServeLoop \/ Serve \/ SendEvent \/ ServerClose

Spec == Init /\ [][Next]_vars

(***************************************************************************)
(* Goroutines go on when they can, and readLoop notices a failed           *)
(* connection.  Writes need not finish while the connection is up, and no  *)
(* caller need connect, request, cancel a request or close.                *)
(***************************************************************************)
FairSpec ==
    /\ Spec
    /\ \A w \in Writers : WF_vars(conn = "down" /\ (WriteLength(w) \/ WriteBody(w)))
    /\ \A x \in Readers : WF_vars(ReadStep(x))
    /\ \A s \in Sides : WF_vars(StreamError(s)) /\ WF_vars(PlaneSend(s))
    /\ \A r \in Reqs : WF_vars(RequestReturn(r)) /\ WF_vars(wr[r].pc = "failed" /\ RequestFail(r))
    /\ WF_vars(DispatchStep)
-----------------------------------------------------------------------------
\* Types of the fields, and the control channels hold at most EventCap events.
TypeOK ==
    /\ \A s \in Sides :
         /\ stream[s] \in {"open", "error", "quiet", "closed"}
         /\ mu[s] \in Writers \cup {None}
         /\ Len(events[s]) <= EventCap /\ \A i \in 1..Len(events[s]) : events[s][i] \in Packets
    /\ \A w \in Writers : wr[w].pc \in {"off", "len", "body", "ok", "failed"} /\ wr[w].pkt \in Packets
    /\ \A x \in Readers : read[x].pc \in {"off", "len", "body", "got", "done"} /\ read[x].pkt \in Packets
    /\ conn \in {"up", "down"} /\ closing \in {"no", "plane", "mux", "closed"}
    /\ cl \in {"idle", "hello", "wait", "connected", "failed"}
    /\ disp \in {"off", "next", "match", "fail", "done"} /\ packet \in Packets
    /\ pending \subseteq Reqs
    /\ \A r \in Reqs : resp[r] \in Packets \cup {None}
                       /\ req[r] \in {"idle", "open", "failed", "answered"}
    /\ srv \in {"accept", "ack", "next", "answer", "closing", "closed"}

(***************************************************************************)
(* A reader takes the middle of a packet for its start only when a call of *)
(* Connect was given up and its reader is still there: concurrent requests,*)
(* answers and events alone never garble the control stream.               *)
(***************************************************************************)
GarbledNeedsZombie ==
    (\E x \in Readers : read[x].pkt = Garbled) => connects > 1

\* Packets a side has read and not dealt with, the bodies on their way to it.
InHand(s) ==
    (IF s = "client" /\ disp = "match" THEN <<packet>> ELSE <<>>)
    \o events[s]
    \o (IF read[Plane(s)].pc = "got" THEN <<read[Plane(s)].pkt>> ELSE <<>>)
    \o (IF Handshaken(s, 1) # None /\ (IF s = "client" THEN ~done ELSE srv = "accept")
        THEN <<Handshaken(s, 1)>> ELSE <<>>)
\* Lengths and bodies take turns; a body comes first when its length was read.
BodiesOf(parts) == LET odd == IF parts # <<>> /\ parts[1][1] = "body" THEN 1 ELSE 0
                   IN  [k \in 1..((Len(parts) + odd) \div 2) |-> parts[2 * k - odd][2]]

(***************************************************************************)
(* Each side deals with the packets sent to it in the order they were sent *)
(* and loses none: what was sent and not dealt with is in one place on its *)
(* way.  The control plane's buffer being full delays a packet, a caller   *)
(* that gives up a request or a writer of another goroutine changes        *)
(* nothing.  (A second Connect could leave a packet with the first one's   *)
(* reader; a failing connection or Close loses packets.)                   *)
(***************************************************************************)
NothingLost ==
    conn = "up" /\ connects <= 1 /\ srv # "closing" =>
       \A s \in Sides : stopped[s] \/ due[s] = InHand(s) \o BodiesOf(in[s])

(***************************************************************************)
(* A caller of SendRequest gets an answer its Matcher accepts, in whatever *)
(* order the answers and the server's own packets come.  And Deliver never *)
(* finds the channel of a request full, whoever completes it (the          *)
(* dispatcher, a failed write, a cancelled context, the end of the         *)
(* connection): its default branch would lose an answer.                   *)
(***************************************************************************)
AnswersDelivered ==
    /\ \A r \in Reqs : req[r] = "answered" =>
         resp[r].type = "resp" /\ Key[resp[r].req] = Key[r]
    /\ ~dropped

(***************************************************************************)
(* When the connection is lost between two frames every caller of          *)
(* SendRequest returns, with no timeout of its own; unless the client is   *)
(* being closed at that time, or its dispatcher ended early on a stream    *)
(* garbled by a second Connect.                                            *)
(***************************************************************************)
RequestReturns ==
    \A r \in Reqs : req[r] = "open" /\ conn = "down" /\ closing = "no" /\ connects = 1 ~>
                    req[r] # "open" \/ closing # "no"
=============================================================================
