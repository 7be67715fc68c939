------------------------- MODULE BaseServiceProofs -------------------------
(***************************************************************************)
(* Proofs about BaseService, for any requests and Matchers, any capacity   *)
(* of the control channels and any number of packets.                      *)
(***************************************************************************)
EXTENDS BaseService, SequenceTheorems, TLAPS

\* Packets that are sent; the other two are what a call of ReadPacket fails with.
Good == Packets \ {Failed, Garbled}
Parts == {"len", "body", "rest"} \X Good
Sendings == [pc : {"off", "len", "body", "ok", "failed"}, pkt : Packets]
Readings == [pc : {"off", "len", "body", "got", "done"}, pkt : Packets]

(***************************************************************************)
(* The inductive invariant, in parts.                                      *)
(***************************************************************************)
WireTypes ==
    /\ in \in [Sides -> Seq(Parts)] /\ conn \in {"up", "down"}
    /\ stream \in [Sides -> {"open", "error", "quiet", "closed"}]

WriterTypes == wr \in [Writers -> Sendings] /\ mu \in [Sides -> Writers \cup {None}]

ReaderTypes == read \in [Readers -> Readings]

\* What is being written, and read, is a packet somebody sent.
Whole ==
    /\ \A w \in Writers : wr[w].pc = "off" \/ wr[w].pkt \in Good
    /\ \A x \in Readers : read[x].pc = "body" => read[x].pkt \in Good

PlaneTypes ==
    /\ events \in [Sides -> Seq(Packets)] /\ \A s \in Sides : Len(events[s]) <= EventCap
    /\ stopped \in [Sides -> BOOLEAN] /\ due \in [Sides -> Seq(Packets)]

ClientTypes ==
    /\ cl \in {"idle", "hello", "wait", "connected", "failed"} /\ connects \in 0..MaxConnects
    /\ cl \in {"hello", "wait", "connected"} => connects > 0
    /\ closing \in {"no", "plane", "mux", "closed"}
    /\ disp \in {"off", "next", "match", "fail", "done"} /\ packet \in Packets
    /\ done \in BOOLEAN /\ dispStop \in BOOLEAN

ServerTypes == srv \in {"accept", "ack", "next", "answer", "closing", "closed"}

RequestTypes ==
    /\ pending \subseteq Reqs /\ resp \in [Reqs -> Packets \cup {None}]
    /\ req \in [Reqs -> {"idle", "open", "failed", "answered"}]

\* A request is pending until it has a response, and only while its caller
\* waits for one; the response is an error or matches the request.
Answering ==
    /\ \A r \in pending : req[r] = "open" /\ resp[r] = None
    /\ \A r \in Reqs : req[r] = "idle" => resp[r] = None
    /\ \A r \in Reqs : resp[r] # None => resp[r] = Failed \/ Match(r, resp[r])
    /\ \A r \in Reqs : req[r] = "answered" => resp[r] # None /\ resp[r] # Failed
    /\ ~dropped
-----------------------------------------------------------------------------
(* Constants.                                                              *)

LEMMA PacketTypes ==
    /\ Failed \in Packets /\ Garbled \in Packets /\ Hello \in Good /\ Ack \in Good
    /\ \A type \in Unasked : Packet(type, None) \in Good
    /\ Good \subseteq Packets /\ Failed \notin Good /\ Garbled \notin Good
    /\ \A r \in Reqs : Packet("req", r) \in Good
    /\ \A p \in Packets : p # None /\ Packet("resp", p.req) \in Good
  BY BaseServiceAssumption DEF Failed, Garbled, Hello, Ack, Packet, Packets, Good

LEMMA ReaderSides ==
    /\ \A x \in Readers : ReaderSide(x) \in Sides
    /\ \A s \in Sides : Plane(s) \in Readers /\ ReaderSide(Plane(s)) = s
    /\ Handshake("server", 1) \in Readers
    /\ \A n \in 1..MaxConnects : Handshake("client", n) \in Readers
  BY DEF Readers, ReaderSide, Sides, Plane, Handshake

LEMMA WriterSides ==
    /\ \A w \in Writers : WriterSide(w) \in Sides /\ Other(WriterSide(w)) \in Sides
    /\ {"connect", "serve", "event"} \subseteq Writers /\ Reqs \subseteq Writers
  BY DEF Writers, WriterSide, Sides, Other

LEMMA PartTypes ==
    /\ \A p \in Good, k \in {"len", "body", "rest"} : <<k, p>> \in Parts
    /\ \A part \in Parts : /\ part[1] \in {"len", "body", "rest"}
                            /\ part[2] \in Good /\ part[2] \in Packets
  BY DEF Parts, Good
-----------------------------------------------------------------------------
(* Types.                                                                  *)

ConnectStep2 == Connect \/ ConnectStep
RequestStep == \E r \in Reqs : SendRequest(r) \/ RequestFail(r) \/ RequestReturn(r)
CloseStep2 == CloseDispatch \/ CloseStep
WriteStep == \E w \in Writers : WriteLength(w) \/ WriteBody(w)
ReadSomething == \E x \in Readers : ReadStep(x)
NetStep == ConnFails \/ \E s \in Sides : StreamError(s)
ServeStep == ServerStep \/ SendEvent

LEMMA Steps ==
    ASSUME Next
    PROVE  \/ WriteStep \/ ReadSomething \/ NetStep \/ (\E s \in Sides : PlaneSend(s))
           \/ ConnectStep2 \/ CloseStep2 \/ RequestStep \/ DispatchStep \/ ServeStep
  BY Zenon DEF Next, WriteStep, ReadSomething, ReadStep, NetStep, ConnectStep2, ConnectStep,
     CloseStep2, CloseStep, RequestStep, DispatchStep, ServeStep, ServerStep

Types == WireTypes /\ WriterTypes /\ ReaderTypes /\ Whole /\ PlaneTypes /\ ClientTypes /\ ServerTypes /\ RequestTypes

LEMMA WireTypesKept ==
    ASSUME Types, [Next]_vars
    PROVE  WireTypes'
  <1> USE DEF Types
  <1>1. in \in [Sides -> Seq(Parts)] /\ conn \in {"up", "down"}
        /\ stream \in [Sides -> {"open", "error", "quiet", "closed"}]
    BY DEF WireTypes
  <1>2. CASE WriteStep
    <2>1. PICK w \in Writers : WriteLength(w) \/ WriteBody(w)
      BY <1>2 DEF WriteStep
    <2>2. PICK o \in Sides : o = Other(WriterSide(w))
      BY WriterSides
    <2>3. wr[w].pkt \in Good
      BY <2>1 DEF Whole, WriteLength, WriteBody
    <2>4. <<"len", wr[w].pkt>> \in Parts /\ <<"body", wr[w].pkt>> \in Parts
      BY <2>3, PartTypes
    <2>5. \/ in' = in
          \/ \E part \in Parts : in' = [in EXCEPT ![o] = Append(@, part)]
      BY <2>1, <2>2, <2>4 DEF WriteLength, WriteBody
    <2>6. in' \in [Sides -> Seq(Parts)]
      <3>1. \A part \in Parts : Append(in[o], part) \in Seq(Parts)
        BY <1>1
      <3> QED
        BY <1>1, <2>5, <3>1
    <2>7. UNCHANGED <<conn, stream>>
      BY <2>1 DEF WriteLength, WriteBody
    <2> QED
      BY <1>1, <2>6, <2>7 DEF WireTypes
  <1>3. CASE ReadSomething
    <2>1. PICK x \in Readers : ReadStep(x)
      BY <1>3 DEF ReadSomething
    <2>2. PICK s \in Sides : s = ReaderSide(x)
      BY ReaderSides
    <2>3. conn' = conn
      BY <2>1 DEF ReadStep, ReadLength, ReadBody, ReadEnd
    <2>4. stream' = stream \/ stream' = [stream EXCEPT ![s] = "quiet"]
      BY <2>1, <2>2 DEF ReadStep, ReadLength, ReadBody, ReadEnd
    <2>5. in[s] \in Seq(Parts)
      BY <1>1
    <2>6. \/ in' = in
          \/ \E q \in Seq(Parts) : in' = [in EXCEPT ![s] = q]
      <3>1. CASE ReadEnd(x)
        BY <3>1 DEF ReadEnd
      <3>2. CASE ReadBody(x)
        <4>1. \/ in' = [in EXCEPT ![s] = Tail(in[s])] /\ in[s] # <<>>
              \/ in' = [in EXCEPT ![s] = Tail(Tail(in[s]))] /\ Len(in[s]) > 1
          BY <2>2, <3>2 DEF ReadBody
        <4>2. in[s] # <<>> => Tail(in[s]) \in Seq(Parts)
          BY <2>5
        <4>3. ASSUME Len(in[s]) > 1 PROVE Tail(Tail(in[s])) \in Seq(Parts)
          <5>1. PICK q : q = Tail(in[s])
            OBVIOUS
          <5>2. q \in Seq(Parts) /\ Len(q) > 0
            BY <2>5, <4>3, <5>1
          <5>3. Tail(q) \in Seq(Parts)
            BY <5>2
          <5> QED
            BY <5>1, <5>3
        <4> QED
          BY <4>1, <4>2, <4>3
      <3>3. CASE ReadLength(x)
        <4>1. in[s] # <<>>
          BY <2>2, <3>3 DEF ReadLength
        <4>2. <<"rest", Head(in[s])[2]>> \in Parts
          <5>1. Head(in[s]) \in Parts
            BY <2>5, <4>1
          <5> QED
            BY <5>1, PartTypes
        <4>3. PICK part \in Parts : part = <<"rest", Head(in[s])[2]>>
          BY <4>2
        <4>4. in' = [in EXCEPT ![s] = Tail(@)] \/ in' = [in EXCEPT ![s][1] = part]
          BY <2>2, <3>3, <4>3 DEF ReadLength
        <4>5. [in[s] EXCEPT ![1] = part] \in Seq(Parts) /\ Tail(in[s]) \in Seq(Parts)
          BY <2>5, <4>1, ExceptSeq
        <4>6. [in EXCEPT ![s][1] = part] = [in EXCEPT ![s] = [in[s] EXCEPT ![1] = part]]
          BY <1>1
        <4> QED
          BY <4>4, <4>5, <4>6
      <3> QED
        BY <2>1, <3>1, <3>2, <3>3 DEF ReadStep
    <2>7. in' \in [Sides -> Seq(Parts)]
      BY <1>1, <2>6
    <2> QED
      BY <1>1, <2>3, <2>4, <2>7 DEF WireTypes
  <1>4. CASE NetStep
    BY <1>1, <1>4 DEF WireTypes, NetStep, ConnFails, StreamError
  <1>5. CASE \E s \in Sides : PlaneSend(s)
    BY <1>1, <1>5 DEF WireTypes, PlaneSend, wire
  <1>6. CASE ConnectStep2
    BY <1>1, <1>6 DEF WireTypes, ConnectStep2, ConnectStep, Connect, ConnectWait, ConnectAck,
       ConnectFail, wire
  <1>7. CASE CloseStep2
    BY <1>1, <1>7 DEF WireTypes, CloseStep2, CloseStep, CloseDispatch, ClosePlane, CloseMux, MuxClose, wire
  <1>8. CASE RequestStep
    BY <1>1, <1>8 DEF WireTypes, RequestStep, SendRequest, RequestFail, RequestReturn, wire
  <1>9. CASE DispatchStep
    BY <1>1, <1>9 DEF WireTypes, DispatchStep, DispatchNext, DispatchStopped, DispatchPending,
       FailAllPending, wire
  <1>10. CASE ServeStep
    <2>1. CASE ServerClose
      BY <1>1, <2>1 DEF WireTypes, ServerClose, MuxClose, Sides
    <2>2. CASE ~ServerClose
      <3>1. UNCHANGED wire
        BY <1>10, <2>2 DEF ServeStep, ServerStep, Accept, AcceptFail, ServeLoop, Serve, SendEvent
      <3> QED
        BY <1>1, <3>1 DEF WireTypes, wire
    <2> QED
      BY <2>1, <2>2
  <1>11. CASE UNCHANGED vars
    BY <1>1, <1>11 DEF WireTypes, vars, wire
  <1> QED
    BY <1>2, <1>3, <1>4, <1>5, <1>6, <1>7, <1>8, <1>9, <1>10, <1>11, Steps

LEMMA WriterTypesKept ==
    ASSUME Types, [Next]_vars
    PROVE  WriterTypes'
  <1>1. wr \in [Writers -> Sendings] /\ mu \in [Sides -> Writers \cup {None}]
    BY DEF Types, WriterTypes
  <1>2. ASSUME NEW w \in Writers, NEW new \in Sendings, wr' = [wr EXCEPT ![w] = new], mu' = mu
        PROVE  WriterTypes'
    BY <1>1, <1>2 DEF WriterTypes
  <1>3. ASSUME NEW w \in Writers, NEW p \in Packets, StartWrite(w, p), mu' = mu
        PROVE  WriterTypes'
    <2>1. [pc |-> "len", pkt |-> p] \in Sendings
      BY DEF Sendings
    <2> QED
      BY <1>2, <1>3, <2>1 DEF StartWrite
  <1>4. ASSUME NEW w \in Writers, wr' = [wr EXCEPT ![w] = Off], mu' = mu
        PROVE  WriterTypes'
    BY <1>2, <1>4, PacketTypes DEF Off, Sendings
  <1>5. CASE UNCHANGED <<wr, mu>>
    BY <1>1, <1>5 DEF WriterTypes
  <1>6. CASE WriteStep
    <2>1. PICK w \in Writers : WriteLength(w) \/ WriteBody(w)
      BY <1>6 DEF WriteStep
    <2>2. PICK s \in Sides : s = WriterSide(w)
      BY WriterSides
    <2>3. PICK to \in {"failed", "body", "ok"} : wr' = [wr EXCEPT ![w].pc = to]
      BY <2>1 DEF WriteLength, WriteBody
    <2>4. wr' \in [Writers -> Sendings]
      BY <1>1, <2>3 DEF Sendings
    <2>5. mu' = mu \/ mu' = [mu EXCEPT ![s] = w] \/ mu' = [mu EXCEPT ![s] = None]
      BY <2>1, <2>2 DEF WriteLength, WriteBody
    <2> QED
      BY <1>1, <2>4, <2>5 DEF WriterTypes
  <1>7. CASE ReadSomething \/ NetStep \/ (\E s \in Sides : PlaneSend(s)) \/ CloseStep2
    <2>1. UNCHANGED <<wr, mu>>
      BY <1>7 DEF ReadSomething, ReadStep, ReadLength, ReadBody, ReadEnd, NetStep, ConnFails,
         StreamError, PlaneSend, CloseStep2, CloseStep, CloseDispatch, ClosePlane, CloseMux
    <2> QED
      BY <1>5, <2>1
  <1>8. CASE ConnectStep2
    <2>1. Connect => StartWrite("connect", Hello) /\ mu' = mu
      BY DEF Connect
    <2>2. ConnectWait => wr' = [wr EXCEPT !["connect"] = Off] /\ mu' = mu
      BY DEF ConnectWait
    <2>3. ConnectAck \/ ConnectFail => UNCHANGED <<wr, mu>>
      BY DEF ConnectAck, ConnectFail
    <2> QED
      BY <1>3, <1>4, <1>5, <1>8, <2>1, <2>2, <2>3, WriterSides, PacketTypes
         DEF ConnectStep2, ConnectStep
  <1>9. CASE RequestStep
    <2>1. PICK r \in Reqs : SendRequest(r) \/ RequestFail(r) \/ RequestReturn(r)
      BY <1>9 DEF RequestStep
    <2>2. SendRequest(r) => StartWrite(r, Packet("req", r)) /\ mu' = mu
      BY DEF SendRequest
    <2>3. RequestFail(r) \/ RequestReturn(r) => wr' = [wr EXCEPT ![r] = Off] /\ mu' = mu
      BY DEF RequestFail, RequestReturn
    <2> QED
      BY <1>3, <1>4, <2>1, <2>2, <2>3, WriterSides, PacketTypes
  <1>10. CASE DispatchStep
    <2>1. UNCHANGED <<wr, mu>>
      BY <1>10 DEF DispatchStep, DispatchNext, DispatchStopped, DispatchPending, FailAllPending
    <2> QED
      BY <1>5, <2>1
  <1>11. CASE ServeStep
    <2>1. NextEvent("server") \in Packets
      <3>1. events["server"] \in Seq(Packets)
        BY DEF Types, PlaneTypes, Sides
      <3> QED
        BY <3>1, PacketTypes DEF NextEvent
    <2>2. Accept => StartWrite("serve", Ack) /\ mu' = mu
      BY DEF Accept
    <2>3. Serve => mu' = mu /\ (wr' = wr \/ StartWrite("serve", Packet("resp", NextEvent("server").req)))
      BY DEF Serve
    <2>4. SendEvent => mu' = mu /\ \E type \in Unasked : StartWrite("event", Packet(type, None))
      BY DEF SendEvent
    <2>5. ServeLoop => wr' = [wr EXCEPT !["serve"] = Off] /\ mu' = mu
      BY DEF ServeLoop
    <2>6. AcceptFail \/ ServerClose => UNCHANGED <<wr, mu>>
      BY DEF AcceptFail, ServerClose, MuxClose
    <2> QED
      BY <1>3, <1>4, <1>5, <1>11, <2>1, <2>2, <2>3, <2>4, <2>5, <2>6, WriterSides, PacketTypes
         DEF ServeStep, ServerStep
  <1>12. CASE UNCHANGED vars
    BY <1>5, <1>12 DEF vars
  <1> QED
    BY <1>6, <1>7, <1>8, <1>9, <1>10, <1>11, <1>12, Steps

LEMMA ReaderTypesKept ==
    ASSUME Types, [Next]_vars
    PROVE  ReaderTypes'
  <1>1. read \in [Readers -> Readings]
    BY DEF Types, ReaderTypes
  <1>2. ASSUME NEW x \in Readers, NEW to \in {"off", "len", "body", "got", "done"},
               NEW p \in Packets, Read(x, to, p)
        PROVE  ReaderTypes'
    <2>1. [pc |-> to, pkt |-> p] \in Readings
      BY DEF Readings
    <2> QED
      BY <1>1, <1>2, <2>1 DEF Read, ReaderTypes
  <1>3. CASE read' = read
    BY <1>1, <1>3 DEF ReaderTypes
  <1>4. ASSUME NEW s \in Sides, EnsureStarted(s)
        PROVE  ReaderTypes'
    <2>1. read' = read \/ read' = [read EXCEPT ![Plane(s)].pc = "len"]
      BY <1>4 DEF EnsureStarted
    <2>2. [read EXCEPT ![Plane(s)].pc = "len"] \in [Readers -> Readings]
      BY <1>1, ReaderSides DEF Readings
    <2> QED
      BY <1>1, <2>1, <2>2 DEF ReaderTypes
  <1>5. CASE ReadSomething
    <2>1. PICK x \in Readers : ReadStep(x)
      BY <1>5 DEF ReadSomething
    <2>2. PICK s \in Sides : s = ReaderSide(x)
      BY ReaderSides
    <2>3. in[s] # <<>> => Head(in[s])[2] \in Packets
      <3>1. in[s] \in Seq(Parts)
        BY DEF Types, WireTypes
      <3>2. in[s] # <<>> => Head(in[s]) \in Parts
        BY <3>1
      <3> QED
        BY <3>2, PartTypes
    <2>4. read[x].pkt \in Packets
      BY <1>1 DEF Readings
    <2>5. ReadLength(x) => Read(x, "got", Garbled) \/ (in[s] # <<>> /\ Read(x, "body", Head(in[s])[2]))
      BY <2>2 DEF ReadLength
    <2>6. ReadBody(x) => Read(x, "got", Garbled) \/ Read(x, "got", read[x].pkt)
      BY DEF ReadBody
    <2>7. ReadEnd(x) => Read(x, "got", Failed)
      BY DEF ReadEnd
    <2> QED
      BY <1>2, <2>1, <2>3, <2>4, <2>5, <2>6, <2>7, PacketTypes DEF ReadStep
  <1>6. CASE \E s \in Sides : PlaneSend(s)
    <2>1. PICK s \in Sides : PlaneSend(s)
      BY <1>6
    <2>2. PICK to \in {"len", "done"} : Read(Plane(s), to, Failed)
      BY <2>1 DEF PlaneSend
    <2> QED
      BY <1>2, <2>2, ReaderSides, PacketTypes
  <1>7. CASE ConnectStep2
    <2>1. Connect \/ ConnectFail => read' = read
      BY DEF Connect, ConnectFail
    <2>2. ConnectWait => read' = read \/ Read(Handshake("client", connects), "len", Failed)
      BY DEF ConnectWait
    <2>3. ConnectWait => Handshake("client", connects) \in Readers
      <3>1. ConnectWait => connects \in 1..MaxConnects
        BY BaseServiceAssumption DEF Types, ClientTypes, ConnectWait
      <3> QED
        BY <3>1, ReaderSides
    <2>4. ConnectAck => EnsureStarted("client")
      BY DEF ConnectAck
    <2> QED
      BY <1>2, <1>3, <1>4, <1>7, <2>1, <2>2, <2>3, <2>4, PacketTypes
         DEF ConnectStep2, ConnectStep, Sides
  <1>8. CASE ServeStep
    <2>1. ServeLoop => read' = read \/ EnsureStarted("server")
      BY DEF ServeLoop
    <2>2. Accept \/ AcceptFail \/ Serve \/ SendEvent \/ ServerClose => read' = read
      BY DEF Accept, AcceptFail, Serve, SendEvent, ServerClose, MuxClose
    <2> QED
      BY <1>3, <1>4, <1>8, <2>1, <2>2 DEF ServeStep, ServerStep, Sides
  <1>9. CASE WriteStep \/ NetStep \/ CloseStep2 \/ RequestStep \/ DispatchStep
    <2>1. WriteStep => read' = read
      BY DEF WriteStep, WriteLength, WriteBody
    <2>2. NetStep \/ CloseStep2 => read' = read
      BY DEF NetStep, ConnFails, StreamError, CloseStep2, CloseStep, CloseDispatch, ClosePlane, CloseMux, MuxClose
    <2>3. RequestStep => read' = read
      BY DEF RequestStep, SendRequest, RequestFail, RequestReturn
    <2>4. DispatchStep => read' = read
      BY DEF DispatchStep, DispatchNext, DispatchStopped, DispatchPending, FailAllPending
    <2> QED
      BY <1>3, <1>9, <2>1, <2>2, <2>3, <2>4
  <1>10. CASE UNCHANGED vars
    BY <1>3, <1>10 DEF vars
  <1> QED
    BY <1>5, <1>6, <1>7, <1>8, <1>9, <1>10, Steps

\* What a step does to the writers, apart from WritePacket itself.
Starts(w, p) == StartWrite(w, p) /\ mu' = mu /\ in' = in
Rests(w) == wr' = [wr EXCEPT ![w] = Off] /\ wr[w].pc \in {"ok", "failed"} /\ mu' = mu /\ in' = in

LEMMA WriterEffects ==
    ASSUME Types, [Next]_vars
    PROVE  \/ WriteStep
           \/ ReadSomething
           \/ UNCHANGED <<wr, mu, in>>
           \/ Connect /\ Starts("connect", Hello)
           \/ ConnectWait /\ Rests("connect")
           \/ Accept /\ Starts("serve", Ack)
           \/ Serve /\ \E r \in Reqs \cup {None} : Starts("serve", Packet("resp", r))
           \/ ServeLoop /\ Rests("serve")
           \/ SendEvent /\ \E type \in Unasked : Starts("event", Packet(type, None))
           \/ \E r \in Reqs : SendRequest(r) /\ Starts(r, Packet("req", r))
           \/ \E r \in Reqs : (RequestFail(r) \/ RequestReturn(r)) /\ Rests(r)
  <1>1. CASE NetStep \/ (\E s \in Sides : PlaneSend(s)) \/ CloseStep2 \/ DispatchStep
    <2>1. NetStep \/ (\E s \in Sides : PlaneSend(s)) => UNCHANGED <<wr, mu, in>>
      BY DEF NetStep, ConnFails, StreamError, PlaneSend, wire
    <2>2. CloseStep2 => UNCHANGED <<wr, mu, in>>
      BY DEF CloseStep2, CloseStep, CloseDispatch, ClosePlane, CloseMux, MuxClose, wire
    <2>3. DispatchStep => UNCHANGED <<wr, mu, in>>
      BY DEF DispatchStep, DispatchNext, DispatchStopped, DispatchPending, FailAllPending, wire
    <2> QED
      BY <1>1, <2>1, <2>2, <2>3
  <1>2. CASE ConnectStep2
    <2>1. Connect => Starts("connect", Hello)
      BY DEF Connect, Starts, wire
    <2>2. ConnectWait => Rests("connect")
      BY DEF ConnectWait, Rests, wire
    <2>3. ConnectAck \/ ConnectFail => UNCHANGED <<wr, mu, in>>
      BY DEF ConnectAck, ConnectFail, wire
    <2> QED
      BY <1>2, <2>1, <2>2, <2>3 DEF ConnectStep2, ConnectStep
  <1>3. CASE RequestStep
    <2>1. PICK r \in Reqs : SendRequest(r) \/ RequestFail(r) \/ RequestReturn(r)
      BY <1>3 DEF RequestStep
    <2>2. SendRequest(r) => Starts(r, Packet("req", r))
      BY DEF SendRequest, Starts, wire
    <2>3. RequestFail(r) => Rests(r)
      BY DEF RequestFail, Rests, Waiting, wire
    <2>4. RequestReturn(r) => Rests(r)
      BY DEF RequestReturn, Rests, Waiting, wire
    <2> QED
      BY <2>1, <2>2, <2>3, <2>4
  <1>4. CASE ServeStep
    <2>1. Accept => Starts("serve", Ack)
      BY DEF Accept, Starts, wire
    <2>2. Serve => \/ UNCHANGED <<wr, mu, in>>
                   \/ Starts("serve", Packet("resp", NextEvent("server").req))
      BY DEF Serve, Starts, wire
    <2>3. NextEvent("server").req \in Reqs \cup {None}
      <3>1. events["server"] \in Seq(Packets)
        BY DEF Types, PlaneTypes, Sides
      <3>2. NextEvent("server") \in Packets
        BY <3>1, PacketTypes DEF NextEvent
      <3> QED
        BY <3>2 DEF Packets
    <2>4. ServeLoop => Rests("serve")
      BY DEF ServeLoop, Rests, wire
    <2>5. SendEvent => \E type \in Unasked : Starts("event", Packet(type, None))
      BY DEF SendEvent, Starts, wire
    <2>6. AcceptFail \/ ServerClose => UNCHANGED <<wr, mu, in>>
      BY DEF AcceptFail, ServerClose, MuxClose, wire
    <2> QED
      BY <1>4, <2>1, <2>2, <2>3, <2>4, <2>5, <2>6 DEF ServeStep, ServerStep
  <1>5. CASE UNCHANGED vars
    BY <1>5 DEF vars, wire
  <1> QED
    BY <1>1, <1>2, <1>3, <1>4, <1>5, Steps

\* What a step does to the readers.
LEMMA ReaderEffects ==
    ASSUME Types, [Next]_vars
    PROVE  \/ ReadSomething
           \/ read' = read
           \/ \E s \in Sides, to \in {"len", "done"} : PlaneSend(s) /\ Read(Plane(s), to, Failed)
           \/ ConnectWait /\ Read(Handshake("client", connects), "len", Failed)
           \/ ConnectAck /\ EnsureStarted("client")
           \/ ServeLoop /\ EnsureStarted("server")
  <1>1. CASE \E s \in Sides : PlaneSend(s)
    <2>1. PICK s \in Sides : PlaneSend(s)
      BY <1>1
    <2>2. \E to \in {"len", "done"} : Read(Plane(s), to, Failed)
      BY <2>1 DEF PlaneSend
    <2> QED
      BY <2>1, <2>2
  <1>2. CASE ConnectStep2
    BY <1>2 DEF ConnectStep2, ConnectStep, Connect, ConnectFail, ConnectWait, ConnectAck
  <1>3. CASE ServeStep
    BY <1>3 DEF ServeStep, ServerStep, Accept, AcceptFail, ServeLoop, Serve, SendEvent, ServerClose, MuxClose
  <1>4. CASE WriteStep \/ NetStep \/ CloseStep2 \/ RequestStep \/ DispatchStep
    <2>1. WriteStep => read' = read
      BY DEF WriteStep, WriteLength, WriteBody
    <2>2. NetStep \/ CloseStep2 => read' = read
      BY DEF NetStep, ConnFails, StreamError, CloseStep2, CloseStep, CloseDispatch, ClosePlane, CloseMux, MuxClose
    <2>3. RequestStep => read' = read
      BY DEF RequestStep, SendRequest, RequestFail, RequestReturn
    <2>4. DispatchStep => read' = read
      BY DEF DispatchStep, DispatchNext, DispatchStopped, DispatchPending, FailAllPending
    <2> QED
      BY <1>4, <2>1, <2>2, <2>3, <2>4
  <1>5. CASE UNCHANGED vars
    BY <1>5 DEF vars
  <1> QED
    BY <1>1, <1>2, <1>3, <1>4, <1>5, Steps

LEMMA WholeKept ==
    ASSUME Types, [Next]_vars
    PROVE  Whole'
  <1>1. /\ wr \in [Writers -> Sendings] /\ read \in [Readers -> Readings]
        /\ \A w \in Writers : wr[w].pc = "off" \/ wr[w].pkt \in Good
        /\ \A x \in Readers : read[x].pc = "body" => read[x].pkt \in Good
    BY DEF Types, WriterTypes, ReaderTypes, Whole
  <1>2. \A w \in Writers : wr'[w].pc = "off" \/ wr'[w].pkt \in Good
    <2>1. ASSUME NEW w \in Writers, NEW p \in Good, Starts(w, p)
          PROVE  \A v \in Writers : wr'[v].pc = "off" \/ wr'[v].pkt \in Good
      BY <1>1, <2>1 DEF Starts, StartWrite
    <2>2. ASSUME NEW w \in Writers, Rests(w)
          PROVE  \A v \in Writers : wr'[v].pc = "off" \/ wr'[v].pkt \in Good
      BY <1>1, <2>2 DEF Rests, Off
    <2>3. CASE WriteStep
      <3>1. PICK w \in Writers : WriteLength(w) \/ WriteBody(w)
        BY <2>3 DEF WriteStep
      <3>2. wr[w].pc # "off" /\ \E to \in {"failed", "body", "ok"} : wr' = [wr EXCEPT ![w].pc = to]
        BY <3>1 DEF WriteLength, WriteBody
      <3> QED
        BY <1>1, <3>2 DEF Sendings
    <2>4. ReadSomething => wr' = wr
      BY DEF ReadSomething, ReadStep, ReadLength, ReadBody, ReadEnd
    <2>5. Packet("resp", None) \in Good /\ \A r \in Reqs : Packet("resp", r) \in Good
      BY DEF Packet, Packets, Good, Failed, Garbled
    <2> QED
      BY <1>1, <2>1, <2>2, <2>3, <2>4, <2>5, WriterEffects, WriterSides, PacketTypes
  <1>3. \A x \in Readers : read'[x].pc = "body" => read'[x].pkt \in Good
    <2>1. ASSUME NEW x \in Readers, NEW to, NEW p, Read(x, to, p), to = "body" => p \in Good
          PROVE  \A y \in Readers : read'[y].pc = "body" => read'[y].pkt \in Good
      BY <1>1, <2>1 DEF Read
    <2>2. ASSUME NEW s \in Sides, EnsureStarted(s)
          PROVE  \A y \in Readers : read'[y].pc = "body" => read'[y].pkt \in Good
      BY <1>1, <2>2 DEF EnsureStarted, Readings
    <2>3. CASE ReadSomething
      <3>1. PICK x \in Readers : ReadStep(x)
        BY <2>3 DEF ReadSomething
      <3>2. PICK s \in Sides : s = ReaderSide(x)
        BY ReaderSides
      <3>3. in[s] # <<>> => Head(in[s])[2] \in Good
        <4>1. in[s] \in Seq(Parts)
          BY DEF Types, WireTypes
        <4>2. in[s] # <<>> => Head(in[s]) \in Parts
          BY <4>1
        <4> QED
          BY <4>2, PartTypes
      <3>4. ReadLength(x) => Read(x, "got", Garbled) \/ (in[s] # <<>> /\ Read(x, "body", Head(in[s])[2]))
        BY <3>2 DEF ReadLength
      <3>5. ReadBody(x) => Read(x, "got", Garbled) \/ Read(x, "got", read[x].pkt)
        BY DEF ReadBody
      <3>6. ReadEnd(x) => Read(x, "got", Failed)
        BY DEF ReadEnd
      <3> QED
        BY <2>1, <3>1, <3>3, <3>4, <3>5, <3>6 DEF ReadStep
    <2>4. ConnectWait => Handshake("client", connects) \in Readers
      <3>1. ConnectWait => connects \in 1..MaxConnects
        BY BaseServiceAssumption DEF Types, ClientTypes, ConnectWait
      <3> QED
        BY <3>1, ReaderSides
    <2>5. "client" \in Sides /\ "server" \in Sides
      BY DEF Sides
    <2>6. ASSUME NEW s \in Sides, NEW to \in {"len", "done"}, Read(Plane(s), to, Failed)
          PROVE  \A y \in Readers : read'[y].pc = "body" => read'[y].pkt \in Good
      BY <2>1, <2>6, ReaderSides
    <2> QED
      BY <1>1, <2>1, <2>2, <2>3, <2>4, <2>5, <2>6, ReaderEffects
  <1> QED
    BY <1>2, <1>3 DEF Whole

\* The packet ControlPlane.Next returns, and what is left of the channel.
LEMMA NextType ==
    ASSUME Types, NEW s \in Sides
    PROVE  /\ NextEvent(s) \in Packets
           /\ TakeEvent(s) => \E q \in Seq(Packets) : /\ events' = [events EXCEPT ![s] = q]
                                                      /\ Len(q) <= EventCap
  <1>1. /\ events \in [Sides -> Seq(Packets)] /\ events[s] \in Seq(Packets)
        /\ Len(events[s]) <= EventCap
    BY DEF Types, PlaneTypes
  <1>2. NextEvent(s) \in Packets
    BY <1>1, PacketTypes DEF NextEvent
  <1>3. ASSUME TakeEvent(s)
        PROVE  \E q \in Seq(Packets) : events' = [events EXCEPT ![s] = q] /\ Len(q) <= EventCap
    <2>1. CASE events[s] = <<>>
      BY <1>1, <1>3, <2>1 DEF TakeEvent
    <2>2. CASE events[s] # <<>>
      <3>1. Tail(events[s]) \in Seq(Packets) /\ Len(Tail(events[s])) <= EventCap
        BY <1>1, <2>2, BaseServiceAssumption
      <3> QED
        BY <1>3, <2>2, <3>1 DEF TakeEvent
    <2> QED
      BY <2>1, <2>2
  <1> QED
    BY <1>2, <1>3

LEMMA PlaneTypesKept ==
    ASSUME Types, [Next]_vars
    PROVE  PlaneTypes'
  <1>1. /\ events \in [Sides -> Seq(Packets)] /\ \A s \in Sides : Len(events[s]) <= EventCap
        /\ stopped \in [Sides -> BOOLEAN] /\ due \in [Sides -> Seq(Packets)]
    BY DEF Types, PlaneTypes
  <1> DEFINE DueKept == due' \in [Sides -> Seq(Packets)]
             EventsKept == events' \in [Sides -> Seq(Packets)]
                           /\ \A s \in Sides : Len(events'[s]) <= EventCap
             StoppedKept == stopped' \in [Sides -> BOOLEAN]
  <1>2. due' = due => DueKept
    BY <1>1
  <1>3. ASSUME NEW s \in Sides, Deal(s) PROVE DueKept
    <2>1. due[s] \in Seq(Packets)
      BY <1>1
    <2>2. due[s] # <<>> => Tail(due[s]) \in Seq(Packets)
      BY <2>1
    <2>3. PICK q \in Seq(Packets) : due' = [due EXCEPT ![s] = q]
      BY <1>3, <2>1, <2>2 DEF Deal
    <2> QED
      BY <1>1, <2>3
  <1>4. events' = events => EventsKept
    BY <1>1
  <1>5. ASSUME NEW s \in Sides, NEW q \in Seq(Packets), events' = [events EXCEPT ![s] = q], Len(q) <= EventCap
        PROVE  EventsKept
    BY <1>1, <1>5
  <1>6. ASSUME NEW s \in Sides, TakeEvent(s) PROVE EventsKept
    BY <1>5, <1>6, NextType
  <1>7. stopped' = stopped => StoppedKept
    BY <1>1
  <1>8. ASSUME NEW s \in Sides, stopped' = [stopped EXCEPT ![s] = Started(s)] PROVE StoppedKept
    <2>1. Started(s) \in BOOLEAN
      BY Zenon DEF Started
    <2> QED
      BY <1>1, <1>8, <2>1
  <1> HIDE DEF DueKept, EventsKept, StoppedKept
  <1>9. SUFFICES DueKept /\ EventsKept /\ StoppedKept
    BY <1>9 DEF DueKept, EventsKept, StoppedKept, PlaneTypes
  <1>10. CASE WriteStep
    <2>1. PICK w \in Writers : WriteLength(w) \/ WriteBody(w)
      BY <1>10 DEF WriteStep
    <2>2. UNCHANGED <<events, stopped>>
      BY <2>1 DEF WriteLength, WriteBody, planes
    <2>3. PICK o \in Sides : o = Other(WriterSide(w))
      BY WriterSides
    <2>4. due' = due \/ due' = [due EXCEPT ![o] = Append(@, wr[w].pkt)]
      BY <2>1, <2>3 DEF WriteLength, WriteBody
    <2>5. Append(due[o], wr[w].pkt) \in Seq(Packets)
      BY <1>1 DEF Types, WriterTypes, Sendings
    <2>6. DueKept
      BY <1>1, <2>4, <2>5 DEF DueKept
    <2> QED
      BY <1>4, <1>7, <2>2, <2>6
  <1>11. CASE ReadSomething \/ NetStep \/ RequestStep
    <2>1. ReadSomething => UNCHANGED <<events, stopped, due>>
      BY DEF ReadSomething, ReadStep, ReadLength, ReadBody, ReadEnd, planes
    <2>2. NetStep => UNCHANGED <<events, stopped, due>>
      BY DEF NetStep, ConnFails, StreamError, planes
    <2>3. RequestStep => UNCHANGED <<events, stopped, due>>
      BY DEF RequestStep, SendRequest, RequestFail, RequestReturn, planes
    <2> QED
      BY <1>2, <1>4, <1>7, <1>11, <2>1, <2>2, <2>3
  <1>12. CASE \E s \in Sides : PlaneSend(s)
    <2>1. PICK s \in Sides : PlaneSend(s)
      BY <1>12
    <2>2. UNCHANGED <<stopped, due>>
      BY <2>1 DEF PlaneSend
    <2>3. CASE events' = events
      BY <1>2, <1>4, <1>7, <2>2, <2>3
    <2>4. CASE /\ HasRoom(s)
               /\ events' = [events EXCEPT ![s] = Append(@, read[Plane(s)].pkt)]
      <3>1. read[Plane(s)].pkt \in Packets
        BY ReaderSides DEF Types, ReaderTypes, Readings
      <3>2. events[s] \in Seq(Packets) /\ Len(events[s]) < EventCap
        BY <1>1, <2>4 DEF HasRoom
      <3>3. PICK q : q = Append(events[s], read[Plane(s)].pkt)
        OBVIOUS
      <3>4. q \in Seq(Packets) /\ Len(q) <= EventCap
        BY <3>1, <3>2, <3>3, BaseServiceAssumption
      <3>5. events' = [events EXCEPT ![s] = q]
        BY <2>4, <3>3
      <3> QED
        BY <1>2, <1>5, <1>7, <2>2, <3>4, <3>5
    <2> QED
      BY <2>1, <2>3, <2>4 DEF PlaneSend
  <1>13. CASE ConnectStep2
    <2>1. UNCHANGED <<events, stopped>>
      BY <1>13 DEF ConnectStep2, ConnectStep, Connect, ConnectWait, ConnectAck, ConnectFail, planes
    <2>2. due' = due \/ Deal("client")
      BY <1>13 DEF ConnectStep2, ConnectStep, Connect, ConnectWait, ConnectAck, ConnectFail
    <2> QED
      BY <1>2, <1>3, <1>4, <1>7, <2>1, <2>2 DEF Sides
  <1>14. CASE CloseStep2
    <2>1. UNCHANGED <<events, due>>
      BY <1>14 DEF CloseStep2, CloseStep, CloseDispatch, ClosePlane, CloseMux, MuxClose, planes
    <2>2. stopped' = stopped \/ stopped' = [stopped EXCEPT !["client"] = Started("client")]
      BY <1>14 DEF CloseStep2, CloseStep, CloseDispatch, ClosePlane, CloseMux, MuxClose, planes
    <2> QED
      BY <1>2, <1>4, <1>7, <1>8, <2>1, <2>2 DEF Sides
  <1>15. CASE DispatchStep
    <2>1. DispatchNext => stopped' = stopped /\ due' = due /\ TakeEvent("client")
      BY DEF DispatchNext
    <2>2. DispatchStopped \/ FailAllPending => UNCHANGED <<events, stopped, due>>
      BY DEF DispatchStopped, FailAllPending, planes
    <2>3. DispatchPending => UNCHANGED <<events, stopped>> /\ Deal("client")
      BY DEF DispatchPending, planes
    <2> QED
      BY <1>2, <1>3, <1>4, <1>6, <1>7, <1>15, <2>1, <2>2, <2>3 DEF DispatchStep, Sides
  <1>16. CASE ServeStep
    <2>1. Accept => UNCHANGED <<events, stopped>> /\ Deal("server")
      BY DEF Accept, planes
    <2>2. AcceptFail \/ ServeLoop \/ SendEvent => UNCHANGED <<events, stopped, due>>
      BY DEF AcceptFail, ServeLoop, SendEvent, planes
    <2>3. Serve => stopped' = stopped /\ TakeEvent("server") /\ (due' = due \/ Deal("server"))
      BY DEF Serve
    <2>4. ServerClose => /\ UNCHANGED <<events, due>>
                         /\ stopped' = [stopped EXCEPT !["server"] = Started("server")]
      BY DEF ServerClose, MuxClose
    <2> QED
      BY <1>2, <1>3, <1>4, <1>6, <1>7, <1>8, <1>16, <2>1, <2>2, <2>3, <2>4
         DEF ServeStep, ServerStep, Sides
  <1>17. CASE UNCHANGED vars
    BY <1>2, <1>4, <1>7, <1>17 DEF vars, planes
  <1> QED
    BY <1>10, <1>11, <1>12, <1>13, <1>14, <1>15, <1>16, <1>17, Steps

LEMMA ClientTypesKept ==
    ASSUME Types, [Next]_vars
    PROVE  ClientTypes' /\ ServerTypes'
  <1> USE DEF Types, ClientTypes
  <1>1. ClientTypes /\ srv \in {"accept", "ack", "next", "answer", "closing", "closed"}
    BY DEF ServerTypes
  <1>2. WriteStep \/ ReadSomething \/ NetStep \/ (\E s \in Sides : PlaneSend(s)) =>
           UNCHANGED <<client, srv>>
    BY DEF WriteStep, WriteLength, WriteBody, ReadSomething, ReadStep, ReadLength, ReadBody, ReadEnd,
       NetStep, ConnFails, StreamError, PlaneSend, server
  <1>3. RequestStep \/ UNCHANGED vars => UNCHANGED <<client, srv>>
    BY DEF RequestStep, SendRequest, RequestFail, RequestReturn, vars, server
  <1>4. CASE UNCHANGED <<client, srv>>
    BY <1>1, <1>4, Zenon DEF client, ServerTypes
  <1>5. CASE ConnectStep2
    <2>1. srv' = srv /\ UNCHANGED <<closing, packet, dispStop>>
      BY <1>5 DEF ConnectStep2, ConnectStep, Connect, ConnectWait, ConnectAck, ConnectFail, server
    <2>2. done' \in BOOLEAN
      <3>1. done' = done \/ done' = TRUE
        BY <1>5 DEF ConnectStep2, ConnectStep, Connect, ConnectWait, ConnectAck, ConnectFail
      <3> QED
        BY <1>1, <3>1, Zenon
    <2>3. /\ cl' \in {"idle", "hello", "wait", "connected", "failed"} /\ connects' \in 0..MaxConnects
          /\ cl' \in {"hello", "wait", "connected"} => connects' > 0
          /\ disp' \in {"off", "next", "match", "fail", "done"}
      BY <1>1, <1>5, BaseServiceAssumption
         DEF ConnectStep2, ConnectStep, Connect, ConnectWait, ConnectAck, ConnectFail
    <2> QED
      BY <1>1, <2>1, <2>2, <2>3 DEF ServerTypes
  <1>6. CASE CloseStep2
    <2>1. UNCHANGED <<srv, cl, connects, done, disp, packet>>
      BY <1>6 DEF CloseStep2, CloseStep, CloseDispatch, ClosePlane, CloseMux, MuxClose, server
    <2>2. closing' \in {"no", "plane", "mux", "closed"}
      BY <1>6 DEF CloseStep2, CloseStep, CloseDispatch, ClosePlane, CloseMux, MuxClose
    <2>3. dispStop' \in BOOLEAN
      <3>1. dispStop' = dispStop \/ dispStop' = (disp # "off")
        BY <1>6, Zenon DEF CloseStep2, CloseStep, CloseDispatch, ClosePlane, CloseMux, MuxClose
      <3> QED
        BY <1>1, <3>1, Zenon
    <2> QED
      BY <1>1, <2>1, <2>2, <2>3, Zenon DEF ServerTypes
  <1>7. CASE DispatchStep
    <2>1. UNCHANGED <<srv, cl, connects, done, closing, dispStop>>
      BY <1>7 DEF DispatchStep, DispatchNext, DispatchStopped, DispatchPending, FailAllPending, server
    <2>2. disp' \in {"off", "next", "match", "fail", "done"}
      BY <1>7 DEF DispatchStep, DispatchNext, DispatchStopped, DispatchPending, FailAllPending
    <2>3. packet' \in Packets
      <3>1. packet' \in {packet, Failed, NextEvent("client")}
        BY <1>7 DEF DispatchStep, DispatchNext, DispatchStopped, DispatchPending, FailAllPending
      <3> QED
        BY <1>1, <3>1, NextType, PacketTypes DEF Sides
    <2> QED
      BY <1>1, <2>1, <2>2, <2>3, Zenon DEF ServerTypes
  <1>8. CASE ServeStep
    <2>1. UNCHANGED client
      BY <1>8 DEF ServeStep, ServerStep, Accept, AcceptFail, ServeLoop, Serve, SendEvent, ServerClose, MuxClose
    <2>2. srv' \in {"accept", "ack", "next", "answer", "closing", "closed"}
      BY <1>1, <1>8 DEF ServeStep, ServerStep, Accept, AcceptFail, ServeLoop, Serve, SendEvent, ServerClose, MuxClose
    <2> QED
      BY <1>1, <2>1, <2>2, Zenon DEF client, ServerTypes
  <1> QED
    BY <1>2, <1>3, <1>4, <1>5, <1>6, <1>7, <1>8, Steps

-----------------------------------------------------------------------------
(* Answers.                                                                *)

\* Responses go to requests that have none.
LEMMA DeliverEffect ==
    ASSUME RequestTypes, ~dropped, NEW rs \in SUBSET Reqs, NEW p \in Packets, Deliver(rs, p),
           \A r \in rs : resp[r] = None
    PROVE  /\ ~dropped' /\ resp' \in [Reqs -> Packets \cup {None}]
           /\ \A r \in Reqs : resp'[r] = IF r \in rs THEN p ELSE resp[r]
  <1>1. resp \in [Reqs -> Packets \cup {None}]
    BY DEF RequestTypes
  <1>2. ~dropped'
    <2>1. dropped' = (dropped \/ \E r \in rs : resp[r] # None)
      BY DEF Deliver
    <2> QED
      BY <2>1, Zenon
  <1>3. resp' = [r \in Reqs |-> IF r \in rs /\ resp[r] = None THEN p ELSE resp[r]]
    BY DEF Deliver
  <1> QED
    BY <1>1, <1>2, <1>3

LEMMA AnsweringKept ==
    ASSUME Types, Answering, [Next]_vars
    PROVE  RequestTypes' /\ Answering'
  <1> USE DEF Types
  <1>1. /\ pending \subseteq Reqs /\ resp \in [Reqs -> Packets \cup {None}]
        /\ req \in [Reqs -> {"idle", "open", "failed", "answered"}]
    BY DEF RequestTypes
  <1>2. /\ \A r \in pending : req[r] = "open" /\ resp[r] = None
        /\ \A r \in Reqs : req[r] = "idle" => resp[r] = None
        /\ \A r \in Reqs : resp[r] # None => resp[r] = Failed \/ Match(r, resp[r])
        /\ \A r \in Reqs : req[r] = "answered" => resp[r] # None /\ resp[r] # Failed
        /\ ~dropped
    BY DEF Answering
  \* What is delivered to some pending requests, while others may go too.
  <1>3. ASSUME NEW rs \in SUBSET pending, NEW p \in Packets, Deliver(rs, p),
               pending' \in SUBSET (pending \ rs), req' = req,
               p = Failed \/ \A r \in rs : Match(r, p)
        PROVE  RequestTypes' /\ Answering'
    <2>1. /\ ~dropped' /\ resp' \in [Reqs -> Packets \cup {None}]
          /\ \A r \in Reqs : resp'[r] = IF r \in rs THEN p ELSE resp[r]
      BY <1>1, <1>2, <1>3, DeliverEffect
    <2>2. RequestTypes'
      BY <1>1, <1>3, <2>1 DEF RequestTypes
    <2>3. /\ \A r \in pending' : req'[r] = "open" /\ resp'[r] = None
          /\ \A r \in Reqs : req'[r] = "idle" => resp'[r] = None
      BY <1>1, <1>2, <1>3, <2>1
    <2>4. \A r \in Reqs : resp'[r] # None => resp'[r] = Failed \/ Match(r, resp'[r])
      BY <1>2, <1>3, <2>1
    <2>5. \A r \in Reqs : req'[r] = "answered" => resp'[r] # None /\ resp'[r] # Failed
      BY <1>1, <1>2, <1>3, <2>1
    <2> QED
      BY <2>1, <2>2, <2>3, <2>4, <2>5 DEF Answering, Match
  <1>4. CASE UNCHANGED reqs
    <2>1. RequestTypes'
      BY <1>1, <1>4 DEF RequestTypes, reqs
    <2>2. Answering'
      BY <1>2, <1>4 DEF Answering, Match, reqs
    <2> QED
      BY <2>1, <2>2
  <1>5. CASE DispatchStep
    <2>1. DispatchNext \/ DispatchStopped => UNCHANGED reqs
      BY DEF DispatchNext, DispatchStopped
    <2>2. CASE DispatchPending
      <3>1. packet \in Packets /\ req' = req
        BY <2>2 DEF ClientTypes, DispatchPending
      <3>2. CASE \E r \in pending : Match(r, packet) \/ MatchFails(packet)
        <4>1. PICK r \in pending :
                 /\ \/ Match(r, packet) /\ Deliver({r}, packet)
                    \/ MatchFails(packet) /\ Deliver({r}, Failed)
                 /\ pending' = Removed({r})
          BY <2>2, <3>2, Zenon DEF DispatchPending
        <4> QED
          BY <1>3, <3>1, <4>1, PacketTypes DEF Removed
      <3>3. CASE ~\E r \in pending : Match(r, packet) \/ MatchFails(packet)
        <4>1. UNCHANGED reqs
          BY <2>2, <3>1, <3>3 DEF DispatchPending, reqs
        <4> QED
          BY <1>4, <4>1
      <3> QED
        BY <3>2, <3>3
    <2>3. CASE FailAllPending
      <3>1. Deliver(pending, Failed) /\ pending' = {} /\ req' = req
        BY <2>3 DEF FailAllPending, AllPending
      <3> QED
        BY <1>3, <3>1, PacketTypes
    <2> QED
      BY <1>4, <1>5, <2>1, <2>2, <2>3 DEF DispatchStep
  <1>6. CASE RequestStep
    <2>1. PICK r \in Reqs : SendRequest(r) \/ RequestFail(r) \/ RequestReturn(r)
      BY <1>6 DEF RequestStep
    <2>2. CASE SendRequest(r)
      <3>1. /\ req[r] = "idle" /\ pending' = pending \cup {r} /\ req' = [req EXCEPT ![r] = "open"]
            /\ UNCHANGED <<resp, dropped>>
        BY <2>2 DEF SendRequest
      <3>2. RequestTypes'
        BY <1>1, <3>1 DEF RequestTypes
      <3>3. /\ \A q \in pending' : req'[q] = "open" /\ resp'[q] = None
            /\ \A q \in Reqs : req'[q] = "idle" => resp'[q] = None
            /\ \A q \in Reqs : req'[q] = "answered" => resp'[q] # None /\ resp'[q] # Failed
        BY <1>1, <1>2, <3>1
      <3> QED
        BY <1>2, <3>1, <3>2, <3>3 DEF Answering, Match
    <2>3. CASE RequestFail(r)
      <3>1. /\ req[r] = "open" /\ pending' = pending \ {r} /\ Deliver({r} \cap pending, Failed)
            /\ req' = [req EXCEPT ![r] = "failed"]
        BY <2>3 DEF RequestFail, Waiting, Complete
      <3>2. /\ ~dropped' /\ resp' \in [Reqs -> Packets \cup {None}]
            /\ \A q \in Reqs : resp'[q] = IF q \in {r} \cap pending THEN Failed ELSE resp[q]
        BY <1>1, <1>2, <3>1, DeliverEffect, PacketTypes
      <3>3. RequestTypes'
        BY <1>1, <3>1, <3>2 DEF RequestTypes
      <3>4. /\ \A q \in pending' : req'[q] = "open" /\ resp'[q] = None
            /\ \A q \in Reqs : req'[q] = "idle" => resp'[q] = None
            /\ \A q \in Reqs : req'[q] = "answered" => resp'[q] # None /\ resp'[q] # Failed
        BY <1>1, <1>2, <3>1, <3>2
      <3>5. \A q \in Reqs : resp'[q] # None => resp'[q] = Failed \/ Match(q, resp'[q])
        BY <1>2, <3>2
      <3> QED
        BY <3>2, <3>3, <3>4, <3>5 DEF Answering, Match
    <2>4. CASE RequestReturn(r)
      <3>1. /\ resp[r] # None /\ UNCHANGED <<pending, resp, dropped>>
            /\ req' = [req EXCEPT ![r] = IF resp[r] = Failed THEN "failed" ELSE "answered"]
        BY <2>4 DEF RequestReturn
      <3>2. r \notin pending
        BY <1>2, <3>1
      <3>3. RequestTypes'
        BY <1>1, <3>1 DEF RequestTypes
      <3>4. /\ \A q \in pending' : req'[q] = "open" /\ resp'[q] = None
            /\ \A q \in Reqs : req'[q] = "idle" => resp'[q] = None
            /\ \A q \in Reqs : req'[q] = "answered" => resp'[q] # None /\ resp'[q] # Failed
        BY <1>1, <1>2, <3>1, <3>2
      <3> QED
        BY <1>2, <3>1, <3>3, <3>4 DEF Answering, Match
    <2> QED
      BY <2>1, <2>2, <2>3, <2>4
  <1>7. WriteStep \/ ReadSomething \/ NetStep \/ (\E s \in Sides : PlaneSend(s)) => UNCHANGED reqs
    BY DEF WriteStep, WriteLength, WriteBody, ReadSomething, ReadStep, ReadLength, ReadBody, ReadEnd,
       NetStep, ConnFails, StreamError, PlaneSend
  <1>8. ConnectStep2 \/ CloseStep2 => UNCHANGED reqs
    BY DEF ConnectStep2, ConnectStep, Connect, ConnectWait, ConnectAck, ConnectFail,
       CloseStep2, CloseStep, CloseDispatch, ClosePlane, CloseMux
  <1>9. ServeStep \/ UNCHANGED vars => UNCHANGED reqs
    BY DEF ServeStep, ServerStep, Accept, AcceptFail, ServeLoop, Serve, SendEvent, ServerClose, MuxClose, vars
  <1> QED
    BY <1>4, <1>5, <1>6, <1>7, <1>8, <1>9, Steps

-----------------------------------------------------------------------------
(***************************************************************************)
(* Lengths and bodies take turns.                                          *)
(***************************************************************************)

\* Each body follows its length; with f = 1 the first part is the body of p,
\* whose length has been read.
Order(q, f, p) ==
    /\ \A i \in 1..Len(q) : q[i][1] = IF (i + f) % 2 = 1 THEN "len" ELSE "body"
    /\ \A i \in 1..Len(q) - 1 : q[i][1] = "len" => q[i + 1][2] = q[i][2]
    /\ f = 1 /\ q # <<>> => q[1][2] = p

Odd(rd) == IF rd.pc = "body" THEN 1 ELSE 0
Usable(rd) == rd.pc # "done" /\ ~(rd.pc = "got" /\ rd.pkt = Failed)

\* The parts q on their way to a reader rd, over a connection that is c, while
\* the writer m, or nobody, is in the middle of packet b.
Framed(q, rd, c, m, b) ==
    Usable(rd) =>
      /\ Order(q, Odd(rd), rd.pkt)
      /\ c = "up" => /\ m # None <=> (Len(q) + Odd(rd)) % 2 = 1
                     /\ m # None => IF q = <<>> THEN rd.pkt = b ELSE q[Len(q)][2] = b

LEMMA TailParts ==
    ASSUME NEW q \in Seq(Parts), q # <<>>
    PROVE  /\ Tail(q) \in Seq(Parts) /\ Len(Tail(q)) = Len(q) - 1 /\ Len(q) \in Nat /\ Len(q) > 0
           /\ \A i \in 1..Len(q) - 1 : Tail(q)[i] = q[i + 1]
           /\ Head(q) = q[1] /\ q[1] \in Parts
  OBVIOUS

LEMMA OrderTail0 ==
    ASSUME NEW q \in Seq(Parts), q # <<>>, NEW p, Order(q, 0, p)
    PROVE  q[1][1] = "len" /\ Order(Tail(q), 1, q[1][2])
  <1>1. Len(q) \in Nat /\ Len(q) > 0
    BY TailParts
  <1>2. q[1][1] = "len"
    BY <1>1 DEF Order
  <1>3. ASSUME NEW i \in 1..Len(q) - 1 PROVE Tail(q)[i][1] = IF (i + 1) % 2 = 1 THEN "len" ELSE "body"
    BY <1>1, <1>3, TailParts DEF Order
  <1>4. ASSUME NEW i \in 1..Len(q) - 2, Tail(q)[i][1] = "len" PROVE Tail(q)[i + 1][2] = Tail(q)[i][2]
    BY <1>1, <1>4, TailParts DEF Order
  <1>5. Tail(q) # <<>> => Tail(q)[1][2] = q[1][2]
    <2>1. Tail(q) # <<>> => Len(q) > 1
      BY TailParts
    <2> QED
      BY <1>1, <1>2, <2>1, TailParts DEF Order
  <1> QED
    BY <1>1, <1>2, <1>3, <1>4, <1>5, TailParts DEF Order

LEMMA OrderTail1 ==
    ASSUME NEW q \in Seq(Parts), q # <<>>, NEW p, Order(q, 1, p), NEW p2
    PROVE  q[1] = <<"body", p>> /\ Order(Tail(q), 0, p2)
  <1>1. Len(q) \in Nat /\ Len(q) > 0 /\ q[1] \in Parts
    BY TailParts
  <1>2. q[1][1] = "body" /\ q[1][2] = p
    BY <1>1 DEF Order
  <1>6. q[1] = <<"body", p>>
    BY <1>1, <1>2 DEF Parts
  <1>3. ASSUME NEW i \in 1..Len(q) - 1 PROVE Tail(q)[i][1] = IF (i + 0) % 2 = 1 THEN "len" ELSE "body"
    <2>1. q[i + 1][1] = IF (i + 1 + 1) % 2 = 1 THEN "len" ELSE "body"
      BY <1>1, <1>3 DEF Order
    <2>2. (i + 1 + 1) % 2 = (i + 0) % 2
      BY <1>1, <1>3
    <2> QED
      BY <1>1, <1>3, <2>1, <2>2, TailParts
  <1>4. ASSUME NEW i \in 1..Len(q) - 2, Tail(q)[i][1] = "len" PROVE Tail(q)[i + 1][2] = Tail(q)[i][2]
    BY <1>1, <1>4, TailParts DEF Order
  <1> QED
    BY <1>1, <1>6, <1>3, <1>4, TailParts DEF Order

LEMMA OrderAppend ==
    ASSUME NEW q \in Seq(Parts), NEW f \in {0, 1}, NEW p, Order(q, f, p), NEW b \in Good,
           NEW k \in {"len", "body"}, k = "len" <=> (Len(q) + f) % 2 = 0,
           k = "body" /\ q # <<>> => q[Len(q)][2] = b, k = "body" /\ q = <<>> => p = b
    PROVE  Order(Append(q, <<k, b>>), f, p)
  <1>1. Len(q) \in Nat
    OBVIOUS
  <1>2. PICK part : part = <<k, b>>
    OBVIOUS
  <1>3. part \in Parts /\ part[1] = k /\ part[2] = b
    BY <1>2 DEF Parts
  <1>4. PICK r : r = Append(q, part)
    OBVIOUS
  <1>5. /\ Len(r) = Len(q) + 1 /\ r[Len(q) + 1] = part
        /\ \A i \in 1..Len(q) : r[i] = q[i]
    BY <1>3, <1>4
  <1>6. ASSUME NEW i \in 1..Len(q) + 1 PROVE r[i][1] = IF (i + f) % 2 = 1 THEN "len" ELSE "body"
    <2>1. CASE i \in 1..Len(q)
      BY <1>5, <2>1 DEF Order
    <2>2. CASE i = Len(q) + 1
      <3>1. (Len(q) + f) % 2 = 0 <=> (Len(q) + 1 + f) % 2 = 1
        BY <1>1
      <3> QED
        BY <1>3, <1>5, <2>2, <3>1
    <2> QED
      BY <1>1, <2>1, <2>2
  <1>7. ASSUME NEW i \in 1..Len(q), r[i][1] = "len" PROVE r[i + 1][2] = r[i][2]
    <2>1. CASE i < Len(q)
      <3>1. i + 1 \in 1..Len(q) /\ i \in 1..Len(q) - 1
        BY <1>1, <2>1
      <3>2. r[i + 1] = q[i + 1] /\ r[i] = q[i]
        BY <1>5, <3>1
      <3> QED
        BY <1>7, <3>1, <3>2 DEF Order
    <2>2. CASE i = Len(q)
      <3>1. q # <<>> /\ r[i] = q[i] /\ (i + f) % 2 = 1
        BY <1>1, <1>5, <1>6, <1>7, <2>2
      <3> QED
        BY <1>1, <1>3, <1>5, <2>2, <3>1
    <2> QED
      BY <1>1, <2>1, <2>2
  <1>8. f = 1 => r[1][2] = p
    <2>1. CASE q = <<>>
      <3>1. Len(q) = 0
        BY <2>1
      <3> QED
        BY <1>3, <1>5, <2>1, <3>1
    <2>2. CASE q # <<>>
      <3>1. 1 \in 1..Len(q)
        BY <2>2
      <3> QED
        BY <1>5, <2>2, <3>1 DEF Order
    <2> QED
      BY <2>1, <2>2
  <1>9. Order(r, f, p)
    BY <1>1, <1>5, <1>6, <1>7, <1>8 DEF Order
  <1> QED
    BY <1>2, <1>4, <1>9


LEMMA FramedLength ==
    ASSUME NEW q \in Seq(Parts), q # <<>>, NEW rd \in Readings, rd.pc = "len", NEW c, NEW m, NEW b,
           Framed(q, rd, c, m, b)
    PROVE  /\ Head(q)[1] = "len"
           /\ Framed(Tail(q), [pc |-> "body", pkt |-> Head(q)[2]], c, m, b)
  <1>1. Usable(rd) /\ Odd(rd) = 0
    BY DEF Usable, Odd
  <1>2. Order(q, 0, rd.pkt)
    BY <1>1 DEF Framed
  <1>3. PICK t : t = Tail(q)
    OBVIOUS
  <1>4. q[1][1] = "len" /\ Order(t, 1, q[1][2])
    BY <1>2, <1>3, OrderTail0
  <1>5. /\ t \in Seq(Parts) /\ Len(t) = Len(q) - 1 /\ Len(q) \in Nat /\ Len(q) > 0
        /\ \A i \in 1..Len(q) - 1 : t[i] = q[i + 1]
        /\ Head(q) = q[1]
    BY <1>3, TailParts
  <1>6. PICK rd2 : rd2 = [pc |-> "body", pkt |-> q[1][2]]
    OBVIOUS
  <1>7. rd2.pkt = q[1][2] /\ Odd(rd2) = 1
    BY <1>6 DEF Odd
  <1>8. ASSUME c = "up" PROVE m # None <=> (Len(t) + 1) % 2 = 1
    <2>1. m # None <=> (Len(q) + 0) % 2 = 1
      BY <1>1, <1>8 DEF Framed
    <2>2. Len(t) + 1 = Len(q) + 0
      BY <1>5
    <2> QED
      BY <2>1, <2>2
  <1>9. ASSUME c = "up", m # None PROVE IF t = <<>> THEN rd2.pkt = b ELSE t[Len(t)][2] = b
    <2>1. q[Len(q)][2] = b
      BY <1>1, <1>9 DEF Framed
    <2>2. CASE t = <<>>
      <3>1. Len(q) = 1
        BY <1>5, <2>2
      <3> QED
        BY <1>7, <2>1, <2>2, <3>1
    <2>3. CASE t # <<>>
      <3>1. t[Len(t)] = q[Len(q)]
        BY <1>5, <2>3
      <3> QED
        BY <2>1, <2>3, <3>1
    <2> QED
      BY <2>2, <2>3
  <1>10. Framed(t, rd2, c, m, b)
    BY <1>4, <1>7, <1>8, <1>9 DEF Framed
  <1> QED
    BY <1>3, <1>4, <1>5, <1>6, <1>10

LEMMA FramedBody ==
    ASSUME NEW q \in Seq(Parts), q # <<>>, NEW rd \in Readings, rd.pc = "body", NEW c, NEW m, NEW b,
           Framed(q, rd, c, m, b)
    PROVE  /\ Head(q) = <<"body", rd.pkt>>
           /\ Framed(Tail(q), [pc |-> "got", pkt |-> rd.pkt], c, m, b)
  <1>1. Usable(rd) /\ Odd(rd) = 1
    BY DEF Usable, Odd
  <1>2. Order(q, 1, rd.pkt)
    BY <1>1 DEF Framed
  <1>3. PICK t : t = Tail(q)
    OBVIOUS
  <1>4. q[1] = <<"body", rd.pkt>> /\ Order(t, 0, rd.pkt)
    BY <1>2, <1>3, OrderTail1
  <1>5. /\ t \in Seq(Parts) /\ Len(t) = Len(q) - 1 /\ Len(q) \in Nat /\ Len(q) > 0
        /\ \A i \in 1..Len(q) - 1 : t[i] = q[i + 1]
        /\ Head(q) = q[1]
    BY <1>3, TailParts
  <1>6. PICK rd2 : rd2 = [pc |-> "got", pkt |-> rd.pkt]
    OBVIOUS
  <1>7. rd2.pkt = rd.pkt /\ Odd(rd2) = 0
    BY <1>6 DEF Odd
  <1>8. ASSUME c = "up" PROVE m # None <=> (Len(t) + 0) % 2 = 1
    <2>1. m # None <=> (Len(q) + 1) % 2 = 1
      BY <1>1, <1>8 DEF Framed
    <2>2. Len(q) = Len(t) + 1 /\ Len(t) \in Nat
      BY <1>5
    <2>3. (Len(q) + 1) % 2 = (Len(t) + 0) % 2
      BY <2>2
    <2> QED
      BY <2>1, <2>3
  <1>9. ASSUME c = "up", m # None PROVE IF t = <<>> THEN rd2.pkt = b ELSE t[Len(t)][2] = b
    <2>1. q[Len(q)][2] = b
      BY <1>1, <1>9 DEF Framed
    <2>2. t # <<>>
      BY <1>5, <1>8, <1>9
    <2>3. t[Len(t)] = q[Len(q)]
      BY <1>5, <2>2
    <2> QED
      BY <2>1, <2>2, <2>3
  <1>10. Framed(t, rd2, c, m, b)
    BY <1>4, <1>7, <1>8, <1>9 DEF Framed
  <1> QED
    BY <1>3, <1>4, <1>5, <1>6, <1>10

\* A reader that is between two packets.
LEMMA FramedBetween ==
    ASSUME NEW q \in Seq(Parts), NEW rd, NEW rd2, NEW c, NEW m, NEW b, Usable(rd), rd.pc # "body",
           rd2.pc # "body", Framed(q, rd, c, m, b)
    PROVE  Framed(q, rd2, c, m, b)
  <1>1. Odd(rd) = 0 /\ Odd(rd2) = 0
    BY DEF Odd
  <1>2. /\ Order(q, 0, rd.pkt)
        /\ c = "up" => /\ m # None <=> (Len(q) + 0) % 2 = 1
                       /\ m # None => IF q = <<>> THEN rd.pkt = b ELSE q[Len(q)][2] = b
    BY <1>1 DEF Framed
  <1>3. Order(q, 0, rd2.pkt)
    BY <1>2 DEF Order
  <1>4. c = "up" /\ m # None => q # <<>>
    BY <1>2
  <1> QED
    BY <1>1, <1>2, <1>3, <1>4 DEF Framed

LEMMA FramedWriteLength ==
    ASSUME NEW q \in Seq(Parts), NEW rd, NEW m, m # None, NEW b \in Good, NEW b2,
           Framed(q, rd, "up", None, b2)
    PROVE  Framed(Append(q, <<"len", b>>), rd, "up", m, b)
  <1> SUFFICES ASSUME Usable(rd)
               PROVE  Framed(Append(q, <<"len", b>>), rd, "up", m, b)
    BY DEF Framed
  <1>1. PICK f \in {0, 1} : f = Odd(rd)
    BY DEF Odd
  <1>2. Order(q, f, rd.pkt) /\ ~((Len(q) + f) % 2 = 1) /\ Len(q) \in Nat
    BY <1>1 DEF Framed
  <1>3. PICK part : part = <<"len", b>>
    OBVIOUS
  <1>4. part \in Parts /\ part[2] = b
    BY <1>3, PartTypes
  <1>5. PICK t : t = Append(q, part)
    OBVIOUS
  <1>6. Len(t) = Len(q) + 1 /\ t[Len(q) + 1] = part /\ t # <<>>
    BY <1>4, <1>5
  <1>7. Order(t, f, rd.pkt)
    <2>1. (Len(q) + f) % 2 = 0
      BY <1>2
    <2> QED
      BY <1>2, <1>3, <1>5, <2>1, OrderAppend
  <1>8. (Len(t) + f) % 2 = 1
    BY <1>2, <1>6
  <1>9. Framed(t, rd, "up", m, b)
    BY <1>1, <1>4, <1>6, <1>7, <1>8 DEF Framed
  <1> QED
    BY <1>3, <1>5, <1>9

LEMMA FramedWriteBody ==
    ASSUME NEW q \in Seq(Parts), NEW rd, NEW m, m # None, NEW b \in Good, NEW b2,
           Framed(q, rd, "up", m, b)
    PROVE  Framed(Append(q, <<"body", b>>), rd, "up", None, b2)
  <1> SUFFICES ASSUME Usable(rd)
               PROVE  Framed(Append(q, <<"body", b>>), rd, "up", None, b2)
    BY DEF Framed
  <1>1. PICK f \in {0, 1} : f = Odd(rd)
    BY DEF Odd
  <1>2. /\ Order(q, f, rd.pkt) /\ (Len(q) + f) % 2 = 1 /\ Len(q) \in Nat
        /\ IF q = <<>> THEN rd.pkt = b ELSE q[Len(q)][2] = b
    BY <1>1 DEF Framed
  <1>3. PICK part : part = <<"body", b>>
    OBVIOUS
  <1>4. part \in Parts
    BY <1>3, PartTypes
  <1>5. PICK t : t = Append(q, part)
    OBVIOUS
  <1>6. Len(t) = Len(q) + 1
    BY <1>4, <1>5
  <1>7. Order(t, f, rd.pkt)
    <2>1. ~((Len(q) + f) % 2 = 0)
      BY <1>2
    <2> QED
      BY <1>2, <1>3, <1>5, <2>1, OrderAppend
  <1>8. ~((Len(t) + f) % 2 = 1)
    BY <1>2, <1>6
  <1>9. Framed(t, rd, "up", None, b2)
    BY <1>1, <1>7, <1>8 DEF Framed
  <1> QED
    BY <1>3, <1>5, <1>9

-----------------------------------------------------------------------------
(***************************************************************************)
(* The inductive invariant: whose turn it is to write, and to read.        *)
(***************************************************************************)

\* writeMu is held by whoever is between a length and its body.
Locked ==
    /\ \A w \in Writers : wr[w].pc = "body" <=> mu[WriterSide(w)] = w
    /\ \A s \in Sides : mu[s] # None => WriterSide(mu[s]) = s

\* A goroutine that is not in WritePacket has nothing left in it.
Idle ==
    /\ cl # "hello" => wr["connect"].pc = "off"
    /\ srv \in {"accept", "next"} => wr["serve"].pc = "off"
    /\ \A r \in Reqs : req[r] = "idle" => wr[r].pc = "off"

\* The control plane reads once the handshake's reader has had its packet.
ClientTurns ==
    /\ \A n \in 1..MaxConnects : n > connects => read[Handshake("client", n)].pc = "off"
    /\ cl = "hello" => read[Handshake("client", connects)].pc = "off"
    /\ done <=> cl = "connected"
    /\ done <=> Started("client")
    /\ done => read[Handshake("client", connects)].pc = "got"
    /\ disp # "off" => done

ServerTurns ==
    /\ Started("server") \/ srv \in {"ack", "next", "answer"} =>
         read[Handshake("server", 1)] = [pc |-> "got", pkt |-> Hello]
    /\ Started("server") => srv # "accept"

\* Nothing is sent to a channel before its goroutine runs, and no stream fails
\* before the connection does.
Quiet ==
    /\ \A s \in Sides : stopped[s] => Started(s)
    /\ \A s \in Sides : ~Started(s) => events[s] = <<>>
    /\ conn = "up" => \A s \in Sides : stream[s] = "open"
    /\ srv = "closed" => conn = "down"

\* What only some steps change.
LEMMA Frames ==
    ASSUME [Next]_vars
    PROVE  /\ ConnectStep2 \/ UNCHANGED <<cl, connects, done>>
           /\ ServeStep \/ srv' = srv
           /\ ConnectAck \/ DispatchStep \/ UNCHANGED <<disp, packet>>
           /\ NetStep \/ CloseMux \/ ServerClose \/ conn' = conn
           /\ (\E s \in Sides : PlaneSend(s)) \/ DispatchNext \/ Serve \/ events' = events
           /\ ClosePlane \/ ServerClose \/ stopped' = stopped
           /\ ReadSomething \/ NetStep \/ CloseMux \/ ServerClose \/ stream' = stream
           /\ WriteStep \/ ConnectAck \/ DispatchPending \/ Accept \/ Serve \/ due' = due
           /\ RequestStep \/ req' = req
  <1>1. CASE WriteStep
    BY <1>1 DEF WriteStep, WriteLength, WriteBody, client, server, planes, reqs
  <1>2. CASE ReadSomething
    BY <1>2 DEF ReadSomething, ReadStep, ReadLength, ReadBody, ReadEnd, client, server, planes, reqs
  <1>3. CASE NetStep
    BY <1>3 DEF NetStep, ConnFails, StreamError, client, server, planes, reqs
  <1>4. CASE \E s \in Sides : PlaneSend(s)
    BY <1>4 DEF PlaneSend, client, server, wire, reqs
  <1>5. CASE ConnectStep2
    BY <1>5 DEF ConnectStep2, ConnectStep, Connect, ConnectWait, ConnectAck, ConnectFail, server,
       planes, wire, reqs
  <1>6. CASE CloseStep2
    BY <1>6 DEF CloseStep2, CloseStep, CloseDispatch, ClosePlane, CloseMux, MuxClose, server, planes, wire, reqs
  <1>7. CASE RequestStep
    BY <1>7 DEF RequestStep, SendRequest, RequestFail, RequestReturn, client, server, planes, wire
  <1>8. CASE DispatchStep
    BY <1>8 DEF DispatchStep, DispatchNext, DispatchStopped, DispatchPending, FailAllPending, server,
       planes, wire, reqs
  <1>9. CASE ServeStep
    BY <1>9 DEF ServeStep, ServerStep, Accept, AcceptFail, ServeLoop, Serve, SendEvent, ServerClose, MuxClose,
       client, planes, wire, reqs
  <1>10. CASE UNCHANGED vars
    BY <1>10 DEF vars, client, server, planes, wire, reqs
  <1> QED
    BY <1>1, <1>2, <1>3, <1>4, <1>5, <1>6, <1>7, <1>8, <1>9, <1>10, Steps

LEMMA ReaderNames ==
    /\ \A s, t \in Sides, n \in 1..MaxConnects : Plane(s) # Handshake(t, n)
    /\ Plane("client") # Plane("server") /\ \A s \in Sides : Plane(s) # Handshake(s, 1)
    /\ \A n \in 1..MaxConnects : Handshake("client", n) # Handshake("server", 1)
    /\ \A n, k \in 1..MaxConnects : Handshake("client", n) = Handshake("client", k) => n = k
    /\ \A x \in Readers, s \in Sides :
         ReaderSide(x) = s =>
           x = Plane(s) \/ x = Handshake(s, 1) \/ \E n \in 2..MaxConnects : x = Handshake("client", n)
  <1>1. \A x \in Readers : \/ \E s \in Sides : x = Plane(s)
                           \/ x = Handshake("server", 1)
                           \/ \E n \in 1..MaxConnects : x = Handshake("client", n)
    BY DEF Readers
  <1>2. \A n \in 1..MaxConnects : n = 1 \/ n \in 2..MaxConnects
    BY BaseServiceAssumption
  <1> QED
    BY <1>1, <1>2, BaseServiceAssumption DEF Plane, Handshake, Sides, ReaderSide

LEMMA WriterNames ==
    /\ \A r \in Reqs : r # "connect" /\ r # "serve" /\ r # "event"
    /\ \A w \in Writers : w # None
  BY BaseServiceAssumption DEF Writers

LEMMA ReaderMoves ==
    ASSUME Types, [Next]_vars, NEW x \in Readers
    PROVE  \/ read'[x] = read[x]
           \/ /\ ReadStep(x) /\ read[x].pc \in {"len", "body"}
              /\ read'[x].pc \in {"body", "got"}
           \/ \E s \in Sides : /\ x = Plane(s) /\ PlaneSend(s) /\ read[x].pc = "got"
                               /\ read'[x].pc \in {"len", "done"} /\ read'[x].pkt = Failed
                               /\ read[x].pkt = Failed => read'[x].pc = "done"
           \/ /\ x = Handshake("client", connects) /\ ConnectWait
              /\ read'[x] = [pc |-> "len", pkt |-> Failed]
           \/ /\ x = Plane("client") /\ ConnectAck
              /\ read[x].pc = "off" /\ read'[x].pc = "len"
           \/ /\ x = Plane("server") /\ ServeLoop
              /\ read[x].pc = "off" /\ read'[x].pc = "len"
  <1>1. read \in [Readers -> Readings]
    BY DEF Types, ReaderTypes
  <1>2. CASE ReadSomething
    <2>1. PICK y \in Readers : ReadStep(y)
      BY <1>2 DEF ReadSomething
    <2>2. read[y].pc \in {"len", "body"}
      BY <2>1 DEF ReadStep, ReadLength, ReadBody, ReadEnd
    <2>3. \E to \in {"body", "got"} : \E p : Read(y, to, p)
      BY <2>1 DEF ReadStep, ReadLength, ReadBody, ReadEnd
    <2> QED
      BY <1>1, <2>1, <2>2, <2>3 DEF Read
  <1>3. CASE read' = read
    BY <1>3
  <1>4. ASSUME NEW s \in Sides, NEW to \in {"len", "done"}, PlaneSend(s), Read(Plane(s), to, Failed)
        PROVE  \/ read'[x] = read[x]
               \/ /\ x = Plane(s) /\ PlaneSend(s) /\ read[x].pc = "got"
                  /\ read'[x].pc \in {"len", "done"} /\ read'[x].pkt = Failed
                  /\ read[x].pkt = Failed => read'[x].pc = "done"
    <2>1. read[Plane(s)].pc = "got"
      BY <1>4 DEF PlaneSend
    <2>2. read[Plane(s)].pkt = Failed => Read(Plane(s), "done", Failed)
      BY <1>4 DEF PlaneSend
    <2>3. Plane(s) \in Readers
      BY ReaderSides
    <2> QED
      BY <1>1, <1>4, <2>1, <2>2, <2>3 DEF Read
  <1>5. ASSUME ConnectWait, Read(Handshake("client", connects), "len", Failed)
        PROVE  read'[x] = read[x] \/ (/\ x = Handshake("client", connects) /\ ConnectWait
                                      /\ read'[x] = [pc |-> "len", pkt |-> Failed])
    BY <1>1, <1>5 DEF Read
  <1>6. ASSUME NEW s \in Sides, EnsureStarted(s)
        PROVE  read'[x] = read[x] \/ (x = Plane(s) /\ read[x].pc = "off" /\ read'[x].pc = "len")
    BY <1>1, <1>6 DEF EnsureStarted, Started, Readings
  <1> QED
    BY <1>2, <1>3, <1>4, <1>5, <1>6, ReaderEffects DEF Sides

\* A control plane's goroutine, once started, has been started for good.
LEMMA StartedKept ==
    ASSUME Types, [Next]_vars, NEW s \in Sides
    PROVE  /\ Started(s) => Started(s)'
           /\ Started(s)' => Started(s) \/ (s = "client" /\ ConnectAck) \/ (s = "server" /\ ServeLoop)
           /\ EnsureStarted(s) => Started(s)'
  <1>1. Plane(s) \in Readers
    BY ReaderSides
  <1>2. connects \in 1..MaxConnects => Plane(s) # Handshake("client", connects)
    BY ReaderNames DEF Sides
  <1>3. ConnectWait => connects \in 1..MaxConnects
    BY BaseServiceAssumption DEF Types, ClientTypes, ConnectWait
  <1>4. read \in [Readers -> Readings]
    BY DEF Types, ReaderTypes
  <1>5. EnsureStarted(s) => Started(s)'
    BY <1>1, <1>4 DEF EnsureStarted, Started, Readings
  <1>6. \A t \in Sides : Plane(s) = Plane(t) => s = t
    BY DEF Plane, Sides
  <1> QED
    BY <1>1, <1>2, <1>3, <1>5, <1>6, ReaderMoves DEF Started, Sides

LEMMA WriterStarts ==
    ASSUME Types, [Next]_vars, NEW w \in Writers, wr[w].pc = "off", wr'[w].pc # "off"
    PROVE  \/ w = "connect" /\ Connect
           \/ w = "serve" /\ (Accept \/ Serve)
           \/ w = "event"
           \/ w \in Reqs /\ SendRequest(w)
  <1>1. wr \in [Writers -> Sendings]
    BY DEF Types, WriterTypes
  <1>2. ASSUME NEW v \in Writers, NEW p, Starts(v, p)
        PROVE  w = v
    BY <1>1, <1>2 DEF Starts, StartWrite
  <1>3. ASSUME NEW v \in Writers
        PROVE  ~Rests(v)
    BY <1>1, <1>3 DEF Rests, Off
  <1>4. ~WriteStep
    <2> SUFFICES ASSUME NEW v \in Writers, WriteLength(v) \/ WriteBody(v)
                 PROVE  FALSE
      BY DEF WriteStep
    <2>1. wr[v].pc # "off" /\ \E to \in {"failed", "body", "ok"} : wr' = [wr EXCEPT ![v].pc = to]
      BY DEF WriteLength, WriteBody
    <2> QED
      BY <1>1, <2>1
  <1>5. ~ReadSomething
    BY DEF ReadSomething, ReadStep, ReadLength, ReadBody, ReadEnd
  <1> QED
    BY <1>2, <1>3, <1>4, <1>5, WriterEffects, WriterSides

LEMMA LockedKept ==
    ASSUME Types, Locked, Idle, [Next]_vars
    PROVE  Locked'
  <1>1. wr \in [Writers -> Sendings] /\ mu \in [Sides -> Writers \cup {None}]
    BY DEF Types, WriterTypes
  <1>2. /\ \A w \in Writers : wr[w].pc = "body" <=> mu[WriterSide(w)] = w
        /\ \A s \in Sides : mu[s] # None => WriterSide(mu[s]) = s
    BY DEF Locked
  <1>3. CASE UNCHANGED <<wr, mu>>
    BY <1>2, <1>3 DEF Locked
  <1>4. ASSUME NEW w \in Writers, NEW p, Starts(w, p), wr[w].pc # "body"
        PROVE  Locked'
    <2>1. \A v \in Writers : wr'[v].pc = "body" <=> wr[v].pc = "body"
      BY <1>1, <1>4 DEF Starts, StartWrite
    <2> QED
      BY <1>2, <1>4, <2>1 DEF Locked, Starts
  <1>5. ASSUME NEW w \in Writers, Rests(w)
        PROVE  Locked'
    <2>1. \A v \in Writers : wr'[v].pc = "body" <=> wr[v].pc = "body"
      BY <1>1, <1>5 DEF Rests, Off
    <2> QED
      BY <1>2, <1>5, <2>1 DEF Locked, Rests
  <1>6. CASE WriteStep
    <2>1. PICK w \in Writers : WriteLength(w) \/ WriteBody(w)
      BY <1>6 DEF WriteStep
    <2>2. WriterSide(w) \in Sides /\ w # None
      BY WriterSides, WriterNames
    <2>3. CASE WriteLength(w) /\ conn = "down"
      <3>1. wr' = [wr EXCEPT ![w].pc = "failed"] /\ mu' = mu /\ wr[w].pc = "len"
        BY <2>3 DEF WriteLength
      <3>2. \A v \in Writers : wr'[v].pc = "body" <=> wr[v].pc = "body"
        BY <1>1, <3>1 DEF Sendings
      <3> QED
        BY <1>2, <3>1, <3>2 DEF Locked
    <2>4. CASE WriteLength(w) /\ conn # "down"
      <3>1. /\ wr' = [wr EXCEPT ![w].pc = "body"] /\ mu' = [mu EXCEPT ![WriterSide(w)] = w]
            /\ mu[WriterSide(w)] = None
        BY <2>4 DEF WriteLength, WriteMuFree
      <3>2. \A v \in Writers : wr'[v].pc = "body" <=> (v = w \/ wr[v].pc = "body")
        BY <1>1, <3>1 DEF Sendings
      <3>3. \A s \in Sides : mu'[s] = IF s = WriterSide(w) THEN w ELSE mu[s]
        BY <1>1, <3>1
      <3>4. ASSUME NEW v \in Writers PROVE wr'[v].pc = "body" <=> mu'[WriterSide(v)] = v
        <4>1. WriterSide(v) \in Sides /\ v # None
          BY WriterSides, WriterNames
        <4> QED
          BY <1>2, <3>1, <3>2, <3>3, <4>1
      <3>5. ASSUME NEW s \in Sides, mu'[s] # None PROVE WriterSide(mu'[s]) = s
        BY <1>2, <3>3, <3>5
      <3> QED
        BY <3>4, <3>5 DEF Locked
    <2>5. CASE WriteBody(w)
      <3>1. /\ \E to \in {"failed", "ok"} : wr' = [wr EXCEPT ![w].pc = to]
            /\ mu' = [mu EXCEPT ![WriterSide(w)] = None] /\ wr[w].pc = "body"
        BY <2>5 DEF WriteBody
      <3>2. \A v \in Writers : wr'[v].pc = "body" <=> (v # w /\ wr[v].pc = "body")
        BY <1>1, <3>1 DEF Sendings
      <3>3. \A s \in Sides : mu'[s] = IF s = WriterSide(w) THEN None ELSE mu[s]
        BY <1>1, <3>1
      <3>4. ASSUME NEW v \in Writers PROVE wr'[v].pc = "body" <=> mu'[WriterSide(v)] = v
        <4>1. WriterSide(v) \in Sides /\ v # None
          BY WriterSides, WriterNames
        <4>2. mu[WriterSide(w)] = w
          BY <1>2, <3>1
        <4> QED
          BY <1>2, <3>2, <3>3, <4>1, <4>2
      <3>5. ASSUME NEW s \in Sides, mu'[s] # None PROVE WriterSide(mu'[s]) = s
        BY <1>2, <3>3, <3>5
      <3> QED
        BY <3>4, <3>5 DEF Locked
    <2> QED
      BY <2>1, <2>3, <2>4, <2>5
  <1>7. ReadSomething => UNCHANGED <<wr, mu>>
    BY DEF ReadSomething, ReadStep, ReadLength, ReadBody, ReadEnd
  <1>8. Connect => wr["connect"].pc # "body"
    BY DEF Connect, Idle
  <1>9. Accept \/ Serve => wr["serve"].pc # "body"
    BY DEF Accept, Serve, Idle
  <1>10. SendEvent => wr["event"].pc # "body"
    BY DEF SendEvent
  <1>11. \A r \in Reqs : SendRequest(r) => wr[r].pc # "body"
    BY DEF SendRequest, Idle
  <1>12. {"connect", "serve", "event"} \subseteq Writers /\ Reqs \subseteq Writers
    BY WriterSides
  <1> QED
    BY <1>3, <1>4, <1>5, <1>6, <1>7, <1>8, <1>9, <1>10, <1>11, <1>12, WriterEffects

LEMMA IdleKept ==
    ASSUME Types, Idle, [Next]_vars
    PROVE  Idle'
  <1>1. wr \in [Writers -> Sendings] /\ req \in [Reqs -> {"idle", "open", "failed", "answered"}]
    BY DEF Types, WriterTypes, RequestTypes
  <1>2. \A w \in Writers : Rests(w) => wr'[w].pc = "off"
    BY <1>1 DEF Rests, Off
  <1>3. {"connect", "serve", "event"} \subseteq Writers /\ Reqs \subseteq Writers
    BY WriterSides
  <1>4. cl' # "hello" => wr'["connect"].pc = "off"
    <2>1. cl = "hello" /\ cl' # "hello" => ConnectWait
      BY Frames DEF ConnectStep2, ConnectStep, Connect, ConnectAck, ConnectFail
    <2>2. ConnectWait => Rests("connect")
      BY DEF ConnectWait, Rests, wire
    <2>3. wr["connect"].pc = "off" /\ wr'["connect"].pc # "off" => Connect
      BY <1>3, WriterStarts, WriterNames
    <2>4. Connect => cl' = "hello"
      BY DEF Connect
    <2> QED
      BY <1>2, <1>3, <2>1, <2>2, <2>3, <2>4 DEF Idle
  <1>5. srv' \in {"accept", "next"} => wr'["serve"].pc = "off"
    <2>1. srv' \in {"accept", "next"} => srv' = srv \/ ServeLoop
      BY Frames DEF ServeStep, ServerStep, Accept, AcceptFail, Serve, SendEvent, ServerClose, MuxClose
    <2>2. ServeLoop => Rests("serve")
      BY DEF ServeLoop, Rests, wire
    <2>3. wr["serve"].pc = "off" /\ wr'["serve"].pc # "off" => Accept \/ Serve
      BY <1>3, WriterStarts, WriterNames
    <2>4. Accept \/ Serve => srv' \notin {"accept", "next"}
      BY DEF Accept, Serve
    <2> QED
      BY <1>2, <1>3, <2>1, <2>2, <2>3, <2>4 DEF Idle
  <1>6. ASSUME NEW r \in Reqs, req'[r] = "idle" PROVE wr'[r].pc = "off"
    <2>1. req[r] = "idle"
      <3>1. RequestStep => \E q \in Reqs, to \in {"open", "failed", "answered"} :
                             req' = [req EXCEPT ![q] = to]
        BY DEF RequestStep, SendRequest, RequestFail, RequestReturn
      <3> QED
        BY <1>1, <1>6, <3>1, Frames
    <2>2. wr[r].pc = "off"
      BY <2>1 DEF Idle
    <2>3. wr'[r].pc # "off" => SendRequest(r)
      BY <1>3, <2>2, WriterStarts, WriterNames
    <2>4. SendRequest(r) => req'[r] = "open"
      BY <1>1 DEF SendRequest
    <2> QED
      BY <1>6, <2>3, <2>4
  <1> QED
    BY <1>4, <1>5, <1>6 DEF Idle

LEMMA ClientTurnsKept ==
    ASSUME Types, ClientTurns, [Next]_vars
    PROVE  ClientTurns'
  <1>1. /\ \A n \in 1..MaxConnects : n > connects => read[Handshake("client", n)].pc = "off"
        /\ cl = "hello" => read[Handshake("client", connects)].pc = "off"
        /\ done <=> cl = "connected"
        /\ done <=> Started("client")
        /\ done => read[Handshake("client", connects)].pc = "got"
        /\ disp # "off" => done
    BY DEF ClientTurns
  <1>2. /\ connects \in 0..MaxConnects /\ cl \in {"idle", "hello", "wait", "connected", "failed"}
        /\ cl \in {"hello", "wait", "connected"} => connects \in 1..MaxConnects
        /\ MaxConnects \in Nat
    BY BaseServiceAssumption DEF Types, ClientTypes
  <1>3. "client" \in Sides /\ "server" \in Sides
    BY DEF Sides
  <1>4. Connect => /\ cl' = "hello" /\ connects' = connects + 1 /\ connects' \in 1..MaxConnects
                   /\ cl \in {"idle", "failed"} /\ done' = done /\ read' = read /\ disp' = disp
    BY <1>2 DEF Connect
  <1>5. ConnectWait => cl = "hello" /\ cl' \in {"wait", "failed"} /\ UNCHANGED <<connects, done, disp>>
    BY DEF ConnectWait
  <1>6. ConnectAck => /\ cl = "wait" /\ cl' = "connected" /\ connects' = connects
                      /\ read[Handshake("client", connects)].pc = "got"
    <2>1. None # Ack
      BY PacketTypes
    <2> QED
      BY <2>1 DEF ConnectAck, AckReceived, Handshaken
  <1>7. ConnectAck => done'
    BY Zenon DEF ConnectAck
  <1>8. ConnectFail => cl = "wait" /\ cl' = "failed" /\ UNCHANGED <<connects, done, read, disp>>
    BY DEF ConnectFail
  <1>9. \/ Connect \/ ConnectWait \/ ConnectAck \/ ConnectFail
        \/ UNCHANGED <<cl, connects, done>>
    BY Frames DEF ConnectStep2, ConnectStep
  <1>10. ASSUME NEW n \in 1..MaxConnects
         PROVE  LET x == Handshake("client", n)
                IN  /\ x \in Readers
                    /\ \/ read'[x] = read[x]
                       \/ read[x].pc \in {"len", "body"}
                       \/ n = connects /\ ConnectWait
    <2>1. Handshake("client", n) \in Readers
      BY ReaderSides
    <2>2. \A s \in Sides : Handshake("client", n) # Plane(s)
      BY <1>3, ReaderNames
    <2>3. ConnectWait => connects \in 1..MaxConnects
      BY <1>2, <1>5
    <2> QED
      BY <1>3, <2>1, <2>2, <2>3, ReaderMoves, ReaderNames
  <1>11. \A n \in 1..MaxConnects : n > connects' => read'[Handshake("client", n)].pc = "off"
    BY <1>1, <1>2, <1>4, <1>5, <1>6, <1>8, <1>9, <1>10
  <1>12. cl' = "hello" => read'[Handshake("client", connects')].pc = "off"
    BY <1>1, <1>2, <1>4, <1>5, <1>6, <1>8, <1>9, <1>10
  <1>13. done' <=> cl' = "connected"
    <2>1. CASE Connect
      BY <1>1, <1>4, <2>1
    <2>2. CASE ConnectWait
      BY <1>1, <1>5, <2>2
    <2>3. CASE ConnectAck
      BY <1>6, <1>7, <2>3
    <2>4. CASE ConnectFail
      BY <1>1, <1>8, <2>4
    <2>5. CASE UNCHANGED <<cl, connects, done>>
      BY <1>1, <2>5
    <2> QED
      BY <1>9, <2>1, <2>2, <2>3, <2>4, <2>5
  <1>14. done' <=> Started("client")'
    <2>1. ConnectAck => Started("client")'
      BY <1>3, StartedKept DEF ConnectAck
    <2>2. ~ConnectAck => (Started("client")' <=> Started("client"))
      BY <1>3, StartedKept
    <2>3. ~ConnectAck => done' = done
      BY <1>4, <1>5, <1>8, <1>9
    <2> QED
      BY <1>1, <1>7, <2>1, <2>2, <2>3
  <1>15. done' => read'[Handshake("client", connects')].pc = "got"
    <2>1. CASE done
      <3>1. cl = "connected" /\ ~ConnectWait /\ ~ConnectAck /\ ~Connect /\ ~ConnectFail
        BY <1>1, <1>4, <1>5, <1>6, <1>8, <2>1
      <3> QED
        BY <1>1, <1>2, <1>9, <1>10, <2>1, <3>1
    <2>2. CASE ~done
      <3>1. done' => ConnectAck
        BY <1>4, <1>5, <1>8, <1>9, <2>2
      <3>2. ConnectAck => connects \in 1..MaxConnects /\ cl # "hello" /\ ~ConnectWait
        BY <1>2, <1>5, <1>6
      <3> QED
        BY <1>6, <1>10, <3>1, <3>2
    <2> QED
      BY <2>1, <2>2
  <1>16. disp' # "off" => done'
    <2>1. done => done'
      <3>1. done => ~ConnectStep2
        BY <1>1, <1>4, <1>5, <1>6, <1>8 DEF ConnectStep2, ConnectStep
      <3> QED
        BY <3>1, Frames
    <2>2. DispatchStep => disp # "off"
      BY DEF DispatchStep, DispatchNext, DispatchStopped, DispatchPending, FailAllPending
    <2>3. disp' = disp \/ ConnectAck \/ DispatchStep
      BY Frames
    <2> QED
      BY <1>1, <1>7, <2>1, <2>2, <2>3
  <1> QED
    BY <1>11, <1>12, <1>13, <1>14, <1>15, <1>16 DEF ClientTurns

LEMMA ServerTurnsKept ==
    ASSUME Types, ServerTurns, [Next]_vars
    PROVE  ServerTurns'
  <1> DEFINE H == Handshake("server", 1)
  <1>1. /\ Started("server") \/ srv \in {"ack", "next", "answer"} =>
             read[H] = [pc |-> "got", pkt |-> Hello]
        /\ Started("server") => srv # "accept"
    BY DEF ServerTurns
  <1>2. H \in Readers /\ "server" \in Sides
    BY ReaderSides DEF Sides
  <1>3. read[H].pc = "got" => read'[H] = read[H]
    <2>1. \A s \in Sides : H # Plane(s)
      BY <1>2, ReaderNames, BaseServiceAssumption
    <2>2. ConnectWait => H # Handshake("client", connects)
      BY DEF Handshake
    <2> QED
      BY <1>2, <2>1, <2>2, ReaderMoves DEF Sides
  <1>4. Accept => read[H] = [pc |-> "got", pkt |-> Hello]
    <2>1. None # Hello /\ read[H] \in Readings
      BY <1>2, PacketTypes DEF Types, ReaderTypes
    <2> QED
      BY <2>1 DEF Accept, Handshaken, Readings
  <1>5. ServeLoop => srv \in {"ack", "answer"} /\ srv' \in {"next", "closing"}
    BY DEF ServeLoop
  <1>6. Serve => srv = "next" /\ srv' # "accept"
    BY DEF Serve
  <1>7. AcceptFail \/ ServerClose => srv' \in {"closing", "closed"}
    BY DEF AcceptFail, ServerClose, MuxClose
  <1>8. SendEvent => srv' = srv
    BY DEF SendEvent
  <1>9. Accept => srv' = "ack"
    BY DEF Accept
  <1>10. srv' = srv \/ Accept \/ AcceptFail \/ ServeLoop \/ Serve \/ ServerClose
    BY <1>8, Frames DEF ServeStep, ServerStep
  <1>11. Started("server")' => Started("server") \/ ServeLoop
    BY <1>2, StartedKept
  <1>12. Started("server")' \/ srv' \in {"ack", "next", "answer"} =>
             read'[H] = [pc |-> "got", pkt |-> Hello]
    BY <1>1, <1>3, <1>4, <1>5, <1>6, <1>7, <1>9, <1>10, <1>11
  <1>13. Started("server")' => srv' # "accept"
    BY <1>1, <1>5, <1>6, <1>7, <1>9, <1>10, <1>11
  <1> QED
    BY <1>12, <1>13 DEF ServerTurns

LEMMA QuietKept ==
    ASSUME Types, Quiet, [Next]_vars
    PROVE  Quiet'
  <1>1. /\ events \in [Sides -> Seq(Packets)] /\ stopped \in [Sides -> BOOLEAN]
        /\ stream \in [Sides -> {"open", "error", "quiet", "closed"}]
        /\ conn \in {"up", "down"} /\ "client" \in Sides /\ "server" \in Sides
    BY DEF Types, PlaneTypes, WireTypes, Sides
  <1>2. /\ \A s \in Sides : stopped[s] => Started(s)
        /\ \A s \in Sides : ~Started(s) => events[s] = <<>>
        /\ conn = "up" => \A s \in Sides : stream[s] = "open"
        /\ srv = "closed" => conn = "down"
    BY DEF Quiet
  <1>3. \A s \in Sides : Started(s) => Started(s)'
    BY StartedKept
  <1>4. ASSUME NEW s \in Sides, stopped'[s] PROVE Started(s)'
    <2>1. CASE ClosePlane
      <3>1. s = "client" => Started("client")
        <4>1. s = "client" => (stopped'[s] <=> Started("client"))
          <5>1. PICK b \in BOOLEAN : b = Started("client")
            BY DEF Started
          <5>2. stopped' = [stopped EXCEPT !["client"] = b]
            BY <2>1, <5>1 DEF ClosePlane
          <5> QED
            BY <1>1, <5>1, <5>2
        <4> QED
          BY <1>4, <4>1
      <3>2. s # "client" => stopped'[s] = stopped[s]
        BY <1>1, <2>1 DEF ClosePlane
      <3> QED
        BY <1>2, <1>3, <1>4, <3>1, <3>2
    <2>2. CASE ServerClose
      <3>1. s = "server" => Started("server")
        <4>1. s = "server" => (stopped'[s] <=> Started("server"))
          <5>1. PICK b \in BOOLEAN : b = Started("server")
            BY DEF Started
          <5>2. stopped' = [stopped EXCEPT !["server"] = b]
            BY <2>2, <5>1 DEF ServerClose, MuxClose
          <5> QED
            BY <1>1, <5>1, <5>2
        <4> QED
          BY <1>4, <4>1
      <3>2. s # "server" => stopped'[s] = stopped[s]
        BY <1>1, <2>2 DEF ServerClose, MuxClose
      <3> QED
        BY <1>2, <1>3, <1>4, <3>1, <3>2
    <2>3. CASE stopped' = stopped
      BY <1>2, <1>3, <1>4, <2>3
    <2> QED
      BY <2>1, <2>2, <2>3, Frames
  <1>5. ASSUME NEW s \in Sides, ~Started(s)' PROVE events'[s] = <<>>
    <2>1. ~Started(s) /\ events[s] = <<>>
      BY <1>2, <1>3, <1>5
    <2>2. ASSUME NEW t \in Sides, PlaneSend(t) PROVE events'[s] = <<>>
      <3>1. t # s
        BY <2>1, <2>2 DEF PlaneSend, Started
      <3>2. events' = events \/ \E q : events' = [events EXCEPT ![t] = q]
        BY <2>2 DEF PlaneSend
      <3> QED
        BY <1>1, <2>1, <3>1, <3>2
    <2>3. ASSUME NEW t \in Sides, TakeEvent(t) PROVE events'[s] = <<>>
      BY <1>1, <2>1, <2>3 DEF TakeEvent
    <2>4. DispatchNext => TakeEvent("client")
      BY DEF DispatchNext
    <2>5. Serve => TakeEvent("server")
      BY DEF Serve
    <2> QED
      BY <1>1, <2>1, <2>2, <2>3, <2>4, <2>5, Frames
  <1>6. conn' = "up" => conn = "up"
    <2>1. NetStep => conn' = conn \/ conn' = "down"
      BY DEF NetStep, ConnFails, StreamError
    <2>2. CloseMux \/ ServerClose => conn' = "down"
      BY DEF CloseMux, MuxClose, ServerClose
    <2> QED
      BY <1>1, <2>1, <2>2, Frames
  <1>7. ASSUME conn' = "up", NEW s \in Sides PROVE stream'[s] = "open"
    <2>1. conn = "up" /\ \A t \in Sides : stream[t] = "open"
      BY <1>2, <1>6, <1>7
    <2>2. ReadSomething => stream' = stream
      <3> SUFFICES ASSUME NEW x \in Readers, ReadStep(x)
                   PROVE  stream' = stream
        BY DEF ReadSomething
      <3>1. ReaderSide(x) \in Sides
        BY ReaderSides
      <3> QED
        BY <2>1, <3>1 DEF ReadStep, ReadLength, ReadBody, ReadEnd
    <2>3. NetStep => stream' = stream
      BY <1>7, <2>1 DEF NetStep, ConnFails, StreamError
    <2>4. ~CloseMux /\ ~ServerClose
      BY <1>7 DEF CloseMux, MuxClose, ServerClose
    <2> QED
      BY <2>1, <2>2, <2>3, <2>4, Frames
  <1>8. srv' = "closed" => conn' = "down"
    <2>1. ServeStep => srv' = srv \/ srv' # "closed" \/ ServerClose
      BY DEF ServeStep, ServerStep, Accept, AcceptFail, ServeLoop, Serve, SendEvent
    <2>2. ServerClose => conn' = "down"
      BY DEF ServerClose, MuxClose
    <2>3. conn' = "up" \/ conn' = "down"
      <3>1. conn' \in {"up", "down"}
        BY WireTypesKept DEF WireTypes
      <3> QED
        BY <3>1
    <2> QED
      BY <1>2, <1>6, <2>1, <2>2, <2>3, Frames
  <1> QED
    BY <1>4, <1>5, <1>7, <1>8 DEF Quiet

-----------------------------------------------------------------------------
\* The reader of a side: of its handshake, then of its control plane.
Current(s) == IF Started(s) THEN Plane(s) ELSE Handshake(s, 1)
At(s) == read[Current(s)]

\* With one Connect the reader of a side finds a length where it reads one.
Alternating ==
    connects <= 1 =>
      \A s \in Sides : Framed(in[s], At(s), conn, mu[Other(s)], wr[mu[Other(s)]].pkt)

Ungarbled == connects <= 1 => \A x \in Readers : read[x].pkt # Garbled

Turns == Locked /\ Idle /\ ClientTurns /\ ServerTurns /\ Quiet

LEMMA CurrentTypes ==
    ASSUME Types, NEW s \in Sides
    PROVE  /\ Current(s) \in Readers /\ ReaderSide(Current(s)) = s
           /\ Handshake(s, 1) \in Readers /\ ReaderSide(Handshake(s, 1)) = s
           /\ At(s) \in Readings /\ Other(s) \in Sides /\ Other(Other(s)) = s /\ Other(s) # s
  <1>1. Handshake(s, 1) \in Readers /\ Plane(s) \in Readers
    BY ReaderSides, BaseServiceAssumption DEF Sides
  <1>2. Current(s) \in Readers /\ ReaderSide(Current(s)) = s /\ ReaderSide(Handshake(s, 1)) = s
    BY <1>1 DEF Current, Plane, Handshake, ReaderSide
  <1>3. At(s) \in Readings
    BY <1>2 DEF At, Types, ReaderTypes
  <1> QED
    BY <1>1, <1>2, <1>3 DEF Sides, Other

\* Only the current reader of a side reads.
LEMMA OneReader ==
    ASSUME Types, ClientTurns, ServerTurns, connects <= 1, NEW x \in Readers,
           read[x].pc \in {"len", "body"}, NEW s \in Sides, s = ReaderSide(x)
    PROVE  x = Current(s)
  <1>1. x # Plane(s) => ~Started(s) /\ x = Handshake(s, 1)
    <2>1. ASSUME x = Handshake(s, 1) PROVE ~Started(s)
      <3>1. s = "server" => ~Started(s)
        BY <2>1 DEF ServerTurns
      <3>2. ASSUME s = "client", Started(s) PROVE FALSE
        <4>1. done /\ connects = 1
          BY <3>2 DEF Types, ClientTypes, ClientTurns
        <4> QED
          BY <2>1, <3>2, <4>1 DEF ClientTurns
      <3> QED
        BY <3>1, <3>2 DEF Sides
    <2>2. ASSUME NEW n \in 2..MaxConnects PROVE x # Handshake("client", n)
      <3>1. n \in 1..MaxConnects /\ n > connects
        BY <2>2 DEF Types, ClientTypes
      <3> QED
        BY <3>1 DEF ClientTurns
    <2> QED
      BY <2>1, <2>2, ReaderNames
  <1>2. x = Plane(s) => Started(s)
    BY DEF Started
  <1> QED
    BY <1>1, <1>2 DEF Current

\* What is read: the length of a packet, its body, or the end of the stream.
LEMMA ReadsWhole ==
    ASSUME Types, ClientTurns, ServerTurns, Alternating, connects <= 1,
           NEW x \in Readers, ReadStep(x), NEW s \in Sides, s = ReaderSide(x)
    PROVE  /\ x = Current(s)
           /\ \/ ReadEnd(x)
              \/ /\ read[x].pc = "len" /\ in[s] # <<>> /\ Read(x, "body", Head(in[s])[2])
                 /\ in' = [in EXCEPT ![s] = Tail(@)]
              \/ /\ read[x].pc = "body" /\ in[s] # <<>> /\ Head(in[s]) = <<"body", read[x].pkt>>
                 /\ Read(x, "got", read[x].pkt) /\ in' = [in EXCEPT ![s] = Tail(@)]
  <1>1. read[x].pc \in {"len", "body"}
    BY DEF ReadStep, ReadLength, ReadBody, ReadEnd
  <1>2. x = Current(s)
    BY <1>1, OneReader
  <1>3. in[s] \in Seq(Parts) /\ read[x] \in Readings
    BY DEF Types, WireTypes, ReaderTypes
  <1>4. Framed(in[s], read[x], conn, mu[Other(s)], wr[mu[Other(s)]].pkt)
    BY <1>2 DEF Alternating, At
  <1>5. CASE ReadLength(x)
    <2>1. read[x].pc = "len" /\ in[s] # <<>>
      BY <1>5 DEF ReadLength
    <2>2. Head(in[s])[1] = "len"
      BY <1>3, <1>4, <2>1, FramedLength
    <2> QED
      BY <1>2, <1>5, <2>1, <2>2 DEF ReadLength
  <1>6. CASE ReadBody(x)
    <2>1. read[x].pc = "body" /\ in[s] # <<>>
      BY <1>3, <1>6 DEF ReadBody
    <2>2. Head(in[s]) = <<"body", read[x].pkt>>
      <3>1. PICK q \in Seq(Parts), rd \in Readings : q = in[s] /\ rd = read[x]
        BY <1>3
      <3>2. PICK c, m, b : c = conn /\ m = mu[Other(s)] /\ b = wr[m].pkt
        OBVIOUS
      <3>3. q # <<>> /\ rd.pc = "body" /\ Framed(q, rd, c, m, b)
        BY <1>4, <2>1, <3>1, <3>2
      <3>4. Head(q) = <<"body", rd.pkt>>
        BY <3>3, FramedBody
      <3> QED
        BY <3>1, <3>4
    <2>3. PICK h : h = Head(in[s]) /\ h[1] = "body" /\ h = <<"body", read[x].pkt>>
      BY <2>2
    <2>4. Read(x, "got", read[x].pkt) /\ in' = [in EXCEPT ![s] = Tail(@)]
      BY <1>6, <2>3 DEF ReadBody
    <2> QED
      BY <1>2, <2>1, <2>2, <2>4
  <1> QED
    BY <1>2, <1>5, <1>6 DEF ReadStep

LEMMA UngarbledKept ==
    ASSUME Types, ClientTurns, ServerTurns, Alternating, Ungarbled, [Next]_vars
    PROVE  Ungarbled'
  <1> SUFFICES ASSUME connects' <= 1, NEW x \in Readers
               PROVE  read'[x].pkt # Garbled
    BY DEF Ungarbled
  <1>1. connects <= 1
    <2>1. connects' = connects \/ connects' = connects + 1
      BY Frames DEF ConnectStep2, ConnectStep, Connect, ConnectWait, ConnectAck, ConnectFail
    <2> QED
      BY <2>1 DEF Types, ClientTypes
  <1>2. read[x].pkt # Garbled /\ read \in [Readers -> Readings] /\ Failed # Garbled
    BY <1>1, PacketTypes DEF Ungarbled, Types, ReaderTypes, Failed, Garbled, Packet
  <1>3. ASSUME ReadStep(x) PROVE read'[x].pkt # Garbled
    <2>1. PICK s \in Sides : s = ReaderSide(x)
      BY ReaderSides
    <2>2. in[s] # <<>> => Head(in[s])[2] \in Good
      <3>1. in[s] \in Seq(Parts)
        BY DEF Types, WireTypes
      <3>2. in[s] # <<>> => Head(in[s]) \in Parts
        BY <3>1
      <3> QED
        BY <3>2, PartTypes
    <2>3. ReadEnd(x) => Read(x, "got", Failed)
      BY DEF ReadEnd
    <2>4. \E to, p : Read(x, to, p) /\ p # Garbled
      BY <1>1, <1>2, <1>3, <2>1, <2>2, <2>3, ReadsWhole, PacketTypes
    <2> QED
      BY <1>2, <2>4 DEF Read
  <1>4. ASSUME NEW s \in Sides, EnsureStarted(s) PROVE read'[x].pkt = read[x].pkt
    BY <1>2, <1>4 DEF EnsureStarted, Readings
  <1>5. ConnectAck => EnsureStarted("client")
    BY DEF ConnectAck
  <1>6. ServeLoop => EnsureStarted("server") \/ read' = read
    BY DEF ServeLoop
  <1> QED
    BY <1>2, <1>3, <1>4, <1>5, <1>6, ReaderMoves DEF Sides

\* The reader of a side goes on to the next packet, or is succeeded by one that
\* does; nothing else happens to it outside ReadPacket.
LEMMA CurrentMoves ==
    ASSUME Types, ClientTurns, ServerTurns, connects <= 1, [Next]_vars, NEW s \in Sides
    PROVE  \/ ReadStep(Current(s)) /\ Current(s)' = Current(s)
           \/ At(s)' = At(s)
           \/ /\ At(s).pc # "body" /\ At(s)'.pc # "body"
              /\ Usable(At(s))' => Usable(At(s))
  <1>1. read \in [Readers -> Readings] /\ Current(s) \in Readers /\ Plane(s) \in Readers
    BY CurrentTypes, ReaderSides DEF Types, ReaderTypes
  <1>2. Failed # Ack /\ Failed # Hello
    BY PacketTypes
  <1>3. CASE Started(s)' <=> Started(s)
    <2>1. Current(s)' = Current(s)
      BY <1>3 DEF Current
    <2>2. ~(ConnectAck /\ Current(s) = Plane("client") /\ read[Current(s)].pc = "off")
      <3>1. Current(s) = Plane("client") /\ read[Current(s)].pc = "off" => s = "client" /\ FALSE
        <4>1. Current(s) = Plane("client") => s = "client" /\ Current(s) = Plane(s)
          BY CurrentTypes, ReaderSides DEF Sides
        <4>2. Current(s) = Plane(s) => Started(s)
          BY ReaderNames DEF Current
        <4> QED
          BY <4>1, <4>2 DEF Started
      <3> QED
        BY <3>1
    <2>3. ~(ServeLoop /\ Current(s) = Plane("server") /\ read[Current(s)].pc = "off")
      <3>1. Current(s) = Plane("server") => s = "server" /\ Current(s) = Plane(s)
        BY CurrentTypes, ReaderSides DEF Sides
      <3>2. Current(s) = Plane(s) => Started(s)
        BY ReaderNames DEF Current
      <3> QED
        BY <3>1, <3>2 DEF Started
    <2>4. ASSUME ConnectWait, Current(s) = Handshake("client", connects),
                 read'[Current(s)] = [pc |-> "len", pkt |-> Failed]
          PROVE  read[Current(s)].pc = "off" /\ read'[Current(s)].pc = "len"
      BY <2>4 DEF ConnectWait, ClientTurns
    <2> QED
      BY <1>1, <2>1, <2>2, <2>3, <2>4, ReaderMoves DEF At, Usable
  <1>4. CASE Started(s)' /\ ~Started(s)
    <2>1. Current(s) = Handshake(s, 1) /\ Current(s)' = Plane(s)
      BY <1>4 DEF Current
    <2>2. s = "client" => read[Current(s)].pc = "got" /\ read[Current(s)].pkt = Ack
      <3>1. s = "client" => ConnectAck
        BY <1>4, StartedKept
      <3>2. ConnectAck => connects = 1
        BY DEF ConnectAck, Types, ClientTypes
      <3>3. Ack # None
        BY PacketTypes
      <3> QED
        BY <2>1, <3>1, <3>2, <3>3 DEF ConnectAck, AckReceived, Handshaken
    <2>3. s = "server" => read[Current(s)].pc = "got" /\ read[Current(s)].pkt = Hello
      <3>1. s = "server" => srv \in {"ack", "next", "answer"}
        BY <1>4, StartedKept DEF ServeLoop
      <3> QED
        BY <2>1, <3>1 DEF ServerTurns
    <2>4. read[Plane(s)].pc = "off" /\ read'[Plane(s)].pc \in {"len", "body", "got", "done"}
      <3>1. read'[Plane(s)] \in Readings
        BY <1>1, ReaderTypesKept DEF ReaderTypes
      <3> QED
        BY <1>4, <3>1 DEF Started, Readings
    <2>5. read'[Plane(s)].pc # "body"
      BY <1>1, <2>4, ReaderMoves
    <2> QED
      BY <1>2, <2>1, <2>2, <2>3, <2>5 DEF At, Usable, Sides
  <1> QED
    BY <1>3, <1>4, StartedKept

LEMMA AlternatingKept ==
    ASSUME Types, Turns, Alternating, [Next]_vars
    PROVE  Alternating'
  <1> SUFFICES ASSUME connects' <= 1, NEW s \in Sides
               PROVE  Framed(in'[s], At(s)', conn', mu'[Other(s)], wr'[mu'[Other(s)]].pkt)
    BY DEF Alternating
  <1> USE DEF Turns
  <1>1. connects <= 1
    <2>1. connects' = connects \/ connects' = connects + 1
      BY Frames DEF ConnectStep2, ConnectStep, Connect, ConnectWait, ConnectAck, ConnectFail
    <2> QED
      BY <2>1 DEF Types, ClientTypes
  <1>2. /\ in \in [Sides -> Seq(Parts)] /\ in[s] \in Seq(Parts) /\ conn \in {"up", "down"}
        /\ wr \in [Writers -> Sendings] /\ mu \in [Sides -> Writers \cup {None}]
        /\ read \in [Readers -> Readings]
    BY DEF Types, WireTypes, WriterTypes, ReaderTypes
  <1>3. Framed(in[s], At(s), conn, mu[Other(s)], wr[mu[Other(s)]].pkt)
    BY <1>1 DEF Alternating
  <1>4. /\ Current(s) \in Readers /\ ReaderSide(Current(s)) = s /\ At(s) \in Readings
        /\ Other(s) \in Sides /\ Other(Other(s)) = s /\ Other(s) # s
    BY CurrentTypes
  <1>5. CASE WriteStep
    <2>1. PICK w \in Writers : WriteLength(w) \/ WriteBody(w)
      BY <1>5 DEF WriteStep
    <2>2. PICK o \in Sides : o = WriterSide(w)
      BY WriterSides
    <2>3. read' = read /\ conn' = conn
      BY <2>1 DEF WriteLength, WriteBody
    <2>4. At(s)' = At(s)
      BY <2>3 DEF At, Current, Started
    <2>5. CASE conn = "down"
      <3>1. in' = in
        BY <2>1, <2>5 DEF WriteLength, WriteBody
      <3> QED
        BY <1>3, <2>3, <2>4, <2>5, <3>1 DEF Framed
    <2>6. CASE conn = "up" /\ o # Other(s)
      <3>1. in'[s] = in[s] /\ mu'[Other(s)] = mu[Other(s)]
        <4>1. Other(o) # s /\ Other(o) \in Sides
          BY <1>4, <2>6 DEF Other, Sides
        <4> QED
          BY <1>2, <1>4, <2>1, <2>2, <2>6, <4>1 DEF WriteLength, WriteBody
      <3>2. mu[Other(s)] # w
        BY <1>4, <2>2, <2>6, WriterNames DEF Locked
      <3>3. wr'[mu[Other(s)]] = wr[mu[Other(s)]]
        <4>1. \E to \in {"failed", "body", "ok"} : wr' = [wr EXCEPT ![w].pc = to]
          BY <2>1 DEF WriteLength, WriteBody
        <4> QED
          BY <1>2, <3>2, <4>1
      <3> QED
        BY <1>3, <2>3, <2>4, <3>1, <3>3
    <2>7. CASE conn = "up" /\ o = Other(s)
      <3>1. Other(o) = s /\ w # None
        BY <1>4, <2>7, WriterNames
      <3>2. PICK b : b = wr[w].pkt
        OBVIOUS
      <3>3. b \in Good
        BY <2>1, <3>2 DEF Types, Whole, WriteLength, WriteBody
      <3>4. CASE WriteLength(w)
        <4>1. /\ in' = [in EXCEPT ![s] = Append(@, <<"len", b>>)] /\ mu[o] = None
              /\ mu' = [mu EXCEPT ![o] = w] /\ wr' = [wr EXCEPT ![w].pc = "body"]
          BY <2>2, <2>7, <3>1, <3>2, <3>4 DEF WriteLength, WriteMuFree
        <4>2. in'[s] = Append(in[s], <<"len", b>>)
          BY <1>2, <4>1
        <4>3. mu'[o] = w /\ wr'[w].pkt = b
          BY <1>2, <3>2, <4>1 DEF Sendings
        <4>4. Framed(Append(in[s], <<"len", b>>), At(s), "up", w, b)
          BY <1>2, <1>3, <2>7, <3>1, <3>3, <4>1, FramedWriteLength
        <4> QED
          BY <2>3, <2>4, <2>7, <4>2, <4>3, <4>4
      <3>5. CASE WriteBody(w)
        <4>1. /\ in' = [in EXCEPT ![s] = Append(@, <<"body", b>>)]
              /\ mu' = [mu EXCEPT ![o] = None] /\ wr[w].pc = "body"
          BY <2>2, <2>7, <3>1, <3>2, <3>5 DEF WriteBody
        <4>2. in'[s] = Append(in[s], <<"body", b>>) /\ mu'[o] = None
          BY <1>2, <4>1
        <4>3. mu[o] = w
          BY <2>2, <4>1 DEF Locked
        <4>4. Framed(Append(in[s], <<"body", b>>), At(s), "up", None, wr'[None].pkt)
          BY <1>2, <1>3, <2>7, <3>1, <3>2, <3>3, <4>3, FramedWriteBody
        <4> QED
          BY <2>3, <2>4, <2>7, <4>2, <4>4
      <3> QED
        BY <2>1, <3>4, <3>5
    <2> QED
      BY <1>2, <2>5, <2>6, <2>7
  <1>6. CASE ReadSomething
    <2>1. PICK x \in Readers : ReadStep(x)
      BY <1>6 DEF ReadSomething
    <2>2. PICK o \in Sides : o = ReaderSide(x)
      BY ReaderSides
    <2>3. UNCHANGED <<conn, mu, wr>>
      BY <2>1 DEF ReadStep, ReadLength, ReadBody, ReadEnd
    <2>4. /\ x = Current(o)
          /\ \/ ReadEnd(x)
             \/ /\ read[x].pc = "len" /\ in[o] # <<>> /\ Read(x, "body", Head(in[o])[2])
                /\ in' = [in EXCEPT ![o] = Tail(@)]
             \/ /\ read[x].pc = "body" /\ in[o] # <<>> /\ Head(in[o]) = <<"body", read[x].pkt>>
                /\ Read(x, "got", read[x].pkt) /\ in' = [in EXCEPT ![o] = Tail(@)]
      BY <1>1, <2>1, <2>2, ReadsWhole
    <2>5. ReadEnd(x) => in' = in /\ Read(x, "got", Failed)
      BY DEF ReadEnd
    <2>6. PICK to, p : to \in {"body", "got"} /\ Read(x, to, p)
      BY <2>4, <2>5
    <2>7. read[x].pc \in {"len", "body"}
      BY <2>1 DEF ReadStep, ReadLength, ReadBody, ReadEnd
    <2>8. Current(s)' = Current(s)
      <3>1. Started(s)' <=> Started(s)
        BY <1>2, <2>6, <2>7, ReaderSides DEF Read, Started
      <3> QED
        BY <3>1 DEF Current
    <2>9. CASE o # s
      <3>1. x # Current(s)
        BY <1>4, <2>2, <2>9
      <3>2. in'[s] = in[s]
        BY <1>2, <2>4, <2>5, <2>9
      <3>3. At(s)' = At(s)
        BY <1>2, <1>4, <2>6, <2>8, <3>1 DEF At, Read
      <3> QED
        BY <1>3, <2>3, <3>2, <3>3
    <2>10. CASE o = s
      <3> DEFINE m == mu[Other(s)]
                 b == wr[m].pkt
      <3>1. x = Current(s) /\ At(s) = read[x] /\ At(s)' = [pc |-> to, pkt |-> p]
        BY <1>2, <2>4, <2>6, <2>8, <2>10 DEF At, Read
      <3>2. ASSUME ReadEnd(x) PROVE ~Usable(At(s)')
        <4>1. At(s)' = [pc |-> "got", pkt |-> Failed]
          BY <1>2, <2>5, <2>8, <3>1, <3>2 DEF At, Read
        <4> QED
          BY <4>1 DEF Usable
      <3>3. ASSUME read[x].pc = "len", in[s] # <<>>, Read(x, "body", Head(in[s])[2]),
                   in' = [in EXCEPT ![s] = Tail(@)]
            PROVE  Framed(in'[s], At(s)', conn, m, b)
        <4>1. /\ in'[s] = Tail(in[s])
              /\ At(s)' = [pc |-> "body", pkt |-> Head(in[s])[2]]
          BY <1>2, <2>8, <3>1, <3>3 DEF At, Read
        <4>2. Framed(Tail(in[s]), [pc |-> "body", pkt |-> Head(in[s])[2]], conn, m, b)
          <5>1. PICK rd \in Readings : rd = At(s)
            BY <1>4
          <5> QED
            BY <1>2, <1>3, <3>1, <3>3, <5>1, FramedLength
        <4> QED
          BY <4>1, <4>2
      <3>4. ASSUME read[x].pc = "body", in[s] # <<>>, Read(x, "got", read[x].pkt),
                   in' = [in EXCEPT ![s] = Tail(@)]
            PROVE  Framed(in'[s], At(s)', conn, m, b)
        <4>1. /\ in'[s] = Tail(in[s])
              /\ At(s)' = [pc |-> "got", pkt |-> At(s).pkt]
          BY <1>2, <2>8, <3>1, <3>4 DEF At, Read
        <4>2. Framed(Tail(in[s]), [pc |-> "got", pkt |-> At(s).pkt], conn, m, b)
          <5>1. PICK rd \in Readings : rd = At(s)
            BY <1>4
          <5> QED
            BY <1>2, <1>3, <3>1, <3>4, <5>1, FramedBody
        <4> QED
          BY <4>1, <4>2
      <3> QED
        BY <2>3, <2>4, <2>10, <3>2, <3>3, <3>4 DEF Framed
    <2> QED
      BY <2>9, <2>10
  <1>7. CASE ~WriteStep /\ ~ReadSomething
    <2>1. in'[s] = in[s] /\ mu' = mu
      BY <1>7, WriterEffects DEF Starts, Rests
    <2>2. mu[Other(s)] # None => wr'[mu[Other(s)]] = wr[mu[Other(s)]]
      <3> SUFFICES ASSUME mu[Other(s)] # None
                   PROVE  wr'[mu[Other(s)]] = wr[mu[Other(s)]]
        OBVIOUS
      <3>1. PICK w \in Writers : w = mu[Other(s)] /\ WriterSide(w) = Other(s)
        BY <1>2, <1>4 DEF Locked
      <3>2. wr[w].pc = "body"
        BY <1>4, <3>1 DEF Locked
      <3>3. ASSUME NEW v, NEW p, Starts(v, p), wr[v].pc # "body" PROVE wr'[w] = wr[w]
        BY <1>2, <3>2, <3>3 DEF Starts, StartWrite
      <3>4. ASSUME NEW v, Rests(v) PROVE wr'[w] = wr[w]
        BY <1>2, <3>2, <3>4 DEF Rests
      <3>5. Connect => wr["connect"].pc # "body"
        BY DEF Connect, Idle
      <3>6. Accept \/ Serve => wr["serve"].pc # "body"
        BY DEF Accept, Serve, Idle
      <3>7. SendEvent => wr["event"].pc # "body"
        BY DEF SendEvent
      <3>8. \A r \in Reqs : SendRequest(r) => wr[r].pc # "body"
        BY DEF SendRequest, Idle
      <3>9. wr'[w] = wr[w]
        BY <1>7, <3>3, <3>4, <3>5, <3>6, <3>7, <3>8, WriterEffects
      <3> QED
        BY <3>1, <3>9
    <2>3. conn' = conn \/ conn' = "down"
      BY Frames DEF NetStep, ConnFails, StreamError, CloseMux, MuxClose, ServerClose
    <2>4. Framed(in[s], At(s)', conn, mu[Other(s)], wr[mu[Other(s)]].pkt)
      <3>1. ~ReadStep(Current(s))
        BY <1>4, <1>7 DEF ReadSomething
      <3>2. CASE At(s)' = At(s)
        BY <1>3, <3>2
      <3>3. CASE At(s).pc # "body" /\ At(s)'.pc # "body" /\ Usable(At(s))
        BY <1>2, <1>3, <3>3, FramedBetween
      <3>4. CASE ~Usable(At(s)')
        BY <3>4 DEF Framed
      <3>5. Usable(At(s))' <=> Usable(At(s)')
        BY DEF Usable
      <3> QED
        BY <1>1, <3>1, <3>2, <3>3, <3>4, <3>5, CurrentMoves
    <2>5. PICK q, rd : q = in[s] /\ rd = At(s)'
      OBVIOUS
    <2>6. Framed(q, rd, conn', mu[Other(s)], wr'[mu[Other(s)]].pkt)
      <3>1. Framed(q, rd, conn, mu[Other(s)], wr[mu[Other(s)]].pkt)
        BY <2>4, <2>5
      <3> QED
        BY <2>2, <2>3, <3>1 DEF Framed
    <2> QED
      BY <2>1, <2>5, <2>6
  <1> QED
    BY <1>5, <1>6, <1>7

-----------------------------------------------------------------------------
(* Bodies.                                                                 *)

\* The bodies among the parts q, the first of which is one if f = 1.
Bodies(q, f) == [k \in 1..((Len(q) + f) \div 2) |-> q[2 * k - f][2]]

LEMMA BodiesType ==
    ASSUME NEW q \in Seq(Parts), NEW f \in {0, 1}, NEW n \in Nat, n = (Len(q) + f) \div 2
    PROVE  /\ Bodies(q, f) \in Seq(Packets) /\ Len(Bodies(q, f)) = n
           /\ \A k \in 1..n : Bodies(q, f)[k] = q[2 * k - f][2]
  <1>1. Len(q) \in Nat
    OBVIOUS
  <1>2. ASSUME NEW k \in 1..n PROVE q[2 * k - f][2] \in Packets
    <2>1. 2 * k - f \in 1..Len(q)
      BY <1>1, <1>2
    <2>2. q[2 * k - f] \in Parts
      BY <2>1
    <2> QED
      BY <2>2, PartTypes
  <1>4. Bodies(q, f) \in [1..n -> Packets]
    BY <1>2 DEF Bodies
  <1>5. Bodies(q, f) \in Seq(Packets) /\ Len(Bodies(q, f)) = n
    BY <1>4
  <1> QED
    BY <1>5 DEF Bodies

\* Two sequences of packets that agree are one.
LEMMA SameBodies ==
    ASSUME NEW q \in Seq(Packets), NEW r \in Seq(Packets), NEW n \in Nat, Len(q) = n, Len(r) = n,
           \A k \in 1..n : q[k] = r[k]
    PROVE  q = r
  BY SeqEqual

LEMMA BodiesTail0 ==
    ASSUME NEW q \in Seq(Parts), q # <<>>
    PROVE  Bodies(Tail(q), 1) = Bodies(q, 0)
  <1>1. PICK t : t = Tail(q)
    OBVIOUS
  <1>2. /\ t \in Seq(Parts) /\ Len(t) = Len(q) - 1 /\ Len(q) \in Nat /\ Len(q) > 0
        /\ \A i \in 1..Len(q) - 1 : t[i] = q[i + 1]
    BY <1>1, TailParts
  <1>3. PICK n \in Nat : n = (Len(q) + 0) \div 2 /\ n = (Len(t) + 1) \div 2 /\ 2 * n <= Len(q)
    <2>1. (Len(q) + 0) \div 2 \in Nat /\ Len(t) + 1 = Len(q) + 0 /\ 2 * ((Len(q) + 0) \div 2) <= Len(q)
      BY <1>2
    <2> QED
      BY <2>1
  <1>4. PICK b \in Seq(Packets) : b = Bodies(q, 0) /\ Len(b) = n /\ \A k \in 1..n : b[k] = q[2 * k - 0][2]
    BY <1>3, BodiesType
  <1>5. PICK c \in Seq(Packets) : c = Bodies(t, 1) /\ Len(c) = n /\ \A k \in 1..n : c[k] = t[2 * k - 1][2]
    BY <1>2, <1>3, BodiesType
  <1>6. ASSUME NEW k \in 1..n PROVE b[k] = c[k]
    <2>1. PICK i \in Nat : i = 2 * k - 1 /\ i \in 1..Len(q) - 1 /\ i + 1 = 2 * k - 0
      BY <1>2, <1>3, <1>6
    <2>2. t[i] = q[i + 1]
      BY <1>2, <2>1
    <2> QED
      BY <1>4, <1>5, <1>6, <2>1, <2>2
  <1>7. b = c
    BY <1>4, <1>5, <1>6, SameBodies
  <1> QED
    BY <1>1, <1>4, <1>5, <1>7

LEMMA BodiesTail1 ==
    ASSUME NEW q \in Seq(Parts), q # <<>>
    PROVE  Bodies(q, 1) = <<q[1][2]>> \o Bodies(Tail(q), 0)
  <1>1. PICK t : t = Tail(q)
    OBVIOUS
  <1>2. /\ t \in Seq(Parts) /\ Len(t) = Len(q) - 1 /\ Len(q) \in Nat /\ Len(q) > 0
        /\ \A i \in 1..Len(q) - 1 : t[i] = q[i + 1]
        /\ q[1][2] \in Packets
    BY <1>1, TailParts, PartTypes
  <1>3. PICK n \in Nat : n = (Len(t) + 0) \div 2 /\ n + 1 = (Len(q) + 1) \div 2 /\ 2 * n <= Len(q) - 1
    <2>1. /\ (Len(t) + 0) \div 2 \in Nat /\ (Len(q) + 1) \div 2 = (Len(t) + 0) \div 2 + 1
          /\ 2 * ((Len(t) + 0) \div 2) <= Len(q) - 1
      BY <1>2
    <2> QED
      BY <2>1
  <1>4. PICK b \in Seq(Packets) : b = Bodies(t, 0) /\ Len(b) = n /\ \A k \in 1..n : b[k] = t[2 * k - 0][2]
    BY <1>2, <1>3, BodiesType
  <1>5. PICK c \in Seq(Packets) : /\ c = Bodies(q, 1) /\ Len(c) = n + 1
                                  /\ \A k \in 1..n + 1 : c[k] = q[2 * k - 1][2]
    <2>1. PICK m \in Nat : m = n + 1 /\ m = (Len(q) + 1) \div 2
      BY <1>3
    <2>2. /\ Bodies(q, 1) \in Seq(Packets) /\ Len(Bodies(q, 1)) = m
          /\ \A k \in 1..m : Bodies(q, 1)[k] = q[2 * k - 1][2]
      BY <2>1, BodiesType
    <2> QED
      BY <2>1, <2>2
  <1>6. PICK a : a \in Seq(Packets) /\ a = <<q[1][2]>> /\ Len(a) = 1 /\ a[1] = q[1][2]
    <2>1. PICK p \in Packets : p = q[1][2]
      BY <1>2
    <2>2. <<p>> \in Seq(Packets) /\ Len(<<p>>) = 1 /\ <<p>>[1] = p
      OBVIOUS
    <2> QED
      BY <2>1, <2>2
  <1>7. PICK d \in Seq(Packets) : /\ d = a \o b /\ Len(d) = n + 1 /\ d[1] = a[1]
                                  /\ \A k \in 2..n + 1 : d[k] = b[k - 1]
    <2>1. /\ a \o b \in Seq(Packets) /\ Len(a \o b) = Len(a) + Len(b)
          /\ \A i \in 1..Len(a) + Len(b) : (a \o b)[i] = IF i <= Len(a) THEN a[i] ELSE b[i - Len(a)]
      BY <1>6, ConcatProperties
    <2>2. Len(a) + Len(b) = n + 1 /\ Len(a) = 1
      BY <1>4, <1>6
    <2>3. PICK d : d = a \o b
      OBVIOUS
    <2>4. d \in Seq(Packets) /\ Len(d) = n + 1 /\ \A i \in 1..n + 1 : d[i] = IF i <= 1 THEN a[i] ELSE b[i - 1]
      BY <1>6, <2>1, <2>2, <2>3
    <2>5. d[1] = a[1]
      BY <2>4
    <2>6. \A k \in 2..n + 1 : d[k] = b[k - 1]
      BY <2>4
    <2> QED
      BY <2>3, <2>4, <2>5, <2>6
  <1>8. ASSUME NEW k \in 1..n + 1 PROVE c[k] = d[k]
    <2>1. CASE k = 1
      <3>1. 2 * 1 - 1 = 1 /\ 1 \in 1..n + 1
        OBVIOUS
      <3>2. c[1] = q[1][2]
        BY <1>5, <3>1
      <3> QED
        BY <1>6, <1>7, <2>1, <3>2
    <2>2. CASE k # 1
      <3>1. PICK i \in 1..n : i = k - 1 /\ k \in 2..n + 1
        BY <1>8, <2>2
      <3>2. PICK j \in 1..Len(q) - 1 : j = 2 * i - 0 /\ j + 1 = 2 * k - 1
        BY <1>2, <1>3, <3>1
      <3>3. t[j] = q[j + 1]
        BY <1>2, <3>2
      <3>4. b[i] = t[j][2]
        BY <1>4, <3>1, <3>2
      <3>5. c[k] = q[j + 1][2]
        BY <1>5, <1>8, <3>2
      <3>6. d[k] = b[i]
        BY <1>7, <3>1
      <3> QED
        BY <3>3, <3>4, <3>5, <3>6
    <2> QED
      BY <2>1, <2>2
  <1>9. c = d
    <2>1. n + 1 \in Nat
      OBVIOUS
    <2> QED
      BY <1>5, <1>7, <1>8, <2>1, SameBodies
  <1> QED
    BY <1>1, <1>4, <1>5, <1>6, <1>7, <1>9

LEMMA BodiesAppend ==
    ASSUME NEW q \in Seq(Parts), NEW f \in {0, 1}, NEW part \in Parts
    PROVE  /\ (Len(q) + f) % 2 = 0 => Bodies(Append(q, part), f) = Bodies(q, f)
           /\ (Len(q) + f) % 2 = 1 => Bodies(Append(q, part), f) = Append(Bodies(q, f), part[2])
  <1>1. PICK r : r = Append(q, part)
    OBVIOUS
  <1>2. /\ r \in Seq(Parts) /\ Len(r) = Len(q) + 1 /\ r[Len(q) + 1] = part /\ Len(q) \in Nat
        /\ \A i \in 1..Len(q) : r[i] = q[i]
    BY <1>1
  <1>3. PICK n \in Nat : n = (Len(q) + f) \div 2 /\ \A k \in 1..n : 2 * k - f \in 1..Len(q)
    <2>1. PICK n : n = (Len(q) + f) \div 2
      OBVIOUS
    <2>2. n \in Nat /\ \A k \in 1..n : 2 * k - f \in 1..Len(q)
      BY <1>2, <2>1
    <2> QED
      BY <2>1, <2>2
  <1>4. PICK b \in Seq(Packets) : b = Bodies(q, f) /\ Len(b) = n /\ \A k \in 1..n : b[k] = q[2 * k - f][2]
    BY <1>3, BodiesType
  <1>5. ASSUME NEW k \in 1..n PROVE r[2 * k - f] = q[2 * k - f]
    BY <1>2, <1>3, <1>5
  <1>6. ASSUME (Len(q) + f) % 2 = 0 PROVE Bodies(r, f) = b
    <2>1. n = (Len(r) + f) \div 2
      BY <1>2, <1>3, <1>6
    <2>2. PICK c \in Seq(Packets) : c = Bodies(r, f) /\ Len(c) = n /\ \A k \in 1..n : c[k] = r[2 * k - f][2]
      BY <1>2, <2>1, BodiesType
    <2>3. \A k \in 1..n : c[k] = b[k]
      BY <1>4, <1>5, <2>2
    <2> QED
      BY <1>4, <2>2, <2>3, SameBodies
  <1>7. ASSUME (Len(q) + f) % 2 = 1 PROVE Bodies(r, f) = Append(b, part[2])
    <2>1. n + 1 = (Len(r) + f) \div 2 /\ 2 * (n + 1) - f = Len(q) + 1 /\ n + 1 \in Nat /\ n + 1 \in 1..n + 1
      BY <1>2, <1>3, <1>7
    <2>2. PICK c \in Seq(Packets) : /\ c = Bodies(r, f) /\ Len(c) = n + 1
                                    /\ \A k \in 1..n + 1 : c[k] = r[2 * k - f][2]
      BY <1>2, <2>1, BodiesType
    <2>3. PICK p \in Packets : p = part[2]
      BY PartTypes
    <2>4. PICK d \in Seq(Packets) : /\ d = Append(b, p) /\ Len(d) = n + 1 /\ d[n + 1] = p
                                    /\ \A k \in 1..n : d[k] = b[k]
      <3>1. /\ Append(b, p) \in Seq(Packets) /\ Len(Append(b, p)) = Len(b) + 1
            /\ Append(b, p)[Len(b) + 1] = p /\ \A k \in 1..Len(b) : Append(b, p)[k] = b[k]
        BY AppendProperties
      <3> QED
        BY <1>4, <3>1
    <2>5. c[n + 1] = p
      <3>1. c[n + 1] = r[2 * (n + 1) - f][2]
        BY <2>1, <2>2
      <3> QED
        BY <1>2, <2>1, <2>3, <3>1
    <2>6. ASSUME NEW k \in 1..n + 1 PROVE c[k] = d[k]
      <3>1. CASE k \in 1..n
        <4>1. c[k] = r[2 * k - f][2]
          BY <2>2, <2>6
        <4>2. b[k] = q[2 * k - f][2]
          BY <1>4, <3>1
        <4>3. d[k] = b[k]
          BY <2>4, <3>1
        <4> QED
          BY <1>5, <3>1, <4>1, <4>2, <4>3
      <3>2. CASE k = n + 1
        BY <2>4, <2>5, <3>2
      <3> QED
        BY <3>1, <3>2
    <2>7. c = d
      BY <2>1, <2>2, <2>4, <2>6, SameBodies
    <2> QED
      BY <2>2, <2>3, <2>4, <2>7
  <1> QED
    BY <1>1, <1>4, <1>6, <1>7

\* The bodies among the parts are what their reader will find.
LEMMA FramedBodies ==
    ASSUME NEW q \in Seq(Parts), NEW rd, Usable(rd), NEW c, NEW m, NEW b0, Framed(q, rd, c, m, b0)
    PROVE  BodiesOf(q) = Bodies(q, Odd(rd)) /\ BodiesOf(q) \in Seq(Packets)
  <1>1. PICK f \in {0, 1} : f = Odd(rd)
    BY DEF Odd
  <1>2. Order(q, f, rd.pkt)
    BY <1>1 DEF Framed
  <1>3. PICK odd \in {0, 1} : odd = IF q # <<>> /\ q[1][1] = "body" THEN 1 ELSE 0
    OBVIOUS
  <1>4. BodiesOf(q) = [k \in 1..((Len(q) + odd) \div 2) |-> q[2 * k - odd][2]]
    BY <1>3 DEF BodiesOf
  <1>5. ASSUME q # <<>> PROVE BodiesOf(q) = Bodies(q, f)
    <2>1. Len(q) \in Nat /\ Len(q) > 0
      BY <1>5
    <2>2. q[1][1] = IF (1 + f) % 2 = 1 THEN "len" ELSE "body"
      BY <1>2, <2>1 DEF Order
    <2>3. odd = f
      BY <1>3, <1>5, <2>2
    <2> QED
      BY <1>4, <2>3 DEF Bodies
  <1>6. ASSUME q = <<>> PROVE BodiesOf(q) = Bodies(q, f)
    <2>1. (Len(q) + odd) \div 2 = 0 /\ (Len(q) + f) \div 2 = 0
      BY <1>6
    <2>2. BodiesOf(q) = <<>> /\ Bodies(q, f) = <<>>
      BY <1>4, <2>1 DEF Bodies
    <2> QED
      BY <2>2
  <1>7. Bodies(q, f) \in Seq(Packets)
    <2>1. PICK n \in Nat : n = (Len(q) + f) \div 2
      OBVIOUS
    <2> QED
      BY <2>1, BodiesType
  <1> QED
    BY <1>1, <1>5, <1>6, <1>7

-----------------------------------------------------------------------------
(***************************************************************************)
(* Packets on their way to a side: with the dispatcher, in the channel,    *)
(* with the control plane, with the handshake, among the parts.            *)
(***************************************************************************)
Rows == Seq(Packets)
Nil == <<>>
One(x) == <<x>>
Cat(a, b) == a \o b
Line(a, e, p, h, b) == Cat(Cat(Cat(Cat(a, e), p), h), b)

LEMMA Single ==
    ASSUME NEW x \in Packets
    PROVE  <<x>> \in Seq(Packets) /\ Len(<<x>>) = 1 /\ <<x>>[1] = x
  OBVIOUS

LEMMA FirstOut ==
    ASSUME NEW x \in Packets, NEW r \in Seq(Packets)
    PROVE  /\ <<x>> \o r \in Seq(Packets) /\ <<x>> \o r # <<>>
           /\ Head(<<x>> \o r) = x /\ Tail(<<x>> \o r) = r
  <1>1. PICK a : a = <<x>> /\ a \in Seq(Packets) /\ Len(a) = 1 /\ a[1] = x
    BY Single
  <1>2. /\ a \o r \in Seq(Packets) /\ Len(a \o r) = Len(a) + Len(r)
        /\ \A i \in 1..Len(a) + Len(r) : (a \o r)[i] = IF i <= Len(a) THEN a[i] ELSE r[i - Len(a)]
    BY <1>1, ConcatProperties
  <1>3. PICK c : c = a \o r
    OBVIOUS
  <1>4. c \in Seq(Packets) /\ Len(c) = 1 + Len(r) /\ c[1] = x /\ Len(r) \in Nat
    BY <1>1, <1>2, <1>3
  <1>5. ASSUME NEW i \in 1..Len(r) PROVE c[i + 1] = r[i]
    <2>1. PICK j \in Nat : j = i + 1 /\ j \in 1..1 + Len(r) /\ j - 1 = i /\ ~(j <= 1)
      BY <1>4, <1>5
    <2> QED
      BY <1>1, <1>2, <1>3, <2>1
  <1>6. c # <<>> /\ Head(c) = x
    BY <1>4
  <1>7. PICK t : t = Tail(c)
    OBVIOUS
  <1>8. t \in Seq(Packets) /\ Len(t) = Len(r) /\ \A i \in 1..Len(r) : t[i] = c[i + 1]
    BY <1>4, <1>6, <1>7
  <1>9. t = r
    BY <1>4, <1>5, <1>8, SameBodies
  <1> QED
    BY <1>1, <1>3, <1>4, <1>6, <1>7, <1>9

LEMMA FirstRest ==
    ASSUME NEW r \in Seq(Packets), r # <<>>
    PROVE  r = <<Head(r)>> \o Tail(r) /\ Head(r) \in Packets /\ Tail(r) \in Seq(Packets)
  <1>1. PICK x, t : /\ x = Head(r) /\ t = Tail(r) /\ x \in Packets /\ t \in Seq(Packets)
                    /\ Len(t) = Len(r) - 1 /\ Len(r) \in Nat /\ x = r[1]
                    /\ \A i \in 1..Len(r) - 1 : t[i] = r[i + 1]
    <2>1. /\ Head(r) \in Packets /\ Tail(r) \in Seq(Packets) /\ Len(Tail(r)) = Len(r) - 1
          /\ \A i \in 1..Len(Tail(r)) : Tail(r)[i] = r[i + 1]
      BY HeadTailProperties
    <2>2. Head(r) = r[1] /\ Len(r) \in Nat
      OBVIOUS
    <2> QED
      BY <2>1, <2>2
  <1>2. PICK a : a = <<x>> /\ a \in Seq(Packets) /\ Len(a) = 1 /\ a[1] = x
    BY <1>1, Single
  <1>3. PICK c : c = a \o t /\ c \in Seq(Packets) /\ Len(c) = Len(r)
    BY <1>1, <1>2, ConcatProperties
  <1>4. \A i \in 1..Len(r) : c[i] = IF i <= 1 THEN x ELSE t[i - 1]
    <2>1. \A i \in 1..Len(a) + Len(t) : (a \o t)[i] = IF i <= Len(a) THEN a[i] ELSE t[i - Len(a)]
      BY <1>1, <1>2, ConcatProperties
    <2> QED
      BY <1>1, <1>2, <1>3, <2>1
  <1>5. ASSUME NEW i \in 1..Len(r) PROVE c[i] = r[i]
    <2>1. CASE i = 1
      BY <1>1, <1>4, <2>1
    <2>2. CASE i # 1
      <3>1. PICK j \in 1..Len(r) - 1 : j = i - 1 /\ j + 1 = i
        BY <2>2
      <3> QED
        BY <1>1, <1>4, <2>2, <3>1
    <2> QED
      BY <2>1, <2>2
  <1>6. c = r
    BY <1>1, <1>3, <1>5, SameBodies
  <1> QED
    BY <1>1, <1>2, <1>3, <1>6

LEMMA RowOne == Nil \in Rows /\ \A x \in Packets : One(x) \in Rows
  BY Single DEF Rows, One, Nil

LEMMA CatRows ==
    ASSUME NEW a \in Rows, NEW b \in Rows
    PROVE  Cat(a, b) \in Rows
  BY ConcatProperties DEF Rows, Cat

LEMMA CatNil ==
    ASSUME NEW a \in Rows
    PROVE  Cat(Nil, a) = a /\ Cat(a, Nil) = a
  BY ConcatEmptySeq DEF Rows, Cat, Nil

LEMMA CatAssoc ==
    ASSUME NEW a \in Rows, NEW b \in Rows, NEW c \in Rows
    PROVE  Cat(Cat(a, b), c) = Cat(a, Cat(b, c))
  BY ConcatAssociative DEF Rows, Cat

LEMMA CatAppend ==
    ASSUME NEW a \in Rows, NEW x \in Packets
    PROVE  Append(a, x) = Cat(a, One(x)) /\ Append(a, x) \in Rows
  BY AppendIsConcat, AppendProperties DEF Rows, Cat, One

LEMMA CatFirst ==
    ASSUME NEW r \in Rows
    PROVE  /\ \A x \in Packets : Cat(One(x), r) # Nil /\ Tail(Cat(One(x), r)) = r
           /\ r # Nil => /\ Head(r) \in Packets /\ Tail(r) \in Rows
                        /\ r = Cat(One(Head(r)), Tail(r))
  BY FirstOut, FirstRest DEF Rows, Cat, One, Nil

LEMMA LineEnds ==
    ASSUME NEW a \in Rows, NEW e \in Rows, NEW p \in Rows, NEW h \in Rows, NEW b \in Rows
    PROVE  /\ Line(a, e, p, h, b) = Cat(a, Cat(e, Cat(p, Cat(h, b))))
           /\ Line(a, e, p, h, b) \in Rows
  <1>1. PICK u \in Rows : u = Cat(h, b)
    BY CatRows
  <1>2. PICK v \in Rows : v = Cat(p, u)
    BY CatRows
  <1>3. PICK w \in Rows : w = Cat(e, v)
    BY CatRows
  <1>4. PICK c \in Rows : c = Cat(a, e)
    BY CatRows
  <1>5. PICK d \in Rows : d = Cat(c, p)
    BY CatRows
  <1>6. Cat(Cat(d, h), b) = Cat(d, u)
    BY <1>1, CatAssoc
  <1>7. Cat(d, u) = Cat(c, v)
    BY <1>2, <1>5, CatAssoc
  <1>8. Cat(c, v) = Cat(a, w)
    BY <1>3, <1>4, CatAssoc
  <1>9. Line(a, e, p, h, b) = Cat(a, w)
    BY <1>4, <1>5, <1>6, <1>7, <1>8 DEF Line
  <1>10. Cat(a, w) \in Rows
    BY CatRows
  <1> QED
    BY <1>1, <1>2, <1>3, <1>9, <1>10

\* Places that are empty.
LEMMA LineNils ==
    ASSUME NEW a \in Rows, NEW e \in Rows, NEW p \in Rows, NEW h \in Rows, NEW b \in Rows
    PROVE  /\ Line(Nil, e, p, h, b) = Cat(e, Cat(p, Cat(h, b)))
           /\ Line(a, e, Nil, h, b) = Cat(a, Cat(e, Cat(h, b)))
           /\ Line(a, e, p, Nil, b) = Cat(a, Cat(e, Cat(p, b)))
  <1>1. PICK u \in Rows : u = Cat(h, b)
    BY CatRows
  <1>2. PICK v \in Rows : v = Cat(p, u)
    BY CatRows
  <1>3. PICK w \in Rows : w = Cat(e, v)
    BY CatRows
  <1>4. Nil \in Rows
    BY RowOne
  <1>5. Line(Nil, e, p, h, b) = Cat(Nil, w) /\ Cat(Nil, w) = w
    BY <1>1, <1>2, <1>3, <1>4, CatNil, LineEnds
  <1>6. Line(a, e, Nil, h, b) = Cat(a, Cat(e, Cat(Nil, u))) /\ Cat(Nil, u) = u
    BY <1>1, <1>4, CatNil, LineEnds
  <1>7. Line(a, e, p, Nil, b) = Cat(a, Cat(e, Cat(p, Cat(Nil, b)))) /\ Cat(Nil, b) = b
    BY <1>4, CatNil, LineEnds
  <1> QED
    BY <1>1, <1>2, <1>3, <1>5, <1>6, <1>7

\* The control plane puts its packet into the channel.
LEMMA LineSend ==
    ASSUME NEW a \in Rows, NEW e \in Rows, NEW x \in Packets, NEW h \in Rows, NEW b \in Rows
    PROVE  Line(a, Append(e, x), Nil, h, b) = Line(a, e, One(x), h, b)
  <1>1. PICK y \in Rows : y = One(x)
    BY RowOne
  <1>2. PICK z \in Rows : z = Append(e, x) /\ z = Cat(e, y)
    BY <1>1, CatAppend
  <1>3. PICK u \in Rows : u = Cat(h, b)
    BY CatRows
  <1>4. Line(a, z, Nil, h, b) = Cat(a, Cat(z, u))
    BY <1>3, LineNils
  <1>5. Line(a, e, y, h, b) = Cat(a, Cat(e, Cat(y, u)))
    BY <1>3, LineEnds
  <1>6. Cat(z, u) = Cat(e, Cat(y, u))
    BY <1>2, CatAssoc
  <1> QED
    BY <1>1, <1>2, <1>4, <1>5, <1>6

\* The dispatcher takes the first packet from the channel.
LEMMA LineTake ==
    ASSUME NEW e \in Rows, e # Nil, NEW p \in Rows, NEW h \in Rows, NEW b \in Rows
    PROVE  /\ Line(One(Head(e)), Tail(e), p, h, b) = Line(Nil, e, p, h, b)
           /\ Line(Nil, e, p, h, b) # Nil
           /\ Line(Nil, Tail(e), p, h, b) = Tail(Line(Nil, e, p, h, b))
  <1>1. PICK x \in Packets, t \in Rows : x = Head(e) /\ t = Tail(e) /\ e = Cat(One(x), t)
    BY CatFirst
  <1>2. PICK y \in Rows : y = One(x)
    BY RowOne
  <1>3. PICK u \in Rows : u = Cat(h, b)
    BY CatRows
  <1>4. PICK r \in Rows : r = Cat(p, u)
    BY CatRows
  <1>5. PICK w \in Rows : w = Cat(t, r)
    BY CatRows
  <1>6. Line(Nil, e, p, h, b) = Cat(e, r) /\ Line(Nil, t, p, h, b) = w
    <2>1. Line(Nil, e, p, h, b) = Cat(e, Cat(p, Cat(h, b)))
      BY LineNils
    <2>2. Line(Nil, t, p, h, b) = Cat(t, Cat(p, Cat(h, b)))
      BY LineNils
    <2> QED
      BY <1>3, <1>4, <1>5, <2>1, <2>2
  <1>7. Line(y, t, p, h, b) = Cat(y, w)
    BY <1>3, <1>4, <1>5, LineEnds
  <1>8. Cat(e, r) = Cat(y, w)
    <2>1. Cat(Cat(y, t), r) = Cat(y, Cat(t, r))
      BY CatAssoc
    <2>2. e = Cat(y, t)
      BY <1>1, <1>2
    <2> QED
      BY <1>5, <2>1, <2>2
  <1>9. Cat(y, w) # Nil /\ Tail(Cat(y, w)) = w
    BY <1>2, CatFirst
  <1> QED
    BY <1>1, <1>2, <1>6, <1>7, <1>8, <1>9

\* The first packet has been dealt with.
LEMMA LineDeal ==
    ASSUME NEW x \in Packets, NEW e \in Rows, NEW p \in Rows, NEW h \in Rows, NEW b \in Rows
    PROVE  /\ Line(One(x), e, p, h, b) # Nil
           /\ Line(Nil, e, p, h, b) = Tail(Line(One(x), e, p, h, b))
  <1>1. PICK y \in Rows : y = One(x)
    BY RowOne
  <1>2. PICK u \in Rows : u = Cat(h, b)
    BY CatRows
  <1>3. PICK v \in Rows : v = Cat(p, u)
    BY CatRows
  <1>4. PICK r \in Rows : r = Cat(e, v)
    BY CatRows
  <1>5. Line(y, e, p, h, b) = Cat(y, r)
    BY <1>2, <1>3, <1>4, LineEnds
  <1>6. Line(Nil, e, p, h, b) = r
    BY <1>2, <1>3, <1>4, LineNils
  <1>7. Cat(y, r) # Nil /\ Tail(Cat(y, r)) = r
    BY <1>1, CatFirst
  <1> QED
    BY <1>1, <1>5, <1>6, <1>7

LEMMA LineShake ==
    ASSUME NEW x \in Packets, NEW b \in Rows
    PROVE  /\ Line(Nil, Nil, Nil, One(x), b) # Nil
           /\ Line(Nil, Nil, Nil, Nil, b) = Tail(Line(Nil, Nil, Nil, One(x), b))
  <1>1. PICK y \in Rows : y = One(x)
    BY RowOne
  <1>2. PICK z \in Rows : z = Cat(y, b)
    BY CatRows
  <1>3. Nil \in Rows
    BY RowOne
  <1>4. Cat(Nil, z) = z /\ Cat(Nil, b) = b
    BY CatNil
  <1>5. Line(Nil, Nil, Nil, y, b) = z
    BY <1>2, <1>3, <1>4, LineNils
  <1>6. Line(Nil, Nil, Nil, Nil, b) = b
    BY <1>3, <1>4, LineNils
  <1>7. z # Nil /\ Tail(z) = b
    BY <1>1, <1>2, CatFirst
  <1> QED
    BY <1>1, <1>5, <1>6, <1>7

\* A reader takes the first body from the parts.
LEMMA LineRead ==
    ASSUME NEW a \in Rows, NEW e \in Rows, NEW x \in Packets, NEW b \in Rows
    PROVE  /\ Line(a, e, One(x), Nil, b) = Line(a, e, Nil, Nil, Cat(One(x), b))
           /\ Line(a, e, Nil, One(x), b) = Line(a, e, Nil, Nil, Cat(One(x), b))
  <1>1. PICK y \in Rows : y = One(x)
    BY RowOne
  <1>2. PICK z \in Rows : z = Cat(y, b)
    BY CatRows
  <1>3. Nil \in Rows
    BY RowOne
  <1>4. Cat(Nil, z) = z
    BY CatNil
  <1>5. Line(a, e, y, Nil, b) = Cat(a, Cat(e, z))
    BY <1>2, LineNils
  <1>6. Line(a, e, Nil, y, b) = Cat(a, Cat(e, z))
    BY <1>2, LineNils
  <1>7. Line(a, e, Nil, Nil, z) = Cat(a, Cat(e, z))
    BY <1>3, <1>4, LineNils
  <1> QED
    BY <1>1, <1>2, <1>5, <1>6, <1>7

\* A writer adds a body to the parts.
LEMMA LineWrite ==
    ASSUME NEW a \in Rows, NEW e \in Rows, NEW p \in Rows, NEW h \in Rows, NEW b \in Rows,
           NEW y \in Rows
    PROVE  Line(a, e, p, h, Cat(b, y)) = Cat(Line(a, e, p, h, b), y)
  <1>1. PICK u \in Rows : u = Cat(a, e)
    BY CatRows
  <1>2. PICK v \in Rows : v = Cat(u, p)
    BY CatRows
  <1>3. PICK w \in Rows : w = Cat(v, h)
    BY CatRows
  <1>4. Cat(w, Cat(b, y)) = Cat(Cat(w, b), y)
    BY CatAssoc
  <1> QED
    BY <1>1, <1>2, <1>3, <1>4 DEF Line

-----------------------------------------------------------------------------
(* Before anything fails.                                                  *)

\* Before the connection fails no read does, so a control plane goes on until
\* it is stopped.
Sound ==
    conn = "up" /\ connects <= 1 =>
      /\ \A x \in Readers : read[x].pc = "got" => read[x].pkt \in Good
      /\ \A x \in Readers : read[x].pc = "done" => \E s \in Sides : x = Plane(s) /\ stopped[s]
      /\ \A s \in Sides : \A i \in 1..Len(events[s]) : events[s][i] \in Good

LEMMA StaysUp ==
    ASSUME Types, Turns, [Next]_vars
    PROVE  /\ conn' = "up" => conn = "up"
           /\ connects' <= 1 => connects <= 1
           /\ \A s \in Sides : stopped[s] => stopped'[s]
  <1>1. conn' = "up" => conn = "up"
    BY Frames DEF NetStep, ConnFails, StreamError, CloseMux, MuxClose, ServerClose
  <1>2. connects' <= 1 => connects <= 1
    <2>1. connects' = connects \/ connects' = connects + 1
      BY Frames DEF ConnectStep2, ConnectStep, Connect, ConnectWait, ConnectAck, ConnectFail
    <2> QED
      BY <2>1 DEF Types, ClientTypes
  <1>3. ASSUME NEW s \in Sides, stopped[s] PROVE stopped'[s]
    <2>1. stopped \in [Sides -> BOOLEAN] /\ Started(s)
      BY <1>3 DEF Types, PlaneTypes, Turns, Quiet
    <2>2. CASE ClosePlane
      <3>1. PICK b \in BOOLEAN : b = Started("client")
        BY DEF Started
      <3>2. stopped' = [stopped EXCEPT !["client"] = b]
        BY <2>2, <3>1 DEF ClosePlane
      <3>3. s = "client" => b
        BY <2>1, <3>1
      <3> QED
        BY <1>3, <2>1, <3>2, <3>3
    <2>3. CASE ServerClose
      <3>1. PICK b \in BOOLEAN : b = Started("server")
        BY DEF Started
      <3>2. stopped' = [stopped EXCEPT !["server"] = b]
        BY <2>3, <3>1 DEF ServerClose, MuxClose
      <3>3. s = "server" => b
        BY <2>1, <3>1
      <3> QED
        BY <1>3, <2>1, <3>2, <3>3
    <2> QED
      BY <1>3, <2>2, <2>3, Frames
  <1> QED
    BY <1>1, <1>2, <1>3

LEMMA SoundKept ==
    ASSUME Types, Turns, Alternating, Sound, [Next]_vars
    PROVE  Sound'
  <1> SUFFICES ASSUME conn' = "up", connects' <= 1
               PROVE  /\ \A x \in Readers : read'[x].pc = "got" => read'[x].pkt \in Good
                      /\ \A x \in Readers : read'[x].pc = "done" =>
                            \E s \in Sides : x = Plane(s) /\ stopped'[s]
                      /\ \A s \in Sides : \A i \in 1..Len(events'[s]) : events'[s][i] \in Good
    BY DEF Sound
  <1>1. conn = "up" /\ connects <= 1
    BY StaysUp
  <1>2. /\ \A x \in Readers : read[x].pc = "got" => read[x].pkt \in Good
        /\ \A x \in Readers : read[x].pc = "done" => \E s \in Sides : x = Plane(s) /\ stopped[s]
        /\ \A s \in Sides : \A i \in 1..Len(events[s]) : events[s][i] \in Good
    BY <1>1 DEF Sound
  <1>3. read \in [Readers -> Readings] /\ events \in [Sides -> Seq(Packets)]
    BY DEF Types, ReaderTypes, PlaneTypes
  <1>4. ASSUME NEW x \in Readers, ReadStep(x)
        PROVE  read'[x].pc = "body" \/ (read'[x].pc = "got" /\ read'[x].pkt \in Good)
    <2>1. PICK s \in Sides : s = ReaderSide(x)
      BY ReaderSides
    <2>2. ~ReadEnd(x)
      BY <1>1, <2>1 DEF ReadEnd, Turns, Quiet
    <2>3. Read(x, "body", Head(in[s])[2]) \/ (read[x].pc = "body" /\ Read(x, "got", read[x].pkt))
      BY <1>1, <1>4, <2>1, <2>2, ReadsWhole DEF Turns
    <2> QED
      BY <1>3, <2>3 DEF Read, Types, Whole
  <1>5. ASSUME NEW s \in Sides, PlaneSend(s), read'[Plane(s)].pc = "done"
        PROVE  stopped'[s]
    <2>1. read[Plane(s)].pc = "got" /\ Plane(s) \in Readers
      BY <1>5, ReaderSides DEF PlaneSend
    <2>2. read[Plane(s)].pkt \notin {Failed, Garbled}
      BY <1>2, <2>1 DEF Good
    <2>3. stopped[s]
      BY <1>3, <1>5, <2>1, <2>2 DEF PlaneSend, GivesUp, Read
    <2> QED
      BY <2>3, StaysUp
  <1>6. \A x \in Readers : read'[x].pc = "got" => read'[x].pkt \in Good
    BY <1>2, <1>4, ReaderMoves
  <1>7. \A x \in Readers : read'[x].pc = "done" => \E s \in Sides : x = Plane(s) /\ stopped'[s]
    <2> SUFFICES ASSUME NEW x \in Readers, read'[x].pc = "done"
                 PROVE  \E s \in Sides : x = Plane(s) /\ stopped'[s]
      OBVIOUS
    <2>1. read[x].pc = "done" => \E s \in Sides : x = Plane(s) /\ stopped'[s]
      BY <1>2, StaysUp
    <2> QED
      BY <1>4, <1>5, <2>1, ReaderMoves
  <1>8. ASSUME NEW s \in Sides PROVE \A i \in 1..Len(events'[s]) : events'[s][i] \in Good
    <2>1. PICK e \in Seq(Packets) : e = events[s]
      BY <1>3
    <2>2. \A i \in 1..Len(e) : e[i] \in Good
      BY <1>2, <2>1
    <2>3. ASSUME NEW t \in Sides, TakeEvent(t) PROVE events'[s] = e \/ (e # <<>> /\ events'[s] = Tail(e))
      BY <1>3, <2>1, <2>3 DEF TakeEvent
    <2>4. ASSUME NEW t \in Sides, PlaneSend(t)
          PROVE  events'[s] = e \/ \E p \in Good : events'[s] = Append(e, p)
      <3>1. read[Plane(t)].pkt \in Good
        BY <1>2, <2>4, ReaderSides DEF PlaneSend
      <3>2. events' = events \/ events' = [events EXCEPT ![t] = Append(@, read[Plane(t)].pkt)]
        BY <2>4 DEF PlaneSend
      <3> QED
        BY <1>3, <2>1, <3>1, <3>2
    <2>5. DispatchNext => TakeEvent("client")
      BY DEF DispatchNext
    <2>6. Serve => TakeEvent("server")
      BY DEF Serve
    <2>7. \/ events'[s] = e
          \/ e # <<>> /\ events'[s] = Tail(e)
          \/ \E p \in Good : events'[s] = Append(e, p)
      BY <2>1, <2>3, <2>4, <2>5, <2>6, Frames DEF Sides
    <2>8. CASE events'[s] = e
      BY <2>2, <2>8
    <2>9. CASE e # <<>> /\ events'[s] = Tail(e)
      <3>1. PICK t : t = Tail(e) /\ t = events'[s]
        BY <2>9
      <3>2. Len(t) = Len(e) - 1 /\ Len(e) \in Nat /\ \A i \in 1..Len(e) - 1 : t[i] = e[i + 1]
        BY <2>9, <3>1
      <3>3. \A i \in 1..Len(t) : t[i] \in Good
        BY <2>2, <3>2
      <3> QED
        BY <3>1, <3>3
    <2>10. CASE \E p \in Good : events'[s] = Append(e, p)
      <3>1. PICK p \in Packets : p \in Good /\ events'[s] = Append(e, p)
        BY <2>10, PacketTypes
      <3>2. /\ Append(e, p) \in Seq(Packets) /\ Len(Append(e, p)) = Len(e) + 1
            /\ Append(e, p)[Len(e) + 1] = p /\ \A i \in 1..Len(e) : Append(e, p)[i] = e[i]
        BY AppendProperties
      <3>3. PICK t : t = Append(e, p) /\ t = events'[s]
        BY <3>1
      <3>4. Len(t) = Len(e) + 1 /\ Len(e) \in Nat /\ t[Len(e) + 1] = p /\ \A i \in 1..Len(e) : t[i] = e[i]
        BY <3>2, <3>3
      <3>5. \A i \in 1..Len(t) : t[i] \in Good
        BY <2>2, <3>1, <3>4
      <3> QED
        BY <3>3, <3>5
    <2> QED
      BY <2>7, <2>8, <2>9, <2>10
  <1> QED
    BY <1>6, <1>7, <1>8

-----------------------------------------------------------------------------
(***************************************************************************)
(* Where the packets sent to a side and not dealt with are.                *)
(***************************************************************************)
Dispatched(s) == IF s = "client" /\ disp = "match" THEN One(packet) ELSE Nil
Planed(s) == IF read[Plane(s)].pc = "got" THEN One(read[Plane(s)].pkt) ELSE Nil
Shaken(s) ==
    IF Handshaken(s, 1) # None /\ (IF s = "client" THEN ~done ELSE srv = "accept")
    THEN One(Handshaken(s, 1)) ELSE Nil
Way(s) == Line(Dispatched(s), events[s], Planed(s), Shaken(s), BodiesOf(in[s]))

\* The packets of side s are all on their way, while nothing has failed.
Running == conn = "up" /\ connects <= 1 /\ srv # "closing"
Flowing == Running => \A s \in Sides : stopped[s] \/ due[s] = Way(s)

LEMMA NothingLostIsFlowing == NothingLost <=> Flowing
  BY Zenon DEF NothingLost, Flowing, Running, Way, InHand, Line, Cat, One, Nil, Dispatched, Planed, Shaken

LEMMA WayTypes ==
    ASSUME Types, NEW s \in Sides
    PROVE  /\ Dispatched(s) \in Rows /\ events[s] \in Rows /\ Planed(s) \in Rows /\ Shaken(s) \in Rows
           /\ Nil \in Rows
  <1>1. events[s] \in Rows /\ packet \in Packets
    BY DEF Types, PlaneTypes, ClientTypes, Rows
  <1>2. \A x \in Readers : read[x].pkt \in Packets
    BY DEF Types, ReaderTypes, Readings
  <1>3. Dispatched(s) \in Rows /\ Nil \in Rows
    BY <1>1, RowOne DEF Dispatched
  <1>4. Planed(s) \in Rows
    BY <1>2, RowOne, ReaderSides DEF Planed
  <1>5. Handshaken(s, 1) \in Packets \/ Handshaken(s, 1) = None
    BY <1>2, CurrentTypes DEF Handshaken
  <1>6. Shaken(s) \in Rows
    BY <1>5, RowOne DEF Shaken
  <1> QED
    BY <1>1, <1>3, <1>4, <1>6

LEMMA WayBodies ==
    ASSUME Types, Turns, Alternating, Sound, Running, NEW s \in Sides, ~stopped[s]
    PROVE  /\ Usable(At(s)) /\ Framed(in[s], At(s), conn, mu[Other(s)], wr[mu[Other(s)]].pkt)
           /\ BodiesOf(in[s]) = Bodies(in[s], Odd(At(s))) /\ BodiesOf(in[s]) \in Rows
  <1>1. in[s] \in Seq(Parts)
    BY DEF Types, WireTypes
  <1>2. \A t \in Sides : Current(s) = Plane(t) => t = s
    BY CurrentTypes, ReaderSides
  <1>3. At(s).pc # "done"
    BY <1>2, CurrentTypes DEF Sound, Running, At
  <1>4. At(s).pc = "got" => At(s).pkt # Failed
    BY CurrentTypes, PacketTypes DEF Sound, Running, At
  <1>5. Usable(At(s))
    BY <1>3, <1>4 DEF Usable
  <1>6. Framed(in[s], At(s), conn, mu[Other(s)], wr[mu[Other(s)]].pkt)
    BY DEF Alternating, Running
  <1> QED
    BY <1>1, <1>5, <1>6, FramedBodies DEF Rows

\* The same in the state after a step.
LEMMA NextBodies ==
    ASSUME Types', Alternating', Sound', Running', NEW s \in Sides, ~stopped'[s]
    PROVE  BodiesOf(in'[s]) = Bodies(in'[s], Odd(At(s)')) /\ BodiesOf(in'[s]) \in Rows
  <1>1. in'[s] \in Seq(Parts)
    BY DEF Types, WireTypes
  <1>2. PICK x : x = Current(s)' /\ x \in {Plane(s), Handshake(s, 1)} /\ At(s)' = read'[x]
    BY DEF Current, At
  <1>3. x \in Readers /\ \A t \in Sides : x = Plane(t) => t = s
    BY <1>2, ReaderSides, BaseServiceAssumption DEF Plane, Handshake, Readers, Sides
  <1>4. read'[x].pc # "done"
    BY <1>3 DEF Sound, Running
  <1>5. read'[x].pc = "got" => read'[x].pkt # Failed
    BY <1>3, PacketTypes DEF Sound, Running
  <1>6. PICK rd : rd = At(s)' /\ Usable(rd)
    BY <1>2, <1>4, <1>5 DEF Usable
  <1>7. Framed(in'[s], rd, conn', mu'[Other(s)], wr'[mu'[Other(s)]].pkt)
    BY <1>6 DEF Alternating, Running
  <1> QED
    BY <1>1, <1>6, <1>7, FramedBodies DEF Rows

LEMMA FlowWrite ==
    ASSUME Types, Turns, Alternating, Sound, Running, NEW s \in Sides, ~stopped[s], due[s] = Way(s),
           WriteStep, Types', Alternating', Sound', Running', ~stopped'[s]
    PROVE  due'[s] = Way(s)'
  <1>1. PICK w \in Writers : WriteLength(w) \/ WriteBody(w)
    BY DEF WriteStep
  <1>2. PICK o \in Sides, to \in Sides : o = WriterSide(w) /\ to = Other(o)
    BY WriterSides
  <1>3. UNCHANGED <<read, disp, packet, done, srv, events>>
    BY <1>1 DEF WriteLength, WriteBody, planes, client, server
  <1>4. PICK a \in Rows, e \in Rows, p \in Rows, h \in Rows :
           /\ a = Dispatched(s) /\ e = events[s] /\ p = Planed(s) /\ h = Shaken(s)
           /\ a = Dispatched(s)' /\ e = events'[s] /\ p = Planed(s)' /\ h = Shaken(s)'
    <2>1. /\ Dispatched(s)' = Dispatched(s) /\ Planed(s)' = Planed(s) /\ Shaken(s)' = Shaken(s)
          /\ events'[s] = events[s]
      BY <1>3 DEF Dispatched, Planed, Shaken, Handshaken
    <2> QED
      BY <2>1, WayTypes
  <1>5. PICK q \in Seq(Parts), f \in {0, 1}, b \in Rows :
           q = in[s] /\ f = Odd(At(s)) /\ f = Odd(At(s)') /\ b = BodiesOf(in[s]) /\ b = Bodies(q, f)
    <2>1. At(s)' = At(s)
      BY <1>3 DEF At, Current, Started
    <2>2. Odd(At(s)) \in {0, 1} /\ in[s] \in Seq(Parts)
      BY DEF Odd, Types, WireTypes
    <2> QED
      BY <2>1, <2>2, WayBodies
  <1>6. PICK c \in Rows : c = BodiesOf(in'[s]) /\ c = Bodies(in'[s], f)
    BY <1>5, NextBodies
  <1>7. due[s] = Line(a, e, p, h, b) /\ Way(s)' = Line(a, e, p, h, c)
    BY <1>4, <1>5, <1>6 DEF Way
  <1>8. conn = "up" /\ in \in [Sides -> Seq(Parts)] /\ due \in [Sides -> Seq(Packets)]
    BY DEF Running, Types, WireTypes, PlaneTypes
  <1>9. CASE to # s
    <2>1. in'[s] = in[s] /\ due'[s] = due[s]
      BY <1>1, <1>2, <1>8, <1>9 DEF WriteLength, WriteBody
    <2> QED
      BY <1>5, <1>6, <1>7, <2>1
  <1>10. CASE to = s
    <2>1. o = Other(s) /\ w # None /\ wr[w].pkt \in Good
      BY <1>1, <1>2, <1>10, WriterNames DEF Other, Sides, WriteLength, WriteBody, Types, Whole
    <2>2. mu[o] # None <=> (Len(q) + f) % 2 = 1
      BY <1>5, <1>8, <2>1, WayBodies DEF Framed
    <2>3. PICK y \in Packets : y = wr[w].pkt
      BY <2>1, PacketTypes
    <2>4. CASE WriteLength(w)
      <3>1. /\ in' = [in EXCEPT ![s] = Append(@, <<"len", y>>)] /\ mu[o] = None /\ due' = due
        BY <1>2, <1>8, <1>10, <2>3, <2>4 DEF WriteLength, WriteMuFree
      <3>2. PICK part \in Parts : part = <<"len", y>>
        BY <2>1, <2>3, PartTypes
      <3>3. in'[s] = Append(q, part)
        BY <1>5, <1>8, <3>1, <3>2
      <3>4. (Len(q) + f) % 2 = 0
        <4>1. Len(q) \in Nat
          OBVIOUS
        <4> QED
          BY <2>2, <3>1, <4>1
      <3>5. c = b
        BY <1>5, <1>6, <3>3, <3>4, BodiesAppend
      <3> QED
        BY <1>7, <3>1, <3>5
    <2>5. CASE WriteBody(w)
      <3>1. /\ in' = [in EXCEPT ![s] = Append(@, <<"body", y>>)]
            /\ due' = [due EXCEPT ![s] = Append(@, y)] /\ wr[w].pc = "body"
        BY <1>2, <1>8, <1>10, <2>3, <2>5 DEF WriteBody
      <3>2. PICK part \in Parts : part = <<"body", y>> /\ part[2] = y
        BY <2>1, <2>3, PartTypes
      <3>3. in'[s] = Append(q, part) /\ due'[s] = Append(due[s], y)
        BY <1>5, <1>8, <3>1, <3>2
      <3>4. mu[o] # None
        BY <1>2, <2>1, <3>1 DEF Turns, Locked
      <3>5. c = Append(b, y)
        BY <1>5, <1>6, <2>2, <3>2, <3>3, <3>4, BodiesAppend
      <3>6. PICK l \in Rows, z \in Rows : l = due[s] /\ z = One(y)
        BY <1>8, RowOne DEF Rows
      <3>7. c = Cat(b, z) /\ Append(l, y) = Cat(l, z)
        BY <3>5, <3>6, CatAppend
      <3>8. Line(a, e, p, h, Cat(b, z)) = Cat(Line(a, e, p, h, b), z)
        BY LineWrite, SMTT(60)
      <3> QED
        BY <1>7, <3>3, <3>6, <3>7, <3>8
    <2> QED
      BY <1>1, <2>4, <2>5
  <1> QED
    BY <1>9, <1>10

LEMMA FlowRead ==
    ASSUME Types, Turns, Alternating, Sound, Running, NEW s \in Sides, ~stopped[s], due[s] = Way(s),
           ReadSomething, Types', Alternating', Sound', Running', ~stopped'[s]
    PROVE  due'[s] = Way(s)'
  <1>1. PICK x \in Readers : ReadStep(x)
    BY DEF ReadSomething
  <1>2. PICK o \in Sides : o = ReaderSide(x)
    BY ReaderSides
  <1>3. UNCHANGED <<disp, packet, done, srv, events, due>>
    BY <1>1 DEF ReadStep, ReadLength, ReadBody, ReadEnd, planes, client, server
  <1>4. conn = "up" /\ stream[o] = "open" /\ connects <= 1
    BY DEF Running, Turns, Quiet
  <1>5. ~ReadEnd(x)
    BY <1>2, <1>4 DEF ReadEnd
  <1>6. /\ x = Current(o) /\ in[o] # <<>>
        /\ \/ read[x].pc = "len" /\ Read(x, "body", Head(in[o])[2])
           \/ /\ read[x].pc = "body" /\ Head(in[o]) = <<"body", read[x].pkt>>
              /\ Read(x, "got", read[x].pkt)
        /\ in' = [in EXCEPT ![o] = Tail(@)]
    BY <1>1, <1>2, <1>4, <1>5, ReadsWhole DEF Turns
  <1>7. in \in [Sides -> Seq(Parts)] /\ read \in [Readers -> Readings] /\ read[x].pkt \in Packets
    BY DEF Types, WireTypes, ReaderTypes, Readings
  <1>8. Dispatched(s)' = Dispatched(s) /\ events'[s] = events[s] /\ due'[s] = due[s]
    BY <1>3 DEF Dispatched
  <1>9. Plane(s) \in Readers /\ Handshake(s, 1) \in Readers /\ Plane(s) # Handshake(s, 1)
    BY CurrentTypes, ReaderSides, ReaderNames
  <1>10. CASE o # s
    <2>1. in'[s] = in[s]
      BY <1>6, <1>7, <1>10
    <2>2. x # Plane(s) /\ x # Handshake(s, 1)
      BY <1>2, <1>10, CurrentTypes, ReaderSides
    <2>3. read'[Plane(s)] = read[Plane(s)] /\ read'[Handshake(s, 1)] = read[Handshake(s, 1)]
      BY <1>6, <1>7, <1>9, <2>2 DEF Read
    <2>4. Planed(s)' = Planed(s) /\ Shaken(s)' = Shaken(s)
      BY <1>3, <2>3 DEF Planed, Shaken, Handshaken
    <2> QED
      BY <1>8, <2>1, <2>4 DEF Way
  <1>11. CASE o = s
    <2>1. PICK q \in Seq(Parts), t \in Seq(Parts) : /\ q = in[s] /\ q # <<>> /\ t = Tail(q) /\ t = in'[s]
                                                    /\ Head(q) = q[1]
      BY <1>6, <1>7, <1>11, TailParts
    <2>2. PICK a \in Rows, e \in Rows : a = Dispatched(s) /\ e = events[s]
      BY WayTypes
    <2>3. At(s) = read[x] /\ x \in {Plane(s), Handshake(s, 1)} /\ (x = Plane(s) <=> Started(s))
      BY <1>6, <1>9, <1>11 DEF At, Current
    <2>4. Started(s)' <=> Started(s)
      BY <1>6, <1>7, <1>9 DEF Started, Read
    <2>5. At(s)' = read'[x]
      BY <2>3, <2>4, <1>6, <1>11 DEF At, Current
    <2>6. CASE read[x].pc = "len"
      <3>1. Odd(At(s)) = 0 /\ Odd(At(s)') = 1 /\ read'[x].pc = "body"
        BY <1>6, <1>7, <2>3, <2>5, <2>6 DEF Read, Odd
      <3>2. BodiesOf(in[s]) = Bodies(q, 0) /\ BodiesOf(in'[s]) = Bodies(t, 1)
        BY <2>1, <3>1, WayBodies, NextBodies
      <3>3. BodiesOf(in'[s]) = BodiesOf(in[s])
        BY <2>1, <3>2, BodiesTail0
      <3>4. Planed(s)' = Planed(s) /\ Shaken(s)' = Shaken(s)
        <4>1. read'[Plane(s)] = read[Plane(s)] \/ (read[Plane(s)].pc # "got" /\ read'[Plane(s)].pc # "got")
          BY <1>6, <1>7, <1>9, <2>6, <3>1 DEF Read
        <4>2. Handshaken(s, 1)' = Handshaken(s, 1)
          BY <1>6, <1>7, <1>9, <2>6, <3>1 DEF Read, Handshaken
        <4> QED
          BY <1>3, <4>1, <4>2 DEF Planed, Shaken
      <3> QED
        BY <1>8, <3>3, <3>4 DEF Way
    <2>7. CASE read[x].pc = "body"
      <3>1. PICK y \in Packets : y = read[x].pkt
        BY <1>7
      <3>2. q[1] = <<"body", y>> /\ read'[x] = [pc |-> "got", pkt |-> y]
        BY <1>6, <1>7, <1>11, <2>1, <2>7, <3>1 DEF Read
      <3>3. Odd(At(s)) = 1 /\ Odd(At(s)') = 0
        BY <2>3, <2>5, <2>7, <3>2 DEF Odd
      <3>4. PICK b \in Rows, c \in Rows, z \in Rows :
               /\ b = BodiesOf(in[s]) /\ c = BodiesOf(in'[s]) /\ z = One(y)
               /\ b = Bodies(q, 1) /\ c = Bodies(t, 0)
        BY <2>1, <3>3, WayBodies, NextBodies, RowOne
      <3>5. b = Cat(z, c)
        <4>1. q[1][2] = y
          BY <3>2
        <4> QED
          BY <2>1, <3>4, <4>1, BodiesTail1 DEF Cat, One
      <3>6. due[s] = Line(a, e, Planed(s), Shaken(s), b) /\ Way(s)' = Line(a, e, Planed(s)', Shaken(s)', c)
        BY <1>8, <2>2, <3>4 DEF Way
      <3>7. /\ Line(a, e, z, Nil, c) = Line(a, e, Nil, Nil, Cat(z, c))
            /\ Line(a, e, Nil, z, c) = Line(a, e, Nil, Nil, Cat(z, c))
        BY <3>1, <3>4, LineRead
      <3>8. CASE x = Plane(s)
        <4>1. Started(s)
          BY <2>3, <3>8
        <4>2. Planed(s) = Nil /\ Planed(s)' = z
          BY <2>7, <3>2, <3>4, <3>8 DEF Planed
        <4>3. ~(IF s = "client" THEN ~done ELSE srv = "accept")
          BY <4>1 DEF Turns, ClientTurns, ServerTurns, Sides
        <4>4. Shaken(s) = Nil /\ Shaken(s)' = Nil
          BY <1>3, <4>3 DEF Shaken
        <4> QED
          BY <1>8, <3>5, <3>6, <3>7, <4>2, <4>4
      <3>9. CASE x # Plane(s)
        <4>1. ~Started(s) /\ x = Handshake(s, 1)
          BY <2>3, <3>9
        <4>2. Planed(s) = Nil /\ Planed(s)' = Nil
          BY <2>4, <4>1 DEF Planed, Started
        <4>3. IF s = "client" THEN ~done ELSE srv = "accept"
          <5>1. s = "client" => ~done
            BY <4>1 DEF Turns, ClientTurns
          <5>2. s = "server" => srv \notin {"ack", "next", "answer"}
            <6>1. s = "server" => read[Handshake("server", 1)].pc = "body"
              BY <2>7, <4>1
            <6> QED
              BY <6>1 DEF Turns, ServerTurns
          <5>3. srv \notin {"closed", "closing"}
            BY DEF Running, Turns, Quiet
          <5> QED
            BY <5>1, <5>2, <5>3 DEF Sides, Types, ServerTypes
        <4>4. Handshaken(s, 1) = None /\ Handshaken(s, 1)' = y /\ y # None
          BY <2>7, <3>2, <4>1, PacketTypes DEF Handshaken
        <4>5. Shaken(s) = Nil /\ Shaken(s)' = z
          BY <1>3, <3>4, <4>3, <4>4 DEF Shaken
        <4> QED
          BY <1>8, <3>5, <3>6, <3>7, <4>2, <4>5
      <3> QED
        BY <3>8, <3>9
    <2> QED
      BY <1>6, <2>6, <2>7
  <1> QED
    BY <1>10, <1>11

LEMMA FlowPlane ==
    ASSUME Types, Turns, Alternating, Sound, Running, NEW s \in Sides, ~stopped[s], due[s] = Way(s),
           NEW t \in Sides, PlaneSend(t)
    PROVE  due'[s] = Way(s)'
  <1>1. UNCHANGED <<in, disp, packet, done, srv, due>>
    BY DEF PlaneSend, wire, client, server
  <1>2. PICK x \in Readers, to \in {"len", "done"}, y \in Packets :
           x = Plane(t) /\ Read(x, to, Failed) /\ y = read[x].pkt /\ read[x].pc = "got"
    BY ReaderSides DEF PlaneSend, Types, ReaderTypes, Readings
  <1>3. y \notin {Failed, Garbled}
    BY <1>2 DEF Sound, Running, Good
  <1>4. read \in [Readers -> Readings] /\ events \in [Sides -> Seq(Packets)]
    BY DEF Types, ReaderTypes, PlaneTypes
  <1>5. Dispatched(s)' = Dispatched(s)
    BY <1>1 DEF Dispatched
  <1>6. /\ Handshake(s, 1) \in Readers /\ Plane(s) \in Readers /\ Plane(t) # Handshake(s, 1)
        /\ s # t => Plane(t) # Plane(s)
    BY CurrentTypes, ReaderNames, ReaderSides, BaseServiceAssumption DEF Sides
  <1>7. Shaken(s)' = Shaken(s)
    <2>1. read'[Handshake(s, 1)] = read[Handshake(s, 1)]
      BY <1>2, <1>4, <1>6 DEF Read
    <2> QED
      BY <1>1, <2>1 DEF Shaken, Handshaken
  <1>8. CASE s # t
    <2>1. events'[s] = events[s]
      BY <1>4, <1>8 DEF PlaneSend
    <2>2. read'[Plane(s)] = read[Plane(s)]
      BY <1>2, <1>4, <1>6, <1>8 DEF Read
    <2>3. Planed(s)' = Planed(s)
      BY <2>2 DEF Planed
    <2> QED
      BY <1>1, <1>5, <1>7, <2>1, <2>3 DEF Way
  <1>9. CASE s = t
    <2>1. events' = [events EXCEPT ![s] = Append(@, y)]
      BY <1>2, <1>3, <1>9 DEF PlaneSend, GivesUp
    <2>2. PICK a \in Rows, e \in Rows, h \in Rows : a = Dispatched(s) /\ e = events[s] /\ h = Shaken(s)
      BY WayTypes
    <2>3. events'[s] = Append(e, y)
      BY <1>4, <2>1, <2>2
    <2>4. Planed(s) = One(y) /\ Planed(s)' = Nil
      BY <1>2, <1>4, <1>9 DEF Planed, Read
    <2>5. PICK b \in Rows : b = BodiesOf(in[s])
      BY WayBodies
    <2>6. due[s] = Line(a, e, One(y), h, b) /\ Way(s)' = Line(a, Append(e, y), Nil, h, b)
      BY <1>1, <1>5, <1>7, <2>2, <2>3, <2>4, <2>5 DEF Way
    <2>7. Line(a, Append(e, y), Nil, h, b) = Line(a, e, One(y), h, b)
      BY LineSend, SMTT(60)
    <2> QED
      BY <1>1, <2>6, <2>7
  <1> QED
    BY <1>8, <1>9

LEMMA FlowConnect ==
    ASSUME Types, Turns, Alternating, Sound, Running, NEW s \in Sides, ~stopped[s], due[s] = Way(s),
           ConnectStep2, Running'
    PROVE  due'[s] = Way(s)'
  <1>1. UNCHANGED <<in, events, packet, srv>>
    BY DEF ConnectStep2, ConnectStep, Connect, ConnectWait, ConnectAck, ConnectFail, wire, planes, server
  <1>2. read \in [Readers -> Readings] /\ due \in [Sides -> Seq(Packets)] /\ done \in BOOLEAN
    BY DEF Types, ReaderTypes, PlaneTypes, ClientTypes
  <1>3. /\ Plane(s) \in Readers /\ Handshake(s, 1) \in Readers /\ Plane(s) # Handshake(s, 1)
        /\ Plane(s) # Handshake("client", 1) /\ Plane("client") # Handshake(s, 1)
        /\ Plane("client") \in Readers
        /\ s = "server" => Plane("client") # Plane(s) /\ Handshake(s, 1) # Handshake("client", 1)
    BY CurrentTypes, ReaderSides DEF Plane, Handshake, Sides
  <1>4. ASSUME UNCHANGED <<read, done, disp, due>>
        PROVE  due'[s] = Way(s)'
    BY <1>1, <1>4 DEF Way, Dispatched, Planed, Shaken, Handshaken
  <1>5. CASE ConnectWait
    <2>1. UNCHANGED <<done, disp, due>> /\ cl = "hello"
      BY <1>5 DEF ConnectWait
    <2>2. connects = 1
      BY <2>1 DEF Running, Types, ClientTypes
    <2>3. read[Handshake("client", 1)].pc = "off"
      BY <2>1, <2>2 DEF Turns, ClientTurns
    <2>4. read' = read \/ Read(Handshake("client", 1), "len", Failed)
      BY <1>5, <2>2 DEF ConnectWait
    <2>5. Planed(s)' = Planed(s)
      <3>1. read'[Plane(s)] = read[Plane(s)]
        BY <1>2, <1>3, <2>4 DEF Read
      <3> QED
        BY <3>1 DEF Planed
    <2>6. Handshaken(s, 1)' = Handshaken(s, 1)
      BY <1>2, <1>3, <2>3, <2>4 DEF Read, Handshaken, Sides
    <2>7. Shaken(s)' = Shaken(s) /\ Dispatched(s)' = Dispatched(s)
      BY <1>1, <2>1, <2>6 DEF Shaken, Dispatched
    <2> QED
      BY <1>1, <2>1, <2>5, <2>7 DEF Way
  <1>6. CASE ConnectAck
    <2>1. /\ cl = "wait" /\ Handshaken("client", connects) = Ack /\ done' = TRUE /\ disp' = "next"
          /\ EnsureStarted("client") /\ Deal("client")
      BY <1>6 DEF ConnectAck, AckReceived
    <2>2. ~done /\ ~Started("client") /\ disp = "off"
      BY <2>1 DEF Turns, ClientTurns
    <2>3. CASE s = "server"
      <3>1. read'[Plane(s)] = read[Plane(s)] /\ read'[Handshake(s, 1)] = read[Handshake(s, 1)]
        BY <1>2, <1>3, <2>1, <2>3 DEF EnsureStarted
      <3>2. due'[s] = due[s]
        BY <1>2, <2>1, <2>3 DEF Deal
      <3>3. Planed(s)' = Planed(s) /\ Shaken(s)' = Shaken(s) /\ Dispatched(s)' = Dispatched(s)
        BY <1>1, <2>3, <3>1 DEF Planed, Shaken, Handshaken, Dispatched
      <3> QED
        BY <1>1, <3>2, <3>3 DEF Way
    <2>4. CASE s = "client"
      <3>1. connects = 1
        BY <2>1 DEF Running, Types, ClientTypes
      <3>2. Shaken(s) = One(Ack) /\ Shaken(s)' = Nil
        BY <2>1, <2>2, <2>4, <3>1, PacketTypes DEF Shaken
      <3>3. Dispatched(s) = Nil /\ Dispatched(s)' = Nil /\ events[s] = Nil
        BY <2>1, <2>2, <2>4 DEF Dispatched, Turns, Quiet, Nil
      <3>4. Planed(s) = Nil /\ Planed(s)' = Nil
        BY <1>2, <1>3, <2>1, <2>2, <2>4 DEF Planed, Started, EnsureStarted
      <3>5. PICK b \in Rows, l \in Rows : b = BodiesOf(in[s]) /\ l = due[s]
        BY <1>2, WayBodies DEF Rows
      <3>6. l = Line(Nil, Nil, Nil, One(Ack), b) /\ Way(s)' = Line(Nil, Nil, Nil, Nil, b)
        BY <1>1, <3>2, <3>3, <3>4, <3>5 DEF Way
      <3>7. /\ Line(Nil, Nil, Nil, One(Ack), b) # Nil
            /\ Line(Nil, Nil, Nil, Nil, b) = Tail(Line(Nil, Nil, Nil, One(Ack), b))
        BY LineShake, PacketTypes DEF Good
      <3>8. l # <<>> /\ Way(s)' = Tail(l)
        BY <3>6, <3>7 DEF Nil
      <3>9. due'[s] = Tail(l)
        BY <1>2, <2>1, <2>4, <3>5, <3>8 DEF Deal
      <3> QED
        BY <3>8, <3>9
    <2> QED
      BY <2>3, <2>4 DEF Sides
  <1>7. Connect \/ ConnectFail => UNCHANGED <<read, done, disp, due>>
    BY DEF Connect, ConnectFail
  <1> QED
    BY <1>4, <1>5, <1>6, <1>7 DEF ConnectStep2, ConnectStep

\* What is in a control channel before the connection fails; without a packet
\* there is nothing to take.
LEMMA NextPacket ==
    ASSUME Types, Sound, Running, NEW s \in Sides, ~stopped[s], HasNext(s)
    PROVE  /\ events[s] # Nil /\ NextEvent(s) = Head(events[s]) /\ NextEvent(s) \in Good
           /\ TakeEvent(s) => /\ events'[s] = Tail(events[s])
                              /\ \A t \in Sides : t # s => events'[t] = events[t]
  <1>1. events \in [Sides -> Seq(Packets)] /\ \A t \in Sides : Plane(s) = Plane(t) => t = s
    BY DEF Types, PlaneTypes, Plane
  <1>2. read[Plane(s)].pc # "done"
    BY <1>1, ReaderSides DEF Sound, Running
  <1>3. events[s] # <<>>
    BY <1>2 DEF HasNext
  <1>4. Head(events[s]) = events[s][1] /\ 1 \in 1..Len(events[s])
    BY <1>1, <1>3
  <1>5. events[s][1] \in Good
    BY <1>4 DEF Sound, Running
  <1>6. TakeEvent(s) => events' = [events EXCEPT ![s] = Tail(@)]
    BY <1>1, <1>3 DEF TakeEvent
  <1> QED
    BY <1>1, <1>3, <1>4, <1>5, <1>6 DEF NextEvent, Nil

LEMMA FlowDispatch ==
    ASSUME Types, Turns, Alternating, Sound, Running, NEW s \in Sides, ~stopped[s], due[s] = Way(s),
           DispatchStep
    PROVE  due'[s] = Way(s)'
  <1>1. UNCHANGED <<in, read, done, srv>>
    BY DEF DispatchStep, DispatchNext, DispatchStopped, DispatchPending, FailAllPending, wire, server
  <1>2. Planed(s)' = Planed(s) /\ Shaken(s)' = Shaken(s)
    BY <1>1 DEF Planed, Shaken, Handshaken
  <1>3. events \in [Sides -> Seq(Packets)] /\ due \in [Sides -> Seq(Packets)] /\ packet \in Packets
    BY DEF Types, PlaneTypes, ClientTypes
  <1>4. CASE s = "server"
    <2>1. events'[s] = events[s] /\ due'[s] = due[s]
      BY <1>3, <1>4 DEF DispatchStep, DispatchNext, DispatchStopped, DispatchPending, FailAllPending,
         TakeEvent, Deal, planes
    <2>2. Dispatched(s)' = Dispatched(s)
      BY <1>4 DEF Dispatched
    <2> QED
      BY <1>1, <1>2, <2>1, <2>2 DEF Way
  <1>5. CASE s = "client"
    <2>1. PICK e \in Rows, p \in Rows, h \in Rows, b \in Rows, l \in Rows :
             /\ e = events[s] /\ p = Planed(s) /\ h = Shaken(s) /\ b = BodiesOf(in[s]) /\ l = due[s]
      BY <1>3, WayTypes, WayBodies DEF Rows
    <2>2. l = Line(Dispatched(s), e, p, h, b) /\ Way(s)' = Line(Dispatched(s)', events'[s], p, h, b)
      BY <1>1, <1>2, <2>1 DEF Way
    <2>3. CASE DispatchNext
      <3>1. disp = "next" /\ HasNext("client") /\ TakeEvent("client") /\ due' = due
        BY <2>3 DEF DispatchNext
      <3>2. /\ e # Nil /\ NextEvent("client") = Head(e) /\ NextEvent("client") \in Good
            /\ events'[s] = Tail(e)
        BY <1>5, <2>1, <3>1, NextPacket
      <3>3. disp' = "match" /\ packet' = Head(e)
        BY <2>3, <3>2, PacketTypes DEF DispatchNext
      <3>4. Dispatched(s) = Nil /\ Dispatched(s)' = One(Head(e))
        BY <1>5, <3>1, <3>3 DEF Dispatched
      <3>5. Line(One(Head(e)), Tail(e), p, h, b) = Line(Nil, e, p, h, b)
        BY <3>2, LineTake, SMTT(60)
      <3> QED
        BY <2>1, <2>2, <3>1, <3>2, <3>4, <3>5
    <2>4. CASE DispatchPending
      <3>1. disp = "match" /\ disp' = "next" /\ Deal("client") /\ UNCHANGED events
        BY <2>4 DEF DispatchPending, planes
      <3>2. Dispatched(s) = One(packet) /\ Dispatched(s)' = Nil /\ events'[s] = e
        BY <1>5, <2>1, <3>1 DEF Dispatched
      <3>3. PICK x \in Packets : x = packet
        BY <1>3
      <3>4. /\ Line(One(x), e, p, h, b) # Nil
            /\ Line(Nil, e, p, h, b) = Tail(Line(One(x), e, p, h, b))
        BY LineDeal, SMTT(60)
      <3>5. l # <<>> /\ Way(s)' = Tail(l)
        BY <2>2, <3>2, <3>3, <3>4 DEF Nil
      <3>6. due'[s] = Tail(l)
        BY <1>3, <1>5, <2>1, <3>1, <3>5 DEF Deal
      <3> QED
        BY <3>5, <3>6
    <2>5. CASE DispatchStopped \/ FailAllPending
      <3>1. disp \in {"next", "fail"} /\ disp' \in {"fail", "done"} /\ UNCHANGED <<events, due>>
        BY <2>5 DEF DispatchStopped, FailAllPending, planes
      <3>2. Dispatched(s)' = Dispatched(s)
        BY <3>1 DEF Dispatched
      <3> QED
        BY <2>1, <2>2, <3>1, <3>2
    <2> QED
      BY <2>3, <2>4, <2>5 DEF DispatchStep
  <1> QED
    BY <1>4, <1>5 DEF Sides

LEMMA FlowServe ==
    ASSUME Types, Turns, Alternating, Sound, Running, NEW s \in Sides, ~stopped[s], due[s] = Way(s),
           ServeStep, Running'
    PROVE  due'[s] = Way(s)'
  <1>1. UNCHANGED <<in, disp, packet, done>>
    BY DEF ServeStep, ServerStep, Accept, AcceptFail, ServeLoop, Serve, SendEvent, ServerClose, MuxClose, wire,
       client, Running
  <1>2. ~AcceptFail /\ ~ServerClose
    BY DEF AcceptFail, ServerClose, MuxClose, Running
  <1>3. Dispatched(s)' = Dispatched(s)
    BY <1>1 DEF Dispatched
  <1>4. /\ events \in [Sides -> Seq(Packets)] /\ due \in [Sides -> Seq(Packets)]
        /\ read \in [Readers -> Readings]
    BY DEF Types, PlaneTypes, ReaderTypes
  <1>5. /\ Plane(s) \in Readers /\ Handshake(s, 1) \in Readers /\ Plane("server") \in Readers
        /\ Plane("server") # Handshake(s, 1)
        /\ s = "client" => Plane("server") # Plane(s)
    BY CurrentTypes, ReaderSides DEF Plane, Handshake, Sides
  <1>6. CASE s = "client"
    <2>1. events'[s] = events[s] /\ due'[s] = due[s]
      BY <1>2, <1>4, <1>6 DEF ServeStep, ServerStep, Accept, ServeLoop, Serve, SendEvent,
         TakeEvent, Deal, planes
    <2>2. read'[Plane(s)] = read[Plane(s)] /\ read'[Handshake(s, 1)] = read[Handshake(s, 1)]
      <3>1. read' = read \/ read' = [read EXCEPT ![Plane("server")].pc = "len"]
        BY <1>2 DEF ServeStep, ServerStep, Accept, ServeLoop, Serve, SendEvent, EnsureStarted
      <3> QED
        BY <1>4, <1>5, <1>6, <3>1
    <2>3. Planed(s)' = Planed(s) /\ Shaken(s)' = Shaken(s)
      BY <1>1, <1>6, <2>2 DEF Planed, Shaken, Handshaken
    <2> QED
      BY <1>1, <1>3, <2>1, <2>3 DEF Way
  <1>7. CASE s = "server"
    <2>1. PICK e \in Rows, p \in Rows, b \in Rows, l \in Rows :
             e = events[s] /\ p = Planed(s) /\ b = BodiesOf(in[s]) /\ l = due[s]
      BY <1>4, WayTypes, WayBodies DEF Rows
    <2>2. Dispatched(s) = Nil /\ Dispatched(s)' = Nil
      BY <1>7 DEF Dispatched
    <2>3. l = Line(Nil, e, p, Shaken(s), b) /\ Way(s)' = Line(Nil, events'[s], Planed(s)', Shaken(s)', b)
      BY <1>1, <2>1, <2>2 DEF Way
    <2>4. CASE Accept
      <3>1. /\ srv = "accept" /\ srv' = "ack" /\ Handshaken("server", 1) = Hello /\ Deal("server")
            /\ UNCHANGED <<read, events>>
        BY <2>4 DEF Accept, planes
      <3>2. Shaken(s) = One(Hello) /\ Shaken(s)' = Nil
        BY <1>7, <3>1, PacketTypes DEF Shaken
      <3>3. ~Started("server")
        BY <3>1 DEF Turns, ServerTurns
      <3>4. e = Nil /\ p = Nil /\ events'[s] = Nil /\ Planed(s)' = Nil
        BY <1>7, <2>1, <3>1, <3>3 DEF Turns, Quiet, Nil, Planed, Started
      <3>5. /\ Line(Nil, Nil, Nil, One(Hello), b) # Nil
            /\ Line(Nil, Nil, Nil, Nil, b) = Tail(Line(Nil, Nil, Nil, One(Hello), b))
        BY LineShake, PacketTypes DEF Good
      <3>6. l # <<>> /\ Way(s)' = Tail(l)
        BY <2>3, <3>2, <3>4, <3>5 DEF Nil
      <3>7. due'[s] = Tail(l)
        BY <1>4, <1>7, <2>1, <3>1, <3>6 DEF Deal
      <3> QED
        BY <3>6, <3>7
    <2>5. CASE ServeLoop
      <3>1. srv \in {"ack", "answer"} /\ srv' = "next" /\ EnsureStarted("server") /\ UNCHANGED <<events, due>>
        BY <2>5 DEF ServeLoop, Running, planes
      <3>2. Shaken(s) = Nil /\ Shaken(s)' = Nil
        BY <1>7, <3>1 DEF Shaken
      <3>3. Planed(s)' = Planed(s)
        BY <1>4, <1>5, <1>7, <3>1 DEF Planed, EnsureStarted, Started
      <3> QED
        BY <2>1, <2>3, <3>1, <3>2, <3>3
    <2>6. CASE Serve
      <3>1. srv = "next" /\ HasNext("server") /\ TakeEvent("server") /\ srv' # "accept" /\ UNCHANGED read
        BY <2>6 DEF Serve
      <3>2. e # Nil /\ events'[s] = Tail(e) /\ NextEvent("server") \in Good
        BY <1>7, <2>1, <3>1, NextPacket
      <3>3. Deal("server")
        BY <2>6, <3>2 DEF Serve, Good
      <3>4. Shaken(s) = Nil /\ Shaken(s)' = Nil /\ Planed(s)' = p
        BY <1>7, <2>1, <3>1 DEF Shaken, Planed
      <3>5. Nil \in Rows
        BY RowOne
      <3>6. Line(Nil, e, p, Nil, b) # Nil /\ Line(Nil, Tail(e), p, Nil, b) = Tail(Line(Nil, e, p, Nil, b))
        BY <3>2, <3>5, LineTake, SMTT(60)
      <3>7. l # <<>> /\ Way(s)' = Tail(l)
        BY <2>3, <3>2, <3>4, <3>6 DEF Nil
      <3>8. due'[s] = Tail(l)
        BY <1>4, <1>7, <2>1, <3>3, <3>7 DEF Deal
      <3> QED
        BY <3>7, <3>8
    <2>7. CASE SendEvent
      <3>1. UNCHANGED <<srv, read, events, due>>
        BY <2>7 DEF SendEvent, planes
      <3>2. Shaken(s)' = Shaken(s) /\ Planed(s)' = Planed(s)
        BY <1>1, <3>1 DEF Shaken, Planed, Handshaken
      <3> QED
        BY <2>1, <2>3, <3>1, <3>2
    <2> QED
      BY <1>2, <2>4, <2>5, <2>6, <2>7 DEF ServeStep, ServerStep
  <1> QED
    BY <1>6, <1>7 DEF Sides

LEMMA FlowingKept ==
    ASSUME Types, Turns, Alternating, Sound, Flowing, [Next]_vars, Types', Alternating', Sound'
    PROVE  Flowing'
  <1> SUFFICES ASSUME Running', NEW s \in Sides, ~stopped'[s]
               PROVE  due'[s] = Way(s)'
    BY DEF Flowing
  <1>1. conn = "up" /\ connects <= 1 /\ ~stopped[s]
    BY StaysUp DEF Running
  <1>2. srv # "closing"
    <2>1. srv = "closing" /\ ServeStep => ServerClose \/ srv' = "closing"
      BY DEF ServeStep, ServerStep, Accept, AcceptFail, ServeLoop, Serve, SendEvent
    <2>2. ServerClose => conn' = "down"
      BY DEF ServerClose, MuxClose
    <2> QED
      BY <2>1, <2>2, Frames DEF Running
  <1>3. Running /\ due[s] = Way(s)
    BY <1>1, <1>2 DEF Running, Flowing
  <1>4. ~NetStep
    BY <1>3 DEF NetStep, ConnFails, StreamError, Running
  <1>5. CASE CloseStep2 \/ RequestStep \/ UNCHANGED vars
    <2>1. CloseStep2 => UNCHANGED <<in, events, read, disp, packet, done, srv, due>>
      BY DEF CloseStep2, CloseStep, CloseDispatch, ClosePlane, CloseMux, MuxClose, wire, planes, server
    <2>2. RequestStep => UNCHANGED <<in, events, read, disp, packet, done, srv, due>>
      BY DEF RequestStep, SendRequest, RequestFail, RequestReturn, wire, planes, client, server
    <2>3. UNCHANGED vars => UNCHANGED <<in, events, read, disp, packet, done, srv, due>>
      BY DEF vars, wire, planes, client, server
    <2> QED
      BY <1>3, <1>5, <2>1, <2>2, <2>3 DEF Way, Dispatched, Planed, Shaken, Handshaken
  <1> QED
    BY <1>1, <1>3, <1>4, <1>5, Steps, FlowWrite, FlowRead, FlowPlane, FlowConnect, FlowDispatch, FlowServe
-----------------------------------------------------------------------------
(* The inductive invariant.                                                *)

Inv == Types /\ Answering /\ Turns /\ Alternating /\ Ungarbled /\ Sound /\ Flowing

LEMMA InitTypes == Init => Types /\ Answering
  <1> SUFFICES ASSUME Init
               PROVE  Types /\ Answering
    OBVIOUS
  <1> USE PacketTypes DEF Init
  <1>1. WireTypes
    BY DEF WireTypes
  <1>2. Off \in Sendings /\ Off \in Readings /\ [Off EXCEPT !.pc = "len"] \in Readings
    BY DEF Off, Sendings, Readings
  <1>3. WriterTypes
    BY <1>2 DEF WriterTypes
  <1>4. ReaderTypes
    BY <1>2 DEF ReaderTypes
  <1>5. PlaneTypes
    BY BaseServiceAssumption DEF PlaneTypes
  <1>6. ClientTypes
    <2>1. done \in BOOLEAN /\ dispStop \in BOOLEAN
      BY Zenon
    <2> QED
      BY <2>1, BaseServiceAssumption DEF ClientTypes
  <1>7. Whole
    BY DEF Whole, Off
  <1>8. ServerTypes /\ RequestTypes /\ Answering
    BY DEF ServerTypes, RequestTypes, Answering
  <1> QED
    BY <1>1, <1>3, <1>4, <1>5, <1>6, <1>7, <1>8 DEF Types

LEMMA InitTurns == Init => Turns /\ Sound
  <1> SUFFICES ASSUME Init
               PROVE  Turns /\ Sound
    OBVIOUS
  <1>1. \A x \in Readers : read[x] = Off \/ read[x] = [Off EXCEPT !.pc = "len"]
    BY DEF Init
  <1>2. \A x \in Readers : x # Handshake("server", 1) => read[x] = Off
    BY DEF Init
  <1>3. \A s \in Sides : ~Started(s)
    <2>1. \A s \in Sides : Plane(s) \in Readers /\ Plane(s) # Handshake("server", 1)
      <3>1. 1 \in 1..MaxConnects /\ "server" \in Sides
        BY BaseServiceAssumption DEF Sides
      <3> QED
        BY <3>1, ReaderSides, ReaderNames
    <2> QED
      BY <1>2, <2>1 DEF Started, Off
  <1>4. Locked /\ Idle
    BY WriterNames, WriterSides DEF Init, Locked, Idle, Off
  <1>5. ClientTurns
    BY <1>2, <1>3, ReaderSides, ReaderNames DEF Init, ClientTurns, Off, Sides
  <1>6. ServerTurns
    BY <1>3 DEF Init, ServerTurns, Sides
  <1>7. Quiet
    BY DEF Init, Quiet
  <1>8. Sound
    BY <1>1 DEF Init, Sound, Off
  <1> QED
    BY <1>4, <1>5, <1>6, <1>7, <1>8 DEF Turns

LEMMA InitFlow == Init => Alternating /\ Ungarbled /\ Flowing
  <1> SUFFICES ASSUME Init
               PROVE  Alternating /\ Ungarbled /\ Flowing
    OBVIOUS
  <1>1. \A x \in Readers : read[x].pc \in {"off", "len"} /\ read[x].pkt = Failed
    BY DEF Init, Off
  <1>2. Failed # Garbled
    BY DEF Failed, Garbled, Packet
  <1>3. Ungarbled
    BY <1>1, <1>2 DEF Ungarbled
  <1>4. \A s \in Sides : /\ in[s] = <<>> /\ mu[s] = None /\ events[s] = <<>> /\ due[s] = <<>>
                         /\ Other(s) \in Sides
    BY DEF Init, Sides, Other
  <1>5. Types
    BY InitTypes
  <1>6. ASSUME NEW s \in Sides
        PROVE  Framed(in[s], At(s), conn, mu[Other(s)], wr[mu[Other(s)]].pkt)
    <2>1. Odd(At(s)) = 0
      BY <1>1, <1>5, CurrentTypes DEF At, Odd
    <2>2. Order(in[s], 0, At(s).pkt) /\ ~((Len(in[s]) + 0) % 2 = 1)
      <3>1. in[s] = <<>> /\ Len(<<>>) = 0
        BY <1>4
      <3>2. Len(in[s]) = 0
        BY <3>1
      <3> QED
        BY <3>1, <3>2 DEF Order
    <2> QED
      BY <1>4, <2>1, <2>2 DEF Framed
  <1>7. ASSUME NEW s \in Sides PROVE due[s] = Way(s)
    <2>1. Dispatched(s) = Nil /\ events[s] = Nil
      BY <1>4 DEF Init, Dispatched, Nil
    <2>2. Planed(s) = Nil /\ Shaken(s) = Nil
      BY <1>1, <1>5, CurrentTypes, ReaderSides DEF Planed, Shaken, Handshaken
    <2>3. BodiesOf(in[s]) = Nil
      <3>1. PICK q \in Seq(Parts) : q = in[s] /\ q = <<>>
        BY <1>4, <1>5 DEF Types, WireTypes
      <3>2. BodiesOf(q) = [k \in 1..((Len(q) + 0) \div 2) |-> q[2 * k - 0][2]]
        BY <3>1 DEF BodiesOf
      <3>3. (Len(q) + 0) \div 2 = 0
        BY <3>1
      <3> QED
        BY <3>1, <3>2, <3>3 DEF Nil
    <2>4. Line(Nil, Nil, Nil, Nil, Nil) = Nil
      BY RowOne, CatNil DEF Line
    <2>5. due[s] = Nil
      BY <1>4 DEF Nil
    <2> QED
      BY <2>1, <2>2, <2>3, <2>4, <2>5 DEF Way
  <1> QED
    BY <1>3, <1>6, <1>7 DEF Alternating, Flowing

LEMMA StepTypes ==
    ASSUME Types, Answering, [Next]_vars
    PROVE  Types' /\ Answering'
  BY WireTypesKept, WriterTypesKept, ReaderTypesKept, WholeKept, PlaneTypesKept, ClientTypesKept,
     AnsweringKept DEF Types

LEMMA StepTurns ==
    ASSUME Types, Turns, Sound, Alternating, [Next]_vars
    PROVE  Turns' /\ Alternating' /\ Sound'
  <1>1. Locked' /\ Idle' /\ ClientTurns' /\ ServerTurns' /\ Quiet'
    BY LockedKept, IdleKept, ClientTurnsKept, ServerTurnsKept, QuietKept DEF Turns
  <1> QED
    BY <1>1, AlternatingKept, SoundKept DEF Turns

LEMMA Invariance == Spec => []Inv
  <1>1. Init => Inv
    BY InitTypes, InitTurns, InitFlow DEF Inv
  <1>2. Inv /\ [Next]_vars => Inv'
    <2> SUFFICES ASSUME Inv, [Next]_vars
                 PROVE  Inv'
      OBVIOUS
    <2>1. Types' /\ Answering' /\ Turns' /\ Alternating' /\ Sound'
      BY StepTypes, StepTurns DEF Inv
    <2>2. Ungarbled'
      BY UngarbledKept DEF Inv, Turns
    <2>3. Flowing'
      BY <2>1, FlowingKept DEF Inv
    <2> QED
      BY <2>1, <2>2, <2>3 DEF Inv
  <1> QED
    BY <1>1, <1>2, PTL DEF Spec
-----------------------------------------------------------------------------
(***************************************************************************)
(* Every field of the clients, servers and control planes keeps its type,  *)
(* and a control channel never holds more than ControlBufferSize events.   *)
(***************************************************************************)
THEOREM BaseServiceTypeCorrect == Spec => []TypeOK
  <1>1. Inv => TypeOK
    BY DEF Inv, Types, WireTypes, WriterTypes, ReaderTypes, PlaneTypes, ClientTypes, ServerTypes,
       RequestTypes, TypeOK, Sendings, Readings
  <1> QED
    BY <1>1, Invariance, PTL

(***************************************************************************)
(* SendRequest returns an answer its Matcher accepts, however requests,    *)
(* answers, cancelled contexts and the end of the connection interleave;   *)
(* and Deliver never finds a request's channel full.                       *)
(***************************************************************************)
THEOREM AnswersAreDelivered == Spec => []AnswersDelivered
  <1>1. Inv => AnswersDelivered
    <2> SUFFICES ASSUME Inv, NEW r \in Reqs, req[r] = "answered"
                 PROVE  resp[r].type = "resp" /\ Key[resp[r].req] = Key[r]
      BY DEF AnswersDelivered, Inv, Answering
    <2>1. Match(r, resp[r])
      BY DEF Inv, Answering
    <2> QED
      BY <2>1 DEF Match
  <1> QED
    BY <1>1, Invariance, PTL

(***************************************************************************)
(* A reader of the control stream finds the start of a packet where it     *)
(* reads one, however requests, answers and unasked packets interleave,    *)
(* unless a second Connect has left the first one's reader behind.         *)
(***************************************************************************)
THEOREM GarbledOnlyByZombie == Spec => []GarbledNeedsZombie
  <1>1. Inv => GarbledNeedsZombie
    <2> SUFFICES ASSUME Inv, ~(connects > 1)
                 PROVE  \A x \in Readers : read[x].pkt # Garbled
      BY DEF GarbledNeedsZombie
    <2>1. connects <= 1
      BY DEF Inv, Types, ClientTypes
    <2> QED
      BY <2>1 DEF Inv, Ungarbled
  <1> QED
    BY <1>1, Invariance, PTL

(***************************************************************************)
(* While nothing fails or is closed, and with one Connect, the packets     *)
(* sent to a side and not dealt with are those on their way to it, in the  *)
(* order they were sent: parts on the stream, the packet a reader has,     *)
(* the control plane's buffer, the dispatcher.  None is lost, sent twice   *)
(* or overtaken, for any capacity of the buffer and any number of packets. *)
(***************************************************************************)
THEOREM NoneIsLost == Spec => []NothingLost
  <1>1. Inv => NothingLost
    BY NothingLostIsFlowing DEF Inv
  <1> QED
    BY <1>1, Invariance, PTL
=============================================================================
