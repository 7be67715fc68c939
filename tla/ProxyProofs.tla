---------------------------- MODULE ProxyProofs ----------------------------
(***************************************************************************)
(* Proofs about Proxy, for any set of connections: the types, the one      *)
(* client (Inv), and on top of them the pairs of streams (Pairs).          *)
(***************************************************************************)
EXTENDS Proxy, TLAPS

(***************************************************************************)
(* clientMu: who connects a client holds it, and there is no client yet.   *)
(***************************************************************************)
Connecting == {"dial", "hello"}
ConnectsAlone ==
    /\ links = IF client THEN 1 ELSE 0
    /\ \A c \in Conns : pc[c] \in Connecting => clientMu = c /\ ~client

Inv == TypeOK /\ ConnectsAlone

\* Closing ends of streams leaves them ends of streams.
LEMMA ShutType ==
    ASSUME NEW ends \in [Conns -> Ends], NEW set
    PROVE  Shut(ends, set) \in [Conns -> Ends]
    BY DEF Shut, Ends

\* The initial state satisfies the inductive invariant.
LEMMA InitInv == Init => Inv
  <1>1. Init => TypeOK
    <2> SUFFICES ASSUME Init PROVE TypeOK
      OBVIOUS
    <2>1. /\ local \in [Conns -> Ends] /\ cs \in [Conns -> Ends]
          /\ ss \in [Conns -> Ends] /\ remote \in [Conns -> Ends]
      BY DEF Init, Ends
    <2>2. /\ closer \in [Closers -> {"no", "client", "done"}]
          /\ fwd \in [Conns -> {"off", "wait", "copy", "end"}]
          /\ pc \in [Conns -> {"off", "get", "dial", "hello", "request", "wait", "stream", "add", "open", "end"}]
      BY DEF Init
    <2>3. /\ stopped \in BOOLEAN /\ client \in BOOLEAN /\ listener \in {"open", "closed"}
          /\ acceptor \in {"accept", "cleanup", "done"} /\ watcher \in {"watch", "cleanup", "done"}
          /\ clientMu \in Conns \cup {None} /\ link \in {"none", "up", "down"}
          /\ serve \in {"off", "on", "closing", "closed"}
      BY Zenon DEF Init
    <2>4. nextID \in Nat \ {0}
      BY DEF Init
    <2> QED
      BY <2>1, <2>2, <2>3, <2>4 DEF TypeOK
  <1>2. Init => ConnectsAlone
    BY DEF Init, ConnectsAlone, Connecting
  <1> QED
    BY <1>1, <1>2 DEF Inv
-----------------------------------------------------------------------------
(* The steps of the service.                                               *)

\* The service's own goroutines and Close keep the types.
LEMMA ServiceType ==
    ASSUME TypeOK,
           \/ AcceptError \/ WatcherStops \/ CloseBegin
           \/ \E k \in {"acceptor", "watcher"} : Cleanup(k)
           \/ \E k \in Closers : CloseClient(k)
           \/ \E c \in Conns : Accept(c)
    PROVE  TypeOK'
  <1>1. CASE AcceptError
    BY <1>1 DEF TypeOK, AcceptError, AcceptorChecks, getting, net, conn, handler, table, forward
  <1>2. CASE WatcherStops
    BY <1>2 DEF TypeOK, WatcherStops, getting, net, conn, handler, table, forward
  <1>3. CASE CloseBegin
    BY <1>3 DEF TypeOK, CloseBegin, Closers, getting, net, conn, handler, table, forward
  <1>4. ASSUME NEW k \in {"acceptor", "watcher"}, Cleanup(k) PROVE TypeOK'
    BY <1>4 DEF TypeOK, Cleanup, Closers, getting, net, conn, handler, table, forward
  <1>5. ASSUME NEW k \in Closers, CloseClient(k) PROVE TypeOK'
    <2>1. cs' \in [Conns -> Ends]
      BY <1>5, ShutType DEF TypeOK, CloseClient
    <2> QED
      BY <1>5, <2>1 DEF TypeOK, CloseClient, getting, handler, table, forward
  <1>6. ASSUME NEW c \in Conns, Accept(c) PROVE TypeOK'
    BY <1>6 DEF TypeOK, Accept, AcceptorChecks, Ends, getting, net, handler, table, forward
  <1> QED
    BY <1>1, <1>2, <1>3, <1>4, <1>5, <1>6

\* The steps of a connection, and of the client's dispatcher.
ClientStep ==
    \/ \E c \in Conns :
         \/ GetClient(c) \/ Dial(c) \/ Hello(c) \/ Request(c) \/ GetStream(c) \/ AddProxy(c)
         \/ ConnectionEnds(c) \/ ReaderEnds(c) \/ AskClose(c) \/ AskDone(c)
    \/ Dispatch \/ DispatchEnd \/ LinkFails

\* The client keeps the types.
LEMMA ClientType == ASSUME TypeOK, ClientStep PROVE TypeOK'
  <1>1. ASSUME NEW c \in Conns, GetClient(c) PROVE TypeOK'
    BY <1>1 DEF TypeOK, GetClient, Step, service, net, handler, table, forward
  <1>2. ASSUME NEW c \in Conns, Dial(c) PROVE TypeOK'
    BY <1>2 DEF TypeOK, Dial, Step, Return, Ends, service, net, handler, table, forward
  <1>3. ASSUME NEW c \in Conns, Hello(c) PROVE TypeOK'
    <2>1. CASE Return(c) /\ UNCHANGED <<client, links, link, serve>>
      BY <1>3, <2>1 DEF TypeOK, Hello, Step, Return, Ends, service, table, forward
    <2>2. CASE /\ Step(c, "request") /\ client' = TRUE /\ link' = "up" /\ serve' = "on"
               /\ UNCHANGED local
      BY <1>3, <2>2 DEF TypeOK, Hello, Step, service, table, forward
    <2> QED
      BY <1>3, <2>1, <2>2 DEF Hello
  <1>4. ASSUME NEW c \in Conns, Request(c) PROVE TypeOK'
    BY <1>4 DEF TypeOK, Request, Step, Return, Ends, service, getting, handler, table, forward
  <1>5. ASSUME NEW c \in Conns, GetStream(c) PROVE TypeOK'
    BY <1>5 DEF TypeOK, GetStream, Step, Return, Ends, service, getting, net, handler, table, forward
  <1>6. ASSUME NEW c \in Conns, AddProxy(c) PROVE TypeOK'
    BY <1>6 DEF TypeOK, AddProxy, Step, service, getting, net, handler, table, forward
  <1>7. ASSUME NEW c \in Conns, ConnectionEnds(c) PROVE TypeOK'
    BY <1>7 DEF TypeOK, ConnectionEnds, Step, Return, Ends, service, getting, net, handler, table, forward
  <1>8. ASSUME NEW c \in Conns, ReaderEnds(c) PROVE TypeOK'
    <2>1. cs' \in [Conns -> Ends]
      BY <1>8, ShutType DEF TypeOK, ReaderEnds, CloseClientEnds
    <2> QED
      BY <1>8, <2>1 DEF TypeOK, ReaderEnds, Ends, service, getting, net, handler, table, forward
  <1>9. ASSUME NEW c \in Conns, AskClose(c) PROVE TypeOK'
    BY <1>9 DEF TypeOK, AskClose, service, getting, handler, table, forward
  <1>10. ASSUME NEW c \in Conns, AskDone(c) PROVE TypeOK'
    <2>1. cs' \in [Conns -> Ends]
      BY <1>10, ShutType DEF TypeOK, AskDone, CloseClientEnds
    <2> QED
      BY <1>10, <2>1 DEF TypeOK, AskDone, service, getting, net, handler, table, forward
  <1>11. CASE Dispatch
    <2>1. \/ pc' = pc /\ local' = local
          \/ \E c \in Conns : Step(c, "stream") /\ local' = local
          \/ \E c \in Conns : Return(c)
      BY <1>11 DEF Dispatch
    <2>2. /\ pc' \in [Conns -> {"off", "get", "dial", "hello", "request", "wait", "stream", "add", "open", "end"}]
          /\ local' \in [Conns -> Ends]
      BY <2>1 DEF TypeOK, Step, Return, Ends
    <2> QED
      BY <1>11, <2>2 DEF TypeOK, Dispatch, service, getting, handler, table, forward
  <1>12. CASE DispatchEnd
    BY <1>12 DEF TypeOK, DispatchEnd, Ends, service, getting, handler, table, forward
  <1>13. CASE LinkFails
    BY <1>13 DEF TypeOK, LinkFails, service, getting, conn, handler, table, forward
  <1> QED
    BY <1>1, <1>2, <1>3, <1>4, <1>5, <1>6, <1>7, <1>8, <1>9, <1>10, <1>11, <1>12, <1>13
       DEF ClientStep

\* The steps of the server.
ServerStep ==
    \/ \E c \in Conns :
         \/ HandleOpen(c) \/ OpenStream(c) \/ AnswerOpen(c) \/ AddServerProxy(c)
         \/ HandleClose(c) \/ RemoveServerProxy(c)
         \/ ForwardStart(c) \/ (\E dir \in {"out", "in"} : CopyEnds(c, dir)) \/ ForwardEnd(c)
    \/ ServeEnds \/ ServerClose

\* The server keeps the types, and the rest of the service its state.
LEMMA ServerType == ASSUME TypeOK, ServerStep PROVE TypeOK' /\ UNCHANGED <<getting, pc>>
  <1>1. ASSUME NEW c \in Conns, HandleOpen(c) PROVE TypeOK' /\ UNCHANGED <<getting, pc>>
    <2>1. remote' \in [Conns -> Ends] /\ serve' \in {"off", "on", "closing", "closed"}
      BY <1>1 DEF TypeOK, HandleOpen, Reply, Ends
    <2> QED
      BY <1>1, <2>1 DEF TypeOK, HandleOpen, service, getting, conn
  <1>2. ASSUME NEW c \in Conns, OpenStream(c) PROVE TypeOK' /\ UNCHANGED <<getting, pc>>
    <2>1. nextID' \in Nat \ {0}
      BY <1>2 DEF TypeOK, OpenStream, IDAfter
    <2>2. ss' \in [Conns -> Ends] /\ serve' \in {"off", "on", "closing", "closed"}
      BY <1>2 DEF TypeOK, OpenStream, Reply, Ends
    <2> QED
      BY <1>2, <2>1, <2>2 DEF TypeOK, OpenStream, service, getting, conn
  <1>3. ASSUME NEW c \in Conns, AnswerOpen(c) PROVE TypeOK' /\ UNCHANGED <<getting, pc>>
    BY <1>3 DEF TypeOK, AnswerOpen, Then, Ends, service, getting, conn, table
  <1>4. ASSUME NEW c \in Conns, AddServerProxy(c) PROVE TypeOK' /\ UNCHANGED <<getting, pc>>
    BY <1>4 DEF TypeOK, AddServerProxy, service, getting, net, conn
  <1>5. ASSUME NEW c \in Conns, HandleClose(c) PROVE TypeOK' /\ UNCHANGED <<getting, pc>>
    <2>1. ss' \in [Conns -> Ends]
      BY <1>5, ShutType DEF TypeOK, HandleClose, CloseServerEnds
    <2> QED
      BY <1>5, <2>1 DEF TypeOK, HandleClose, RemoteClosed, Ends, service, getting, conn, table
  <1>6. ASSUME NEW c \in Conns, RemoveServerProxy(c) PROVE TypeOK' /\ UNCHANGED <<getting, pc>>
    <2>1. ss' \in [Conns -> Ends]
      BY <1>6, ShutType DEF TypeOK, RemoveServerProxy, CloseServerEnds
    <2> QED
      BY <1>6, <2>1 DEF TypeOK, RemoveServerProxy, Reply, service, getting, conn
  <1>7. ASSUME NEW c \in Conns, ForwardStart(c) PROVE TypeOK' /\ UNCHANGED <<getting, pc>>
    BY <1>7 DEF TypeOK, ForwardStart, service, getting, net, conn, handler
  <1>8. ASSUME NEW c \in Conns, NEW dir \in {"out", "in"}, CopyEnds(c, dir)
        PROVE  TypeOK' /\ UNCHANGED <<getting, pc>>
    BY <1>8 DEF TypeOK, CopyEnds, service, getting, net, conn, handler, table
  <1>9. ASSUME NEW c \in Conns, ForwardEnd(c) PROVE TypeOK' /\ UNCHANGED <<getting, pc>>
    <2>1. ss' \in [Conns -> Ends]
      BY <1>9, ShutType DEF TypeOK, ForwardEnd, CloseServerEnds
    <2> QED
      BY <1>9, <2>1 DEF TypeOK, ForwardEnd, Ends, service, getting, net, conn, handler, table
  <1>10. CASE ServeEnds
    BY <1>10 DEF TypeOK, ServeEnds, service, getting, net, conn, table, forward
  <1>11. CASE ServerClose
    <2>1. ss' \in [Conns -> Ends]
      BY <1>11, ShutType DEF TypeOK, ServerClose, CloseServerEnds
    <2> QED
      BY <1>11, <2>1 DEF TypeOK, ServerClose, service, getting, conn
  <1> QED
    BY <1>1, <1>2, <1>3, <1>4, <1>5, <1>6, <1>7, <1>8, <1>9, <1>10, <1>11 DEF ServerStep
-----------------------------------------------------------------------------
(* One client.                                                             *)

\* What leaves the client alone and lets nobody start to connect keeps
\* ConnectsAlone.
LEMMA OthersKeep ==
    ASSUME ConnectsAlone, UNCHANGED getting,
           \A c \in Conns : pc'[c] \in Connecting => pc[c] \in Connecting
    PROVE  ConnectsAlone'
    BY DEF ConnectsAlone, getting

\* getOrCreateClient: only one connection is between Lock and Unlock.
LEMMA ClientConnectsAlone == ASSUME Inv, ClientStep PROVE ConnectsAlone'
  <1> USE DEF Inv
  <1>1. ASSUME NEW c \in Conns, GetClient(c) PROVE ConnectsAlone'
    <2>1. \A d \in Conns : d # c => pc'[d] = pc[d] /\ pc[d] \notin Connecting
      BY <1>1, ProxyAssumption DEF GetClient, ClientMuFree, Step, ConnectsAlone, TypeOK
    <2>2. CASE client
      BY <1>1, <2>1, <2>2 DEF GetClient, Step, ConnectsAlone, Connecting, TypeOK
    <2>3. CASE ~client
      BY <1>1, <2>1, <2>3 DEF GetClient, Step, ConnectsAlone, Connecting, TypeOK
    <2> QED
      BY <2>2, <2>3
  <1>2. ASSUME NEW c \in Conns, Dial(c) \/ Hello(c) PROVE ConnectsAlone'
    <2>1. clientMu = c /\ ~client /\ links = 0
      BY <1>2 DEF Dial, Hello, ConnectsAlone, Connecting
    <2>2. \A d \in Conns : d # c => pc'[d] = pc[d] /\ pc[d] \notin Connecting
      BY <1>2, <2>1 DEF Dial, Hello, Step, Return, ConnectsAlone, TypeOK
    <2>3. CASE Dial(c)
      BY <2>1, <2>2, <2>3 DEF Dial, Step, Return, ConnectsAlone, Connecting, TypeOK
    <2>4. CASE Hello(c)
      <3>1. pc'[c] \notin Connecting
        BY <2>4 DEF Hello, Step, Return, Connecting, TypeOK
      <3>2. links' = IF client' THEN 1 ELSE 0
        BY <2>1, <2>4 DEF Hello
      <3> QED
        BY <2>2, <3>1, <3>2 DEF ConnectsAlone
    <2> QED
      BY <1>2, <2>3, <2>4
  <1>3. ASSUME NEW c \in Conns,
               \/ Request(c) \/ GetStream(c) \/ AddProxy(c) \/ ConnectionEnds(c)
        PROVE  ConnectsAlone'
    <2>1. UNCHANGED getting
      BY <1>3 DEF Request, GetStream, AddProxy, ConnectionEnds
    <2>2. \A d \in Conns : pc'[d] \in Connecting => pc[d] \in Connecting
      BY <1>3 DEF Request, GetStream, AddProxy, ConnectionEnds, Step, Return, Connecting, TypeOK
    <2> QED
      BY <2>1, <2>2, OthersKeep
  <1>4. ASSUME NEW c \in Conns, ReaderEnds(c) \/ AskClose(c) \/ AskDone(c)
        PROVE  ConnectsAlone'
    BY <1>4, OthersKeep DEF ReaderEnds, AskClose, AskDone
  <1>5. CASE Dispatch
    <2>1. \/ pc' = pc
          \/ \E c \in Conns : Step(c, "stream") \/ Step(c, "end")
      BY <1>5 DEF Dispatch, Return
    <2>2. \A d \in Conns : pc'[d] \in Connecting => pc[d] \in Connecting
      BY <2>1 DEF Step, Connecting, TypeOK
    <2> QED
      BY <1>5, <2>2, OthersKeep DEF Dispatch
  <1>6. CASE DispatchEnd
    BY <1>6, OthersKeep DEF DispatchEnd, Connecting
  <1>7. CASE LinkFails
    BY <1>7, OthersKeep DEF LinkFails, conn
  <1> QED
    BY <1>1, <1>2, <1>3, <1>4, <1>5, <1>6, <1>7 DEF ClientStep

\* Every step preserves the invariant.
LEMMA NextInv == ASSUME Inv, Next PROVE Inv'
  <1>1. CASE \/ AcceptError \/ WatcherStops \/ CloseBegin
             \/ \E k \in {"acceptor", "watcher"} : Cleanup(k)
             \/ \E k \in Closers : CloseClient(k)
             \/ \E c \in Conns : Accept(c)
    <2>1. UNCHANGED getting
      BY <1>1 DEF AcceptError, WatcherStops, CloseBegin, Cleanup, CloseClient, Accept
    <2>2. \A d \in Conns : pc'[d] \in Connecting => pc[d] \in Connecting
      BY <1>1 DEF AcceptError, WatcherStops, CloseBegin, Cleanup, CloseClient, Accept, conn,
                  Connecting, Inv, TypeOK
    <2> QED
      BY <1>1, <2>1, <2>2, ServiceType, OthersKeep DEF Inv
  <1>2. CASE ClientStep
    BY <1>2, ClientType, ClientConnectsAlone DEF Inv
  <1>3. CASE ServerStep
    BY <1>3, ServerType, OthersKeep DEF Inv
  <1> QED
    BY <1>1, <1>2, <1>3 DEF Next, ClientStep, ServerStep

\* A step that changes nothing preserves it too.
LEMMA StutterInv == ASSUME Inv, UNCHANGED vars PROVE Inv'
    BY DEF Inv, TypeOK, ConnectsAlone, vars, service, getting, net, conn, handler, table, forward

\* The invariant holds in every reachable state.
LEMMA Invariance == Spec => []Inv
  <1>1. Inv /\ [Next]_vars => Inv'
    BY NextInv, StutterInv
  <1> QED
    BY InitInv, <1>1, PTL DEF Spec
-----------------------------------------------------------------------------
(***************************************************************************)
(* Service, client and server keep the types of their state; a stream ID   *)
(* is never 0, which is the control stream's.                              *)
(***************************************************************************)
THEOREM ProxyTypeCorrect == Spec => []TypeOK
  <1>1. Inv => TypeOK
    BY DEF Inv
  <1> QED
    BY Invariance, <1>1, PTL

(***************************************************************************)
(* However many connections are accepted at once, getOrCreateClient        *)
(* connects one client.                                                    *)
(***************************************************************************)
THEOREM ConnectsOnce == Spec => []OneLink
  <1>1. Inv => OneLink
    BY DEF Inv, ConnectsAlone, OneLink
  <1> QED
    BY Invariance, <1>1, PTL
-----------------------------------------------------------------------------
(***************************************************************************)
(* A stream of its own for each connection: a connection asks for one once *)
(* (Asks: the request is on its way, Opening: or in the hands of Serve),   *)
(* its stream has an ID no other had, and the answer with that ID (Grants) *)
(* comes after the ID is set for good.                                     *)
(***************************************************************************)
Requests == {"open", "close"} \X Conns
Answers == [re : {"open", "close"}, c : Conns, ok : BOOLEAN, id : Nat]
Work == [at : {"none", "stream", "answer", "add", "remove"}, c : Conns \cup {None}]

Asks(q, c) == \E i \in 1..Len(q) : q[i] = <<"open", c>>
AsksOnce(q, c) == \A i, j \in 1..Len(q) : q[i] = <<"open", c>> /\ q[j] = <<"open", c>> => i = j
Grants(q, c, n) == \E i \in 1..Len(q) : q[i] = Opened(c, TRUE, n)
Handles(w, c) == w = [at |-> "stream", c |-> c] \/ w = [at |-> "answer", c |-> c]

Before == {"off", "get", "dial", "hello", "request"}
Having == {"stream", "add", "open"}
Opening(c) == Asks(toServer, c) \/ Handles(work, c)

PairTypes ==
    /\ toServer \in Seq(Requests) /\ toClient \in Seq(Answers) /\ work \in Work
    /\ cid \in [Conns -> Nat] /\ sid \in [Conns -> Nat]
IDsDiffer ==
    /\ \A c \in Conns : sid[c] < nextID
    /\ \A c, d \in Conns : c # d /\ sid[c] # 0 => sid[c] # sid[d]
OpensOnce ==
    \A c \in Conns :
      /\ AsksOnce(toServer, c)
      /\ Handles(work, c) => ~Asks(toServer, c)
      /\ Opening(c) => pc[c] \in {"wait", "end"} /\ cs[c] = "none"
      /\ work = [at |-> "answer", c |-> c] => sid[c] # 0
AnswersMatch ==
    \A c \in Conns, n \in Nat : Grants(toClient, c, n) =>
      n = sid[c] /\ n # 0 /\ ~Opening(c) /\ pc[c] \notin Before
Pairing ==
    \A c \in Conns :
      /\ pc[c] \in Before \cup {"wait"} => cs[c] = "none"
      /\ pc[c] \in Having \/ cs[c] # "none" => cid[c] = sid[c] /\ sid[c] # 0

Pairs == PairTypes /\ IDsDiffer /\ OpensOnce /\ AnswersMatch /\ Pairing

\* A queue with one more or one less.
LEMMA Queued ==
    ASSUME NEW S, NEW q \in Seq(S), NEW x \in S
    PROVE  /\ Append(q, x) \in Seq(S) /\ Len(Append(q, x)) = Len(q) + 1
           /\ \A i \in 1..Len(q) : Append(q, x)[i] = q[i]
           /\ Append(q, x)[Len(q) + 1] = x
    OBVIOUS

LEMMA Taken ==
    ASSUME NEW S, NEW q \in Seq(S), q # <<>>
    PROVE  /\ Tail(q) \in Seq(S) /\ Len(Tail(q)) = Len(q) - 1 /\ Len(q) \in Nat \ {0}
           /\ \A i \in 1..Len(Tail(q)) : Tail(q)[i] = q[i + 1]
           /\ Head(q) = q[1] /\ Head(q) \in S
    OBVIOUS

\* Requests sent and taken.
LEMMA AskMore ==
    ASSUME NEW q \in Seq(Requests), NEW r \in Requests, NEW c \in Conns
    PROVE  /\ Asks(Append(q, r), c) <=> Asks(q, c) \/ r = <<"open", c>>
           /\ AsksOnce(q, c) /\ (r = <<"open", c>> => ~Asks(q, c)) => AsksOnce(Append(q, r), c)
  <1> DEFINE a == Append(q, r)
  <1>1. /\ a \in Seq(Requests) /\ Len(a) = Len(q) + 1 /\ Len(q) \in Nat
        /\ \A i \in 1..Len(q) : a[i] = q[i]
        /\ a[Len(q) + 1] = r
    BY Queued
  <1> HIDE DEF a
  <1>2. /\ \A i \in 1..Len(a) : (i \in 1..Len(q) /\ a[i] = q[i]) \/ i = Len(q) + 1
        /\ \A i \in 1..Len(q) : i \in 1..Len(a) /\ i # Len(q) + 1
        /\ Len(q) + 1 \in 1..Len(a)
    BY <1>1
  <1>3. Asks(a, c) => Asks(q, c) \/ r = <<"open", c>>
    BY <1>1, <1>2, Zenon DEF Asks
  <1>4. Asks(q, c) \/ r = <<"open", c>> => Asks(a, c)
    BY <1>1, <1>2, Zenon DEF Asks
  <1>5. AsksOnce(q, c) /\ (r = <<"open", c>> => ~Asks(q, c)) => AsksOnce(a, c)
    BY <1>1, <1>2, Zenon DEF Asks, AsksOnce
  <1> QED
    BY <1>3, <1>4, <1>5 DEF a

LEMMA AskLess ==
    ASSUME NEW q \in Seq(Requests), q # <<>>, NEW c \in Conns, AsksOnce(q, c)
    PROVE  /\ Asks(Tail(q), c) => Asks(q, c)
           /\ AsksOnce(Tail(q), c)
           /\ Head(q) = <<"open", c>> => Asks(q, c) /\ ~Asks(Tail(q), c)
  <1> DEFINE t == Tail(q)
  <1>1. /\ t \in Seq(Requests) /\ Len(t) = Len(q) - 1 /\ Len(q) \in Nat \ {0}
        /\ \A i \in 1..Len(t) : t[i] = q[i + 1]
        /\ Head(q) = q[1]
    BY Taken
  <1> HIDE DEF t
  <1>2. \A i \in 1..Len(t) : i + 1 \in 1..Len(q) /\ i + 1 # 1
    BY <1>1
  <1>3. Asks(t, c) => Asks(q, c)
    BY <1>1, <1>2 DEF Asks
  <1>4. AsksOnce(t, c)
    BY <1>1, <1>2 DEF AsksOnce
  <1>5. Head(q) = <<"open", c>> => Asks(q, c) /\ ~Asks(t, c)
    BY <1>1, <1>2 DEF Asks, AsksOnce
  <1> QED
    BY <1>3, <1>4, <1>5 DEF t

\* Answers sent and taken.
LEMMA GrantMore ==
    ASSUME NEW q \in Seq(Answers), NEW r \in Answers, NEW c \in Conns, NEW n \in Nat
    PROVE  Grants(Append(q, r), c, n) <=> Grants(q, c, n) \/ r = Opened(c, TRUE, n)
  <1> DEFINE a == Append(q, r)
  <1>1. /\ Len(a) = Len(q) + 1 /\ Len(q) \in Nat
        /\ \A i \in 1..Len(q) : a[i] = q[i]
        /\ a[Len(q) + 1] = r
    BY Queued
  <1> HIDE DEF a
  <1>2. /\ \A i \in 1..Len(a) : (i \in 1..Len(q) /\ a[i] = q[i]) \/ i = Len(q) + 1
        /\ \A i \in 1..Len(q) : i \in 1..Len(a) /\ i # Len(q) + 1
        /\ Len(q) + 1 \in 1..Len(a)
    BY <1>1
  <1>3. Grants(a, c, n) => Grants(q, c, n) \/ r = Opened(c, TRUE, n)
    BY <1>1, <1>2, Zenon DEF Grants
  <1>4. Grants(q, c, n) \/ r = Opened(c, TRUE, n) => Grants(a, c, n)
    BY <1>1, <1>2, Zenon DEF Grants
  <1> QED
    BY <1>3, <1>4 DEF a

LEMMA GrantLess ==
    ASSUME NEW q \in Seq(Answers), q # <<>>, NEW c \in Conns, NEW n \in Nat
    PROVE  /\ Grants(Tail(q), c, n) => Grants(q, c, n)
           /\ Head(q) = Opened(c, TRUE, n) => Grants(q, c, n)
  <1> DEFINE t == Tail(q)
  <1>1. /\ Len(t) = Len(q) - 1 /\ Len(q) \in Nat \ {0}
        /\ \A i \in 1..Len(t) : t[i] = q[i + 1]
        /\ Head(q) = q[1]
    BY Taken
  <1> HIDE DEF t
  <1>2. \A i \in 1..Len(t) : i + 1 \in 1..Len(q)
    BY <1>1
  <1>3. Grants(t, c, n) => Grants(q, c, n)
    BY <1>1, <1>2 DEF Grants
  <1>4. 1 \in 1..Len(q)
    BY <1>1
  <1>5. Head(q) = Opened(c, TRUE, n) => Grants(q, c, n)
    BY <1>1, <1>4, Zenon DEF Grants
  <1> QED
    BY <1>3, <1>5 DEF t

\* What answers there are.
LEMMA AnswerTypes ==
    ASSUME NEW c \in Conns, NEW ok \in BOOLEAN, NEW n \in Nat
    PROVE  /\ Opened(c, ok, n) \in Answers /\ Closed(c) \in Answers
           /\ \A d \in Conns, m \in Nat :
                /\ Closed(c) # Opened(d, TRUE, m)
                /\ Opened(c, ok, n) = Opened(d, TRUE, m) => ok /\ c = d /\ n = m
    BY DEF Opened, Closed, Answers

LEMMA RefusalTypes ==
    ASSUME NEW c \in Conns
    PROVE  /\ Opened(c, FALSE, 0) \in Answers
           /\ \A d \in Conns, m \in Nat : Opened(c, FALSE, 0) # Opened(d, TRUE, m)
    BY DEF Opened, Answers

\* An end that was never opened stays so.
LEMMA ShutKeeps ==
    ASSUME NEW ends \in [Conns -> Ends], NEW set, NEW c \in Conns
    PROVE  ends[c] = "none" <=> Shut(ends, set)[c] = "none"
    BY DEF Shut, Ends
-----------------------------------------------------------------------------
(* Steps that neither ask for a stream nor give one.                       *)

Moves(c) ==
    /\ \/ pc'[c] = pc[c]
       \/ pc[c] \in Before /\ pc'[c] \in Before \cup {"end"}
       \/ pc[c] \in Having /\ pc'[c] \in Having \cup {"end"}
       \/ pc[c] = "wait" /\ pc'[c] = "end"
    /\ cs[c] = "none" /\ pc[c] # "stream" => cs'[c] = "none"

\* No more requests and answers that matter than before; the answer to one
\* who waits may be a refusal.
NoMore ==
    /\ toServer' \in Seq(Requests) /\ toClient' \in Seq(Answers) /\ work' \in Work
    /\ \A c \in Conns :
         /\ AsksOnce(toServer', c)
         /\ Handles(work', c) => ~Asks(toServer', c)
         /\ Opening(c)' => Opening(c)
         /\ work' = [at |-> "answer", c |-> c] => work = [at |-> "answer", c |-> c]
         /\ \A n \in Nat : Grants(toClient', c, n) => Grants(toClient, c, n)

Refusals ==
    /\ cid' \in [Conns -> Nat]
    /\ \A c \in Conns : cid'[c] = cid[c] \/ (pc[c] = "wait" /\ pc'[c] = "end")

\* They keep the pairs.
LEMMA QuietKeeps ==
    ASSUME TypeOK, Pairs, \A c \in Conns : Moves(c), NoMore, Refusals,
           sid' = sid, nextID' \in Nat, nextID' >= nextID
    PROVE  Pairs'
  <1> USE DEF Pairs
  <1>1. PairTypes'
    BY DEF PairTypes, NoMore, Refusals
  <1>2. IDsDiffer'
    BY DEF IDsDiffer, PairTypes, TypeOK
  <1>3. \A c \in Conns : Opening(c)' => Opening(c)
    BY DEF NoMore
  <1>5. OpensOnce'
    <2> SUFFICES ASSUME NEW c \in Conns
                 PROVE  /\ AsksOnce(toServer', c)
                        /\ Handles(work', c) => ~Asks(toServer', c)
                        /\ Opening(c)' => pc'[c] \in {"wait", "end"} /\ cs'[c] = "none"
                        /\ work' = [at |-> "answer", c |-> c] => sid'[c] # 0
      BY DEF OpensOnce
    <2>1. AsksOnce(toServer', c) /\ (Handles(work', c) => ~Asks(toServer', c))
      BY DEF NoMore
    <2>2. Opening(c)' => pc'[c] \in {"wait", "end"} /\ cs'[c] = "none"
      BY <1>3 DEF OpensOnce, Moves, Before, Having
    <2>3. work' = [at |-> "answer", c |-> c] => sid'[c] # 0
      BY DEF OpensOnce, NoMore
    <2> QED
      BY <2>1, <2>2, <2>3
  <1>6. AnswersMatch'
    <2> SUFFICES ASSUME NEW c \in Conns, NEW n \in Nat, Grants(toClient', c, n)
                 PROVE  n = sid'[c] /\ n # 0 /\ ~Opening(c)' /\ pc'[c] \notin Before
      BY DEF AnswersMatch
    <2>1. n = sid[c] /\ n # 0 /\ ~Opening(c) /\ pc[c] \notin Before
      BY DEF AnswersMatch, NoMore
    <2> QED
      BY <1>3, <2>1 DEF Moves, Before, Having
  <1>7. Pairing'
    <2> SUFFICES ASSUME NEW c \in Conns
                 PROVE  /\ pc'[c] \in Before \cup {"wait"} => cs'[c] = "none"
                        /\ pc'[c] \in Having \/ cs'[c] # "none" => cid'[c] = sid'[c] /\ sid'[c] # 0
      BY DEF Pairing
    <2>1. pc'[c] \in Before \cup {"wait"} => cs'[c] = "none"
      BY DEF Pairing, Moves, Before, Having
    <2>2. pc'[c] \in Having \/ cs'[c] # "none" => cid'[c] = sid'[c] /\ sid'[c] # 0
      BY DEF Pairing, Moves, Refusals, Before, Having
    <2> QED
      BY <2>1, <2>2
  <1> QED
    BY <1>1, <1>2, <1>5, <1>6, <1>7

\* The IDs are as they were.
LEMMA SameRefusals == ASSUME Pairs, cid' = cid PROVE Refusals
    BY DEF Pairs, PairTypes, Refusals

\* What leaves queues and handler alone.
LEMMA SameNoMore ==
    ASSUME Pairs, UNCHANGED <<toServer, toClient, work>>
    PROVE  NoMore
    BY DEF Pairs, PairTypes, OpensOnce, Opening, NoMore

\* The service only moves connections that start.
LEMMA ServicePairs ==
    ASSUME TypeOK, Pairs,
           \/ AcceptError \/ WatcherStops \/ CloseBegin
           \/ \E k \in {"acceptor", "watcher"} : Cleanup(k)
           \/ \E k \in Closers : CloseClient(k)
           \/ \E c \in Conns : Accept(c)
    PROVE  Pairs'
  <1>1. UNCHANGED <<toServer, toClient, work, cid, sid, nextID>>
    BY DEF AcceptError, WatcherStops, CloseBegin, Cleanup, CloseClient, Accept, net, conn,
           handler, forward
  <1>2. \A c \in Conns : Moves(c)
    <2>1. CASE \/ AcceptError \/ WatcherStops \/ CloseBegin
               \/ \E k \in {"acceptor", "watcher"} : Cleanup(k)
      BY <2>1 DEF AcceptError, WatcherStops, CloseBegin, Cleanup, conn, Moves
    <2>2. ASSUME NEW k \in Closers, CloseClient(k) PROVE \A c \in Conns : Moves(c)
      <3>1. \A c \in Conns : cs[c] = "none" => cs'[c] = "none"
        BY <2>2, ShutKeeps DEF CloseClient, TypeOK
      <3> QED
        BY <2>2, <3>1 DEF CloseClient, Moves
    <2>3. ASSUME NEW c \in Conns, Accept(c) PROVE \A d \in Conns : Moves(d)
      BY <2>3 DEF Accept, Moves, Before, TypeOK
    <2> QED
      BY <2>1, <2>2, <2>3
  <1>3. NoMore
    BY <1>1, SameNoMore
  <1>4. nextID' \in Nat /\ nextID' >= nextID
    BY <1>1 DEF TypeOK
  <1> QED
    BY <1>1, <1>2, <1>3, <1>4, SameRefusals, QuietKeeps

\* Steps of a connection that leave the queues alone.
LEMMA ConnPairs ==
    ASSUME TypeOK, Pairs, NEW c \in Conns,
           \/ GetClient(c) \/ Dial(c) \/ Hello(c) \/ GetStream(c) \/ AddProxy(c)
           \/ ConnectionEnds(c) \/ ReaderEnds(c) \/ AskDone(c)
    PROVE  Pairs'
  <1>1. UNCHANGED <<toServer, toClient, work, cid, sid, nextID>>
    BY DEF GetClient, Dial, Hello, GetStream, AddProxy, ConnectionEnds, ReaderEnds, AskDone, net,
           handler, forward
  <1>2. \A d \in Conns : Moves(d)
    <2>1. CASE GetClient(c) \/ Dial(c) \/ Hello(c)
      BY <2>1 DEF GetClient, Dial, Hello, Step, Return, Moves, Before, TypeOK
    <2>2. CASE GetStream(c)
      BY <2>2 DEF GetStream, Step, Return, Moves, Having, TypeOK
    <2>3. CASE AddProxy(c) \/ ConnectionEnds(c)
      BY <2>3 DEF AddProxy, ConnectionEnds, Step, Return, Moves, Having, TypeOK
    <2>4. CASE ReaderEnds(c) \/ AskDone(c)
      <3>1. \A d \in Conns : cs[d] = "none" => cs'[d] = "none"
        BY <2>4, ShutKeeps DEF ReaderEnds, AskDone, CloseClientEnds, TypeOK
      <3> QED
        BY <2>4, <3>1 DEF ReaderEnds, AskDone, Moves
    <2> QED
      BY <2>1, <2>2, <2>3, <2>4
  <1>3. NoMore
    BY <1>1, SameNoMore
  <1>4. nextID' \in Nat /\ nextID' >= nextID
    BY <1>1 DEF TypeOK
  <1> QED
    BY <1>1, <1>2, <1>3, <1>4, SameRefusals, QuietKeeps

\* A request to close, and the end of the client's dispatcher.
LEMMA DownPairs ==
    ASSUME TypeOK, Pairs, (\E c \in Conns : AskClose(c)) \/ DispatchEnd \/ LinkFails
    PROVE  Pairs'
  <1> USE DEF Pairs
  <1>1. UNCHANGED <<work, cid, sid, nextID>>
    BY DEF AskClose, DispatchEnd, LinkFails, conn, handler, forward
  <1>2. \A d \in Conns : Moves(d)
    BY DEF AskClose, DispatchEnd, LinkFails, conn, Moves
  <1>3. ASSUME NEW c \in Conns, AskClose(c) PROVE NoMore
    <2>1. <<"close", c>> \in Requests /\ \A d \in Conns : <<"close", c>> # <<"open", d>>
      BY DEF Requests
    <2>2. toServer' = Append(toServer, <<"close", c>>) /\ toClient' = toClient
      BY <1>3 DEF AskClose
    <2>3. toServer' \in Seq(Requests)
      BY <2>1, <2>2, Queued DEF PairTypes
    <2>4. \A d \in Conns : (Asks(toServer', d) => Asks(toServer, d)) /\ AsksOnce(toServer', d)
      BY <2>1, <2>2, AskMore DEF PairTypes, OpensOnce
    <2> QED
      BY <1>1, <2>2, <2>3, <2>4 DEF NoMore, PairTypes, OpensOnce, Opening
  <1>4. ASSUME DispatchEnd PROVE NoMore
    <2>1. toServer' = toServer /\ toClient' = <<>>
      BY <1>4 DEF DispatchEnd
    <2>2. toClient' \in Seq(Answers) /\ Len(toClient') = 0
      BY <2>1
    <2>3. \A d \in Conns, n \in Nat : ~Grants(toClient', d, n)
      BY <2>2 DEF Grants
    <2> QED
      BY <1>1, <2>1, <2>2, <2>3 DEF NoMore, PairTypes, OpensOnce, Opening
  <1>5. ASSUME LinkFails PROVE NoMore
    <2>1. UNCHANGED <<toServer, toClient, work>>
      BY <1>5 DEF LinkFails, handler
    <2> QED
      BY <2>1, SameNoMore
  <1>6. nextID' \in Nat /\ nextID' >= nextID
    BY <1>1 DEF TypeOK
  <1> QED
    BY <1>1, <1>2, <1>3, <1>4, <1>5, <1>6, SameRefusals, QuietKeeps

\* An answer that gives no stream.
LEMMA Refuses ==
    ASSUME Pairs, NEW r \in Answers, \A d \in Conns, n \in Nat : r # Opened(d, TRUE, n), Reply(r)
    PROVE  /\ toClient' \in Seq(Answers) /\ work' \in Work
           /\ \A d \in Conns : ~Handles(work', d)
           /\ \A d \in Conns, n \in Nat : Grants(toClient', d, n) => Grants(toClient, d, n)
  <1>1. toClient \in Seq(Answers)
    BY DEF Pairs, PairTypes
  <1>2. toClient' = toClient \/ toClient' = Append(toClient, r)
    BY DEF Reply
  <1>3. toClient' \in Seq(Answers)
    BY <1>1, <1>2, Queued
  <1>4. \A d \in Conns, n \in Nat : Grants(toClient', d, n) => Grants(toClient, d, n)
    <2> TAKE d \in Conns, n \in Nat
    <2>1. r # Opened(d, TRUE, n)
      OBVIOUS
    <2> QED
      BY <1>1, <1>2, <2>1, GrantMore
  <1>5. work' \in Work /\ \A d \in Conns : ~Handles(work', d)
    BY DEF Reply, No, Work, Handles
  <1> QED
    BY <1>3, <1>4, <1>5

\* The server beside the opening of streams.
LEMMA ServerPairs ==
    ASSUME TypeOK, Pairs,
           \/ \E c \in Conns :
                \/ AddServerProxy(c) \/ HandleClose(c) \/ RemoveServerProxy(c)
                \/ ForwardStart(c) \/ (\E dir \in {"out", "in"} : CopyEnds(c, dir)) \/ ForwardEnd(c)
           \/ ServeEnds \/ ServerClose
    PROVE  Pairs'
  <1> USE DEF Pairs
  <1>1. UNCHANGED <<pc, cs, cid, sid, nextID>>
    BY DEF AddServerProxy, HandleClose, RemoveServerProxy, ForwardStart, CopyEnds, ForwardEnd,
           ServeEnds, ServerClose, conn, handler, forward
  <1>2. \A d \in Conns : Moves(d)
    BY <1>1 DEF Moves
  <1>3. ASSUME \/ \E c \in Conns :
                    \/ ForwardStart(c) \/ (\E dir \in {"out", "in"} : CopyEnds(c, dir)) \/ ForwardEnd(c)
               \/ ServeEnds
        PROVE  NoMore
    <2>1. UNCHANGED <<toServer, toClient, work>>
      BY <1>3 DEF ForwardStart, CopyEnds, ForwardEnd, ServeEnds, net, handler
    <2> QED
      BY <2>1, SameNoMore
  <1>4. ASSUME NEW c \in Conns, AddServerProxy(c) PROVE NoMore
    <2>1. work' \in Work /\ \A d \in Conns : ~Handles(work', d)
      BY <1>4 DEF AddServerProxy, No, Work, Handles
    <2> QED
      BY <1>4, <2>1 DEF AddServerProxy, net, NoMore, PairTypes, OpensOnce, Opening, Handles
  <1>5. ASSUME NEW c \in Conns, HandleClose(c) PROVE NoMore
    <2>1. work' \in Work /\ \A d \in Conns : ~Handles(work', d)
      BY <1>5 DEF HandleClose, Then, Work, Handles
    <2>2. toServer # <<>> /\ toServer' = Tail(toServer) /\ toClient' = toClient
      BY <1>5 DEF HandleClose, Handling
    <2>3. toServer' \in Seq(Requests)
      BY <2>2, Taken DEF PairTypes
    <2>4. \A d \in Conns : (Asks(toServer', d) => Asks(toServer, d)) /\ AsksOnce(toServer', d)
      BY <2>2, AskLess DEF PairTypes, OpensOnce
    <2> QED
      BY <2>1, <2>2, <2>3, <2>4 DEF NoMore, PairTypes, Opening, Handles
  <1>6. ASSUME NEW c \in Conns, RemoveServerProxy(c) PROVE NoMore
    <2>1. Closed(c) \in Answers /\ \A d \in Conns, n \in Nat : Closed(c) # Opened(d, TRUE, n)
      BY AnswerTypes
    <2>2. Reply(Closed(c)) /\ toServer' = toServer
      BY <1>6 DEF RemoveServerProxy
    <2>3. /\ toClient' \in Seq(Answers) /\ work' \in Work
          /\ \A d \in Conns : ~Handles(work', d)
          /\ \A d \in Conns, n \in Nat : Grants(toClient', d, n) => Grants(toClient, d, n)
      BY <2>1, <2>2, Refuses
    <2> QED
      BY <2>2, <2>3 DEF NoMore, PairTypes, OpensOnce, Opening, Handles
  <1>7. ASSUME ServerClose PROVE NoMore
    <2>1. UNCHANGED <<toClient, work>> /\ toServer' = <<>>
      BY <1>7 DEF ServerClose
    <2>2. toServer' \in Seq(Requests) /\ Len(toServer') = 0
      BY <2>1
    <2>3. \A d \in Conns : ~Asks(toServer', d) /\ AsksOnce(toServer', d)
      BY <2>2 DEF Asks, AsksOnce
    <2> QED
      BY <2>1, <2>2, <2>3 DEF NoMore, PairTypes, OpensOnce, Opening
  <1>8. nextID' \in Nat /\ nextID' >= nextID
    BY <1>1 DEF TypeOK
  <1>9. NoMore
    BY <1>3, <1>4, <1>5, <1>6, <1>7
  <1> QED
    BY <1>1, <1>2, <1>8, <1>9, SameRefusals, QuietKeeps
-----------------------------------------------------------------------------
(* The way of a stream: asked for, taken, opened, answered, got.           *)

\* The request of a connection that has made none.
LEMMA RequestPairs == ASSUME TypeOK, Pairs, NEW c \in Conns, Request(c) PROVE Pairs'
  <1> USE DEF Pairs
  <1>1. UNCHANGED <<toClient, work, cs, cid, sid, nextID>> /\ pc[c] = "request"
    BY DEF Request, handler, forward
  <1>2. nextID' \in Nat /\ nextID' >= nextID
    BY <1>1 DEF TypeOK
  <1>3. CASE link # "up"
    <2>1. toServer' = toServer /\ \A d \in Conns : Moves(d)
      BY <1>1, <1>3 DEF Request, Return, Step, Moves, Before, TypeOK
    <2> QED
      BY <1>1, <1>2, <2>1, SameNoMore, SameRefusals, QuietKeeps
  <1>4. CASE link = "up"
    <2>1. /\ toServer' = Append(toServer, <<"open", c>>)
          /\ pc' = [pc EXCEPT ![c] = "wait"]
      BY <1>4 DEF Request, Step
    <2>2. <<"open", c>> \in Requests /\ \A d \in Conns : <<"open", c>> = <<"open", d>> => c = d
      BY DEF Requests
    <2>3. pc'[c] = "wait" /\ \A d \in Conns : d # c => pc'[d] = pc[d]
      BY <2>1 DEF TypeOK
    <2>4. toServer' \in Seq(Requests)
      BY <2>1, <2>2, Queued DEF PairTypes
    <2>5. \A d \in Conns : Asks(toServer', d) <=> Asks(toServer, d) \/ d = c
      BY <2>1, <2>2, AskMore DEF PairTypes
    <2>6. ~Opening(c) /\ cs[c] = "none" /\ \A n \in Nat : ~Grants(toClient, c, n)
      BY <1>1 DEF OpensOnce, AnswersMatch, Pairing, Before
    <2>7. \A d \in Conns : AsksOnce(toServer', d)
      BY <2>1, <2>2, <2>6, AskMore DEF PairTypes, OpensOnce, Opening
    <2>8. \A d \in Conns : Opening(d)' <=> Opening(d) \/ d = c
      BY <1>1, <2>5 DEF Opening
    <2>9. PairTypes' /\ IDsDiffer'
      BY <1>1, <2>4 DEF PairTypes, IDsDiffer
    <2>10. OpensOnce'
      BY <1>1, <2>3, <2>5, <2>6, <2>7, <2>8 DEF OpensOnce, Opening
    <2>11. AnswersMatch'
      BY <1>1, <2>3, <2>6, <2>8 DEF AnswersMatch
    <2>12. Pairing'
      BY <1>1, <2>3, <2>6 DEF Pairing, Before, Having
    <2> QED
      BY <2>9, <2>10, <2>11, <2>12
  <1> QED
    BY <1>3, <1>4

\* handleOpen takes it over, or refuses.
LEMMA HandlePairs == ASSUME TypeOK, Pairs, NEW c \in Conns, HandleOpen(c) PROVE Pairs'
  <1> USE DEF Pairs
  <1>1. /\ UNCHANGED <<pc, cs, cid, sid, nextID>> /\ work = No
        /\ toServer # <<>> /\ Head(toServer) = <<"open", c>> /\ toServer' = Tail(toServer)
    BY DEF HandleOpen, Handling, conn
  <1>2. nextID' \in Nat /\ nextID' >= nextID /\ \A d \in Conns : Moves(d)
    BY <1>1 DEF TypeOK, Moves
  <1>3. toServer' \in Seq(Requests)
    BY <1>1, Taken DEF PairTypes
  <1>4. \A d \in Conns : (Asks(toServer', d) => Asks(toServer, d)) /\ AsksOnce(toServer', d)
    BY <1>1, AskLess DEF PairTypes, OpensOnce
  <1>5. Asks(toServer, c) /\ ~Asks(toServer', c)
    BY <1>1, AskLess DEF PairTypes, OpensOnce
  <1>6. CASE Reply(Opened(c, FALSE, 0))
    <2>1. /\ Opened(c, FALSE, 0) \in Answers
          /\ \A d \in Conns, n \in Nat : Opened(c, FALSE, 0) # Opened(d, TRUE, n)
      BY RefusalTypes
    <2>2. /\ toClient' \in Seq(Answers) /\ work' \in Work
          /\ \A d \in Conns : ~Handles(work', d)
          /\ \A d \in Conns, n \in Nat : Grants(toClient', d, n) => Grants(toClient, d, n)
      BY <1>6, <2>1, Refuses
    <2>3. NoMore
      BY <1>3, <1>4, <2>2 DEF NoMore, Opening, Handles
    <2> QED
      BY <1>1, <1>2, <2>3, SameRefusals, QuietKeeps
  <1>7. CASE Then("stream", c) /\ toClient' = toClient
    <2>1. /\ work' = [at |-> "stream", c |-> c] /\ work' \in Work
          /\ \A d \in Conns : Handles(work', d) => d = c
          /\ \A d \in Conns : work' # [at |-> "answer", c |-> d]
      BY <1>7 DEF Then, Work, Handles
    <2>2. NoMore
      BY <1>3, <1>4, <1>5, <1>7, <2>1 DEF NoMore, Opening, PairTypes
    <2> QED
      BY <1>1, <1>2, <2>2, SameRefusals, QuietKeeps
  <1> QED
    BY <1>6, <1>7 DEF HandleOpen

\* A stream whose ID no other had.
LEMMA OpenPairs == ASSUME TypeOK, Pairs, NEW c \in Conns, OpenStream(c) PROVE Pairs'
  <1> USE DEF Pairs
  <1>1. /\ UNCHANGED <<pc, cs, cid, toServer>> /\ work = [at |-> "stream", c |-> c]
        /\ nextID' = nextID + 1 /\ nextID \in Nat \ {0}
    BY DEF OpenStream, IDAfter, conn, TypeOK
  <1>2. nextID' \in Nat /\ nextID' >= nextID
    BY <1>1
  <1>3. CASE Reply(Opened(c, FALSE, 0)) /\ sid' = sid
    <2>1. \A d \in Conns : Moves(d)
      BY <1>1 DEF Moves
    <2>2. /\ Opened(c, FALSE, 0) \in Answers
          /\ \A d \in Conns, n \in Nat : Opened(c, FALSE, 0) # Opened(d, TRUE, n)
      BY RefusalTypes
    <2>3. /\ toClient' \in Seq(Answers) /\ work' \in Work
          /\ \A d \in Conns : ~Handles(work', d)
          /\ \A d \in Conns, n \in Nat : Grants(toClient', d, n) => Grants(toClient, d, n)
      BY <1>3, <2>2, Refuses
    <2>4. NoMore
      BY <1>1, <2>3 DEF NoMore, Opening, Handles, PairTypes, OpensOnce
    <2> QED
      BY <1>1, <1>2, <1>3, <2>1, <2>4, SameRefusals, QuietKeeps
  <1>4. CASE sid' = [sid EXCEPT ![c] = nextID] /\ Then("answer", c) /\ toClient' = toClient
    <2>1. /\ work' = [at |-> "answer", c |-> c] /\ work' \in Work
          /\ \A d \in Conns : Handles(work', d) <=> d = c
          /\ \A d \in Conns : Handles(work, d) <=> d = c
      BY <1>1, <1>4 DEF Then, Work, Handles
    <2>2. \A d \in Conns : Opening(d)' <=> Opening(d)
      BY <1>1, <2>1 DEF Opening
    <2>3. Opening(c) /\ sid'[c] = nextID /\ \A d \in Conns : d # c => sid'[d] = sid[d]
      BY <1>1, <1>4, <2>1 DEF Opening, PairTypes
    <2>4. pc[c] \in {"wait", "end"} /\ cs[c] = "none" /\ \A n \in Nat : ~Grants(toClient, c, n)
      BY <2>3 DEF OpensOnce, AnswersMatch
    <2>5. PairTypes'
      BY <1>1, <1>4, <2>1 DEF PairTypes
    <2>6. \A d \in Conns : sid[d] \in Nat /\ sid[d] < nextID
      BY DEF IDsDiffer, PairTypes
    <2>7. \A d \in Conns : sid'[d] < nextID'
      BY <1>1, <2>3, <2>6
    <2>8. \A d, e \in Conns : d # e /\ sid'[d] # 0 => sid'[d] # sid'[e]
      <3> SUFFICES ASSUME NEW d \in Conns, NEW e \in Conns, d # e, sid'[d] # 0
                   PROVE  sid'[d] # sid'[e]
        OBVIOUS
      <3>1. CASE d = c
        BY <1>1, <2>3, <2>6, <3>1
      <3>2. CASE e = c
        BY <1>1, <2>3, <2>6, <3>2
      <3>3. CASE d # c /\ e # c
        BY <2>3, <3>3 DEF IDsDiffer
      <3> QED
        BY <3>1, <3>2, <3>3
    <2>9. IDsDiffer'
      BY <2>7, <2>8 DEF IDsDiffer
    <2>10. OpensOnce'
      <3>1. sid'[c] # 0
        BY <1>1, <2>3
      <3>2. \A d \in Conns : work' = [at |-> "answer", c |-> d] => d = c
        BY <2>1 DEF Handles
      <3>3. ~Asks(toServer, c)
        BY <2>1 DEF OpensOnce
      <3> QED
        BY <1>1, <2>1, <2>2, <3>1, <3>2, <3>3 DEF OpensOnce
    <2>11. AnswersMatch'
      BY <1>1, <1>4, <2>2, <2>3, <2>4 DEF AnswersMatch
    <2>12. Pairing'
      BY <1>1, <2>3, <2>4 DEF Pairing, Having
    <2> QED
      BY <2>5, <2>9, <2>10, <2>11, <2>12
  <1> QED
    BY <1>3, <1>4 DEF OpenStream

\* The answer has the ID of the stream, and is the only one.
LEMMA AnswerPairs == ASSUME TypeOK, Pairs, NEW c \in Conns, AnswerOpen(c) PROVE Pairs'
  <1> USE DEF Pairs
  <1>1. /\ UNCHANGED <<pc, cs, cid, sid, nextID, toServer>> /\ work = [at |-> "answer", c |-> c]
        /\ work' = [at |-> "add", c |-> c] \/ work' = No
    BY DEF AnswerOpen, Then, conn
  <1>2. work' \in Work /\ \A d \in Conns : ~Handles(work', d)
    BY <1>1 DEF No, Work, Handles
  <1>3. Handles(work, c)
    BY <1>1 DEF Handles
  <1>4. ~Asks(toServer, c) /\ sid[c] # 0 /\ sid[c] \in Nat /\ pc[c] \in {"wait", "end"}
    BY <1>1, <1>3 DEF OpensOnce, Opening, PairTypes
  <1>5. \A d \in Conns : (Opening(d)' => Opening(d)) /\ (d = c => ~Opening(d)')
    BY <1>1, <1>2, <1>4 DEF Opening
  <1>6. \/ toClient' = toClient
        \/ toClient' = Append(toClient, Opened(c, TRUE, sid[c]))
    BY DEF AnswerOpen
  <1>7. Opened(c, TRUE, sid[c]) \in Answers
    BY <1>4, AnswerTypes
  <1>8. toClient' \in Seq(Answers)
    BY <1>6, <1>7, Queued DEF PairTypes
  <1>9. ASSUME NEW d \in Conns, NEW n \in Nat, Grants(toClient', d, n)
        PROVE  Grants(toClient, d, n) \/ (d = c /\ n = sid[c])
    <2>1. Grants(toClient, d, n) \/ Opened(c, TRUE, sid[c]) = Opened(d, TRUE, n)
      BY <1>6, <1>7, <1>9, GrantMore DEF PairTypes
    <2> QED
      BY <2>1 DEF Opened
  <1>10. PairTypes' /\ IDsDiffer'
    BY <1>1, <1>2, <1>8 DEF PairTypes, IDsDiffer
  <1>11. OpensOnce'
    BY <1>1, <1>2, <1>5 DEF OpensOnce, Handles
  <1>12. AnswersMatch'
    BY <1>1, <1>4, <1>5, <1>9 DEF AnswersMatch, Before
  <1>13. Pairing'
    BY <1>1 DEF Pairing
  <1> QED
    BY <1>10, <1>11, <1>12, <1>13

\* The Matcher gives an answer to the connection it is for.
LEMMA DispatchPairs == ASSUME TypeOK, Pairs, Dispatch PROVE Pairs'
  <1> USE DEF Pairs
  <1> DEFINE pkt == Head(toClient)
  <1>1. /\ UNCHANGED <<toServer, work, cs, sid, nextID>>
        /\ toClient # <<>> /\ toClient' = Tail(toClient)
    BY DEF Dispatch, handler, forward
  <1>2. pkt \in Answers /\ toClient' \in Seq(Answers)
    BY <1>1, Taken DEF PairTypes
  <1>3. \A d \in Conns, n \in Nat : Grants(toClient', d, n) => Grants(toClient, d, n)
    BY <1>1, GrantLess DEF PairTypes
  <1>4. NoMore
    BY <1>1, <1>2, <1>3 DEF NoMore, PairTypes, OpensOnce, Opening
  <1>5. nextID' \in Nat /\ nextID' >= nextID
    BY <1>1 DEF TypeOK
  <1>6. CASE UNCHANGED <<pc, cid>>
    <2>1. \A d \in Conns : Moves(d)
      BY <1>1, <1>6 DEF Moves
    <2> QED
      BY <1>1, <1>4, <1>5, <1>6, <2>1, SameRefusals, QuietKeeps
  <1>7. ASSUME NEW c \in Conns, Match(c, pkt), pc[c] = "wait", pkt.re = "open",
               cid' = [cid EXCEPT ![c] = pkt.id],
               IF pkt.ok THEN Step(c, "stream") /\ UNCHANGED local ELSE Return(c)
        PROVE  Pairs'
    <2>1. pkt.c = c /\ pkt.id \in Nat /\ pkt.ok \in BOOLEAN
      BY <1>2, <1>7 DEF Match, Answers
    <2>2. cid' \in [Conns -> Nat] /\ cid'[c] = pkt.id /\ \A d \in Conns : d # c => cid'[d] = cid[d]
      BY <1>7, <2>1 DEF PairTypes
    <2>3. \A d \in Conns : d # c => pc'[d] = pc[d]
      BY <1>7 DEF Step, Return, TypeOK
    <2>4. CASE ~pkt.ok
      <3>1. pc'[c] = "end"
        BY <1>7, <2>4 DEF Step, Return, TypeOK
      <3>2. Refusals
        BY <1>7, <2>2, <3>1 DEF Refusals
      <3>3. \A d \in Conns : Moves(d)
        BY <1>1, <1>7, <2>3, <3>1 DEF Moves
      <3> QED
        BY <1>1, <1>4, <1>5, <3>2, <3>3, QuietKeeps
    <2>5. CASE pkt.ok
      <3>1. pc'[c] = "stream"
        BY <1>7, <2>5 DEF Step, TypeOK
      <3>2. pkt = Opened(c, TRUE, pkt.id)
        BY <1>2, <1>7, <2>1, <2>5 DEF Answers, Opened
      <3>3. Grants(toClient, c, pkt.id)
        BY <1>1, <2>1, <3>2, GrantLess DEF PairTypes
      <3>4. pkt.id = sid[c] /\ pkt.id # 0 /\ ~Opening(c)
        BY <2>1, <3>3 DEF AnswersMatch
      <3>5. \A d \in Conns : Opening(d)' <=> Opening(d)
        BY <1>1 DEF Opening
      <3>6. PairTypes' /\ IDsDiffer'
        BY <1>1, <1>2, <2>2 DEF PairTypes, IDsDiffer
      <3>7. OpensOnce'
        BY <1>1, <2>3, <3>4, <3>5 DEF OpensOnce
      <3>8. AnswersMatch'
        BY <1>1, <1>3, <2>3, <3>1, <3>5 DEF AnswersMatch, Before
      <3>9. Pairing'
        BY <1>1, <2>2, <2>3, <3>1, <3>4 DEF Pairing, Before, Having
      <3> QED
        BY <3>6, <3>7, <3>8, <3>9
    <2> QED
      BY <2>1, <2>4, <2>5
  <1>8. \/ UNCHANGED <<pc, cid>>
        \/ \E c \in Conns :
             /\ Match(c, pkt) /\ pc[c] = "wait" /\ pkt.re = "open"
             /\ cid' = [cid EXCEPT ![c] = pkt.id]
             /\ IF pkt.ok THEN Step(c, "stream") /\ UNCHANGED local ELSE Return(c)
    BY <1>2 DEF Dispatch, Answers
  <1> QED
    BY <1>6, <1>7, <1>8

\* Nothing is open at first.
LEMMA InitPairs == Init => Pairs
  <1> SUFFICES ASSUME Init PROVE Pairs
    OBVIOUS
  <1>1. toServer = <<>> /\ toClient = <<>> /\ work = No
    BY DEF Init
  <1>2. Len(toServer) = 0 /\ Len(toClient) = 0 /\ No \in Work
    BY <1>1 DEF No, Work
  <1>3. PairTypes
    BY <1>1, <1>2 DEF Init, PairTypes
  <1>4. \A c \in Conns : ~Asks(toServer, c) /\ AsksOnce(toServer, c) /\ ~Handles(work, c)
    BY <1>1, <1>2 DEF Asks, AsksOnce, Handles, No
  <1>5. OpensOnce
    BY <1>4 DEF OpensOnce, Opening, Handles
  <1>6. IDsDiffer /\ Pairing
    BY DEF Init, IDsDiffer, Pairing, Having
  <1>7. AnswersMatch
    BY <1>2 DEF AnswersMatch, Grants
  <1> QED
    BY <1>3, <1>5, <1>6, <1>7 DEF Pairs

\* Every step keeps the pairs.
LEMMA NextPairs == ASSUME TypeOK, Pairs, Next PROVE Pairs'
  <1>1. CASE \E c \in Conns :
               \/ Request(c) \/ HandleOpen(c) \/ OpenStream(c) \/ AnswerOpen(c)
    BY <1>1, RequestPairs, HandlePairs, OpenPairs, AnswerPairs
  <1>2. CASE Dispatch
    BY <1>2, DispatchPairs
  <1>3. CASE \E c \in Conns :
               \/ GetClient(c) \/ Dial(c) \/ Hello(c) \/ GetStream(c) \/ AddProxy(c)
               \/ ConnectionEnds(c) \/ ReaderEnds(c) \/ AskDone(c)
    BY <1>3, ConnPairs
  <1>4. CASE (\E c \in Conns : AskClose(c)) \/ DispatchEnd \/ LinkFails
    BY <1>4, DownPairs
  <1>5. CASE \/ AcceptError \/ WatcherStops \/ CloseBegin
             \/ \E k \in {"acceptor", "watcher"} : Cleanup(k)
             \/ \E k \in Closers : CloseClient(k)
             \/ \E c \in Conns : Accept(c)
    BY <1>5, ServicePairs
  <1>6. CASE \/ \E c \in Conns :
                  \/ AddServerProxy(c) \/ HandleClose(c) \/ RemoveServerProxy(c)
                  \/ ForwardStart(c) \/ (\E dir \in {"out", "in"} : CopyEnds(c, dir)) \/ ForwardEnd(c)
             \/ ServeEnds \/ ServerClose
    BY <1>6, ServerPairs
  <1> QED
    BY <1>1, <1>2, <1>3, <1>4, <1>5, <1>6 DEF Next

\* A step that changes nothing keeps them too.
LEMMA StutterPairs == ASSUME Pairs, UNCHANGED vars PROVE Pairs'
  <1>1. UNCHANGED <<pc, cs, cid, sid, nextID, toServer, toClient, work>>
    BY DEF vars, net, conn, handler, forward
  <1>2. \A c \in Conns : Opening(c)' <=> Opening(c)
    BY <1>1 DEF Opening
  <1> QED
    BY <1>1, <1>2 DEF Pairs, PairTypes, IDsDiffer, OpensOnce, AnswersMatch, Pairing
-----------------------------------------------------------------------------
(***************************************************************************)
(* However many connections are opened at once, each is forwarded through  *)
(* the stream that the server forwards to its own remote connection.       *)
(***************************************************************************)
THEOREM OwnStream == Spec => []StreamsPaired
  <1>1. TypeOK /\ Pairs /\ [Next]_vars => Pairs'
    BY NextPairs, StutterPairs
  <1>2. Spec => []Pairs
    BY InitPairs, <1>1, ProxyTypeCorrect, PTL DEF Spec
  <1>3. Pairs => StreamsPaired
    BY DEF Pairs, PairTypes, IDsDiffer, Pairing, StreamsPaired, Ends
  <1> QED
    BY <1>2, <1>3, PTL
=============================================================================
