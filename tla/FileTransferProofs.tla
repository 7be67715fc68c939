-------------------------- MODULE FileTransferProofs --------------------------
(***************************************************************************)
(* Proofs about FileTransfer, for any operations, files and connections:   *)
(* a file at rest is whole, and a get leaves what was there.               *)
(***************************************************************************)
EXTENDS FileTransfer, SequenceTheorems, TLAPS

(***************************************************************************)
(* What is sent and kept, and the kinds of operations: a get is handled    *)
(* and sends, a send is received.                                          *)
(***************************************************************************)
Told == {what[p].content : p \in Ops}
Items == Chunks \cup {Eof} \cup Ops \cup Names

WireTypes ==
    /\ toServer \in [Conns -> Seq(Ops)] /\ toClient \in [Conns -> Seq(Answers)]
    /\ answer \in [Ops -> Answers \cup {None}] /\ flow \in [Ops -> Seq(Items)]
    /\ link \in [Conns -> {"up", "down"}] /\ handler \in [Conns -> Ops \cup {"none", "off"}]
    /\ pc \in [Ops -> {"idle", "wait", "stream", "copy", "ok", "failed"}]
    /\ sent \in [Ops -> 0..Size] /\ size \in [Ops -> 0..Size]

DiskTypes ==
    /\ task \in [Ops -> {"off", "open", "info", "create", "copy", "check", "end"}]
    /\ told \in [Ops -> Told \cup {None}]
    /\ data \in [Inodes -> Seq(Chunks)] /\ \A i \in Inodes : Len(data[i]) <= Size
    /\ file \in [Names -> Inodes \cup {None}] /\ fd \in [Ops -> Inodes \cup {None}]
    /\ at \in [Ops -> 0..Size]
    /\ sum \in [Ops -> [ino : Inodes \cup {None}, got : Seq(Chunks)]]

KindOf(p) ==
    /\ Kind(p) = "get" => task[p] \in {"off", "open", "copy", "end"}
    /\ Kind(p) = "send" => task[p] \in {"off", "info", "create", "copy", "check", "end"}
    /\ Kind(p) = "list" => task[p] = "off"
    /\ handler[Conn(p)] = p => Kind(p) = "get"
    /\ task[p] = "copy" => fd[p] # None
    /\ task[p] = "check" => sum[p].ino # None
    /\ Kind(p) = "send" /\ task[p] # "check" => sum[p] = Nothing
KindTypes == what \in Cases /\ \A p \in Ops : KindOf(p)

(***************************************************************************)
(* A request is in one place: on its way, with the handler, its answer on  *)
(* the way, or that answer with one operation of its kind.                 *)
(***************************************************************************)
In(q, s) == \E i \in 1..Len(q) : q[i] = s
InFor(q, s) == \E i \in 1..Len(q) : q[i].for = s
Once(q, s) == \A i, j \in 1..Len(q) : q[i] = s /\ q[j] = s => i = j
OnceFor(q, s) == \A i, j \in 1..Len(q) : q[i].for = s /\ q[j].for = s => i = j

Requested(s) == In(toServer[Conn(s)], s)
Handled(s) == handler[Conn(s)] = s
Answering(s) == InFor(toClient[Conn(s)], s)
Has(p, s) == answer[p] # None /\ answer[p].for = s
Answered(s) == \E p \in Ops : Has(p, s)

Homes ==
    \A k \in Conns : /\ \A i \in 1..Len(toServer[k]) : Conn(toServer[k][i]) = k
                     /\ \A i \in 1..Len(toClient[k]) : Conn(toClient[k][i].for) = k
One(s) ==
    /\ pc[s] = "idle" => ~Requested(s) /\ ~Handled(s) /\ ~Answering(s) /\ ~Answered(s)
    /\ Requested(s) => ~Handled(s) /\ ~Answering(s) /\ ~Answered(s)
    /\ Handled(s) => ~Answering(s) /\ ~Answered(s)
    /\ Answering(s) => ~Answered(s)
    /\ Once(toServer[Conn(s)], s) /\ OnceFor(toClient[Conn(s)], s)
OnePlace == Homes /\ \A s \in Ops : One(s)
OneTaker ==
    /\ \A p, q, s \in Ops : Has(p, s) /\ Has(q, s) => p = q
    /\ \A p \in Ops :
         /\ pc[p] \in {"idle", "wait"} => answer[p] = None
         /\ pc[p] \in {"stream", "copy", "ok"} => answer[p] # None
         /\ answer[p] # None => Kind(Stream(p)) = Kind(p) /\ Conn(Stream(p)) = Conn(p)

(***************************************************************************)
(* The stream of a send: first the info line, then chunks.                 *)
(***************************************************************************)
Rest == Chunks \cup {Eof}
Begun == {"create", "copy", "check"}
Line(s) ==
    Kind(s) = "send" =>
      /\ ~Answered(s) => flow[s] = <<>> /\ task[s] \notin Begun
      /\ task[s] \in {"off", "info"} =>
           \A i \in 1..Len(flow[s]) : flow[s][i] \in IF i = 1 THEN Told ELSE Rest
      /\ task[s] \in Begun => told[s] # None /\ \A i \in 1..Len(flow[s]) : flow[s][i] \in Rest
      /\ \A p \in Ops : Has(p, s) =>
           /\ pc[p] = "stream" => flow[s] = <<>> /\ task[s] \notin Begun
           /\ pc[p] = "copy" => task[s] \notin {"off", "info"} \/ flow[s] # <<>>
Lines == \A s \in Ops : Line(s)

(***************************************************************************)
(* Files of a name.  One that nothing was received into is the one that    *)
(* was there, and a get of it reads just that.                             *)
(***************************************************************************)
Named(i) == IF i \in Names THEN i ELSE Name(i)
OfName ==
    /\ \A n \in Names : file[n] # None => Named(file[n]) = n
    /\ \A p \in Ops : /\ fd[p] # None => Named(fd[p]) = Name(p)
                      /\ sum[p].ino # None => Named(sum[p].ino) = Name(p)
Untouched(n) == \A q \in Ops : Kind(q) = "send" /\ Name(q) = n => told[q] = None
PartOf(q, d) == Len(q) <= Len(d) /\ \A i \in 1..Len(q) : q[i] = d[i]
Original ==
    /\ \A n \in Names : Untouched(n) => file[n] = n /\ data[n] = Whole(n)
    /\ \A s \in Ops : Kind(s) = "get" /\ Untouched(Name(s)) =>
         /\ sum[s].ino # None => sum[s].ino = Name(s) /\ PartOf(sum[s].got, Whole(Name(s)))
         /\ \A i \in 1..Len(toClient[Conn(s)]) :
              toClient[Conn(s)][i].for = s /\ toClient[Conn(s)][i].ok =>
                toClient[Conn(s)][i].sum = Whole(Name(s))
         /\ \A p \in Ops : Has(p, s) /\ answer[p].ok => answer[p].sum = Whole(Name(s))
Got(p) ==
    /\ pc[p] \in {"stream", "copy"} \/ (pc[p] = "ok" /\ Kind(p) = "get") => answer[p].ok
    /\ pc[p] \in {"idle", "wait", "stream", "failed"} /\ Kind(p) = "get" => dest[p] = None
    /\ pc[p] = "copy" /\ Kind(p) = "get" =>
         dest[p] \in Seq(Items) /\ Len(dest[p]) <= answer[p].size
    /\ pc[p] = "ok" /\ Kind(p) = "get" => dest[p] = answer[p].sum
    /\ dest[p] # None => dest[p] \in Seq(Items) /\ Len(dest[p]) <= Size
Gotten == DOMAIN dest = Ops /\ \A p \in Ops : Got(p)

(***************************************************************************)
(* A file that is not whole has somebody who looks after it: one who       *)
(* writes it, or one who has read it as it is.                             *)
(***************************************************************************)
Writes(p, i) == Kind(p) = "send" /\ task[p] = "copy" /\ fd[p] = i
Checks(p, i) == task[p] = "check" /\ sum[p].ino = i /\ PartOf(sum[p].got, data[i])
LookedAfter ==
    \A n \in Names : file[n] # None =>
      data[file[n]] \in Contents \/ \E p \in Ops : Writes(p, file[n]) \/ Checks(p, file[n])

Types == WireTypes /\ DiskTypes /\ KindTypes
Inv == Types /\ OnePlace /\ OneTaker /\ Lines /\ OfName /\ Original /\ Gotten /\ LookedAfter
-----------------------------------------------------------------------------
(* Queues, files and operations.                                           *)

\* What an operation is.
LEMMA WhatTypes ==
    ASSUME what \in Cases, NEW p \in Ops
    PROVE  /\ Kind(p) \in {"get", "send", "list"} /\ Conn(p) \in Conns /\ Name(p) \in Names
           /\ what[p].content \in Ops \cup Names /\ what[p].content \in Told
  <1>1. what \in [Ops -> [kind : {"get", "send", "list"}, conn : Conns, name : Names,
                          content : Ops \cup Names]]
    BY FileAssumption
  <1>2. what[p] \in [kind : {"get", "send", "list"}, conn : Conns, name : Names,
                     content : Ops \cup Names]
    BY <1>1
  <1> QED
    BY <1>2 DEF Kind, Conn, Name, Told

\* It stays that.
LEMMA WhatKept ==
    ASSUME what' = what, NEW p
    PROVE  Kind(p)' = Kind(p) /\ Conn(p)' = Conn(p) /\ Name(p)' = Name(p) /\ Told' = Told
    BY DEF Kind, Conn, Name, Told

\* A queue with one more or one less.
LEMMA Queued ==
    ASSUME NEW S, NEW q \in Seq(S), NEW x \in S
    PROVE  /\ Append(q, x) \in Seq(S) /\ Len(Append(q, x)) = Len(q) + 1
           /\ \A i \in 1..Len(q) : Append(q, x)[i] = q[i]
           /\ Append(q, x)[Len(q) + 1] = x
    OBVIOUS

LEMMA QueuedOne ==
    ASSUME NEW S, NEW q \in Seq(S), NEW x \in S
    PROVE  /\ q \o <<x>> \in Seq(S) /\ Len(q \o <<x>>) = Len(q) + 1
           /\ \A i \in 1..Len(q) : (q \o <<x>>)[i] = q[i]
           /\ (q \o <<x>>)[Len(q) + 1] = x
    OBVIOUS

LEMMA Taken ==
    ASSUME NEW S, NEW q \in Seq(S), q # <<>>
    PROVE  /\ Tail(q) \in Seq(S) /\ Len(Tail(q)) = Len(q) - 1 /\ Len(q) \in Nat \ {0}
           /\ \A i \in 1..Len(Tail(q)) : Tail(q)[i] = q[i + 1]
           /\ Head(q) = q[1] /\ Head(q) \in S
    OBVIOUS

\* A function on 1..n is a sequence.
LEMMA FunctionSeq ==
    ASSUME NEW S, NEW n \in Nat, NEW f \in [1..n -> S]
    PROVE  f \in Seq(S) /\ Len(f) = n
  <1>1. f \in UNION {[1..m -> S] : m \in Nat}
    OBVIOUS
  <1>2. f \in Seq(S)
    BY <1>1, SeqDef, Zenon
  <1>3. DOMAIN f = 1..n /\ DOMAIN f = 1..Len(f) /\ Len(f) \in Nat
    BY <1>2, LenProperties
  <1> QED
    BY <1>2, <1>3

\* A whole file.
LEMMA WholeType ==
    ASSUME NEW c \in Ops \cup Names
    PROVE  /\ Whole(c) \in Seq(Chunks) /\ Len(Whole(c)) = Size
           /\ \A i \in 1..Size : Whole(c)[i] \in Chunks
  <1>1. \A i \in 1..2 : <<c, i>> \in Chunks
    BY DEF Chunks, Size
  <1>2. Whole(c) \in [1..2 -> Chunks]
    BY <1>1 DEF Whole, Size
  <1>3. 2 \in Nat
    OBVIOUS
  <1>4. Whole(c) \in Seq(Chunks) /\ Len(Whole(c)) = 2
    BY <1>2, <1>3, FunctionSeq
  <1> QED
    BY <1>2, <1>4 DEF Size

\* A write leaves chunks, and no more than Size.
LEMMA WrittenType ==
    ASSUME NEW d \in Seq(Chunks), Len(d) <= Size, NEW i \in 1..Size, NEW x \in Chunks
    PROVE  Written(d, i, x) \in Seq(Chunks) /\ Len(Written(d, i, x)) <= Size
  <1>1. PICK l \in Nat : l = Len(d)
    BY LenProperties
  <1>2. l \in 0..Size /\ i \in 0..Size
    BY <1>1 DEF Size
  <1>3. PICK n \in 0..Size : n = IF i > Len(d) THEN i ELSE Len(d)
    BY <1>1, <1>2
  <1>4. Hole \in Chunks /\ \A j \in 1..Len(d) : d[j] \in Chunks
    BY DEF Chunks
  <1>5. Written(d, i, x) = [j \in 1..n |-> IF j = i THEN x ELSE IF j <= Len(d) THEN d[j] ELSE Hole]
    BY <1>3 DEF Written
  <1>6. Written(d, i, x) \in [1..n -> Chunks]
    BY <1>4, <1>5
  <1>7. n \in Nat /\ n <= Size
    BY <1>3 DEF Size
  <1> QED
    BY <1>6, <1>7, FunctionSeq
-----------------------------------------------------------------------------
(* The steps, by who takes them.                                           *)

GetStep(p) == GetStart(p) \/ GetChunk(p) \/ GetCheck(p) \/ GetFails(p)
SendStep(p) == SendInfo(p) \/ SendChunk(p) \/ SendDone(p) \/ SendFails(p)
ServeStep(p) == HandleGet(p) \/ GetOpen(p) \/ GetReply(p) \/ HandleSend(p) \/ HandleList(p)
TransferStep(p) == TransferOpen(p) \/ TransferChunk(p) \/ TransferEnd(p)
ReceiveStep(p) ==
    \/ ReceiveInfo(p) \/ ReceiveGivesUp(p) \/ ReceiveCreate(p) \/ ReceiveChunk(p)
    \/ ReceiveFails(p) \/ ReceiveHash(p) \/ ReceiveCheck(p)
LinkStep(k) == Dispatch(k) \/ DispatchEnd(k) \/ LinkDown(k) \/ ServeEnds(k)

\* There are no others.
LEMMA Steps ==
    ASSUME Next
    PROVE  \/ \E k \in Conns : LinkStep(k)
           \/ \E p \in Ops : \/ Request(p) \/ GetStep(p) \/ SendStep(p) \/ ServeStep(p)
                             \/ Hash(p) \/ TransferStep(p) \/ ReceiveStep(p)
    BY DEF Next, HandlerStep, ClientStep, TaskStep, Fails, LinkStep, GetStep, SendStep, ServeStep,
           TransferStep, ReceiveStep

\* What each group leaves alone.
LEMMA LinkFrame ==
    ASSUME NEW k, LinkStep(k)
    PROVE  UNCHANGED <<what, dest, sent, size, sum, flow, transfer, disk>>
    BY DEF LinkStep, Dispatch, DispatchEnd, LinkDown, ServeEnds, client, serving

LEMMA RequestFrame ==
    ASSUME NEW p, Request(p)
    PROVE  UNCHANGED <<what, link, toClient, answer, dest, sent, serving, sum, flow, transfer, disk>>
    BY DEF Request

LEMMA GetFrame ==
    ASSUME NEW p, GetStep(p)
    PROVE  UNCHANGED <<what, net, answer, sent, serving, sum, transfer, disk>>
    BY DEF GetStep, GetStart, GetChunk, GetCheck, GetFails

LEMMA SendFrame ==
    ASSUME NEW p, SendStep(p)
    PROVE  UNCHANGED <<what, net, answer, dest, serving, sum, transfer, disk>>
    BY DEF SendStep, SendInfo, SendChunk, SendDone, SendFails

LEMMA ServeFrame ==
    ASSUME NEW p, ServeStep(p)
    PROVE  UNCHANGED <<what, link, client, flow, told, fd, at, disk>>
    BY DEF ServeStep, HandleGet, GetOpen, GetReply, HandleSend, HandleList, transfer

LEMMA TransferFrame ==
    ASSUME NEW p, TransferStep(p)
    PROVE  UNCHANGED <<what, net, client, serving, sum, told, disk>>
    BY DEF TransferStep, TransferOpen, TransferChunk, TransferEnd

LEMMA ReceiveFrame ==
    ASSUME NEW p, ReceiveStep(p)
    PROVE  UNCHANGED <<what, net, client, serving>>
    BY DEF ReceiveStep, ReceiveInfo, ReceiveGivesUp, ReceiveCreate, ReceiveChunk, ReceiveFails,
           ReceiveHash, ReceiveCheck

LEMMA HashFrame ==
    ASSUME NEW p, Hash(p)
    PROVE  UNCHANGED <<what, net, client, serving, flow, transfer, disk>>
    BY DEF Hash

\* The cases do not change.
LEMMA WhatStays == ASSUME Next \/ UNCHANGED vars PROVE what' = what
    BY Steps, LinkFrame, RequestFrame, GetFrame, SendFrame, ServeFrame, TransferFrame, ReceiveFrame,
       HashFrame DEF vars
-----------------------------------------------------------------------------
(* Types.                                                                  *)

\* How much of a file there is.
LEMMA DataLength == ASSUME DiskTypes, NEW i \in Inodes PROVE Len(data[i]) \in 0..Size
  <1>1. data[i] \in Seq(Chunks) /\ Len(data[i]) <= Size
    BY DEF DiskTypes
  <1>2. PICK l \in Nat : l = Len(data[i])
    BY <1>1, LenProperties
  <1>3. l <= Size
    BY <1>1, <1>2
  <1>4. \A n \in Nat : n <= Size => n \in 0..Size
    BY DEF Size
  <1>5. l \in 0..Size
    BY <1>2, <1>3, <1>4, Zenon
  <1> QED
    BY <1>2, <1>5

\* A packet put on a stream that is up.
LEMMA PutType ==
    ASSUME WireTypes, NEW s \in Ops, NEW x \in Items, Put(s, x)
    PROVE  flow' \in [Ops -> Seq(Items)]
  <1>1. flow[s] \in Seq(Items)
    BY DEF WireTypes
  <1>2. PICK q \in Seq(Items) : q = Append(flow[s], x)
    BY <1>1, Queued
  <1>3. flow' = flow \/ flow' = [flow EXCEPT ![s] = q]
    BY <1>2 DEF Put
  <1> QED
    BY <1>2, <1>3 DEF WireTypes

\* The contents of streams.
LEMMA ItemTypes ==
    ASSUME what \in Cases, NEW p \in Ops
    PROVE  /\ Eof \in Items /\ what[p].content \in Items
           /\ \A i \in 0..Size : i < Size => Whole(what[p].content)[i + 1] \in Items
  <1>1. what[p].content \in Ops \cup Names
    BY WhatTypes
  <1>2. \A i \in 1..Size : Whole(what[p].content)[i] \in Chunks
    BY <1>1, WholeType
  <1>3. \A i \in 0..Size : i < Size => i + 1 \in 1..Size
    BY DEF Size
  <1> QED
    BY <1>1, <1>2, <1>3 DEF Items

\* An answer, and the end of its handler.
LEMMA ReplyEffect ==
    ASSUME WireTypes, what \in Cases, NEW p \in Ops, NEW pkt \in Answers, Reply(p, <<pkt>>)
    PROVE  /\ toClient' \in [Conns -> Seq(Answers)]
           /\ handler' \in [Conns -> Ops \cup {"none", "off"}]
           /\ handler'[Conn(p)] \notin Ops
           /\ \A k \in Conns : k # Conn(p) => handler'[k] = handler[k] /\ toClient'[k] = toClient[k]
           /\ \/ toClient' = toClient
              \/ Up(p) /\ toClient'[Conn(p)] = toClient[Conn(p)] \o <<pkt>>
  <1>1. Conn(p) \in Conns
    BY WhatTypes
  <1>2. PICK e \in {"none", "off"} : handler' = [handler EXCEPT ![Conn(p)] = e]
    BY DEF Reply
  <1>3. toClient[Conn(p)] \in Seq(Answers)
    BY <1>1 DEF WireTypes
  <1>4. PICK q \in Seq(Answers) : q = toClient[Conn(p)] \o <<pkt>>
    BY <1>3, QueuedOne
  <1>5. toClient' = toClient \/ (Up(p) /\ toClient' = [toClient EXCEPT ![Conn(p)] = q])
    BY <1>4 DEF Reply
  <1>6. e \notin Ops
    BY <1>2, FileAssumption
  <1>7. /\ handler' \in [Conns -> Ops \cup {"none", "off"}] /\ handler'[Conn(p)] = e
        /\ \A k \in Conns : k # Conn(p) => handler'[k] = handler[k]
    BY <1>1, <1>2 DEF WireTypes
  <1>8. /\ toClient' \in [Conns -> Seq(Answers)]
        /\ \A k \in Conns : k # Conn(p) => toClient'[k] = toClient[k]
        /\ toClient' = toClient \/ (Up(p) /\ toClient'[Conn(p)] = q)
    BY <1>1, <1>3, <1>4, <1>5 DEF WireTypes
  <1> QED
    BY <1>4, <1>6, <1>7, <1>8

\* What is answered.
LEMMA AnswerTypes ==
    ASSUME NEW p \in Ops, NEW n \in 0..Size, NEW s \in Seq(Chunks)
    PROVE  Refusal(p) \in Answers /\ Offer(p, n, s) \in Answers
  <1>1. 0 \in 0..Size /\ <<>> \in Seq(Chunks)
    BY DEF Size
  <1> QED
    BY <1>1 DEF Refusal, Offer, Answers

\* A request taken from its queue.
LEMMA TakeEffect ==
    ASSUME WireTypes, what \in Cases, NEW p \in Ops, Takes(Conn(p), p),
           toServer' = [toServer EXCEPT ![Conn(p)] = Tail(@)]
    PROVE  /\ toServer' \in [Conns -> Seq(Ops)]
           /\ Conn(p) \in Conns /\ toServer[Conn(p)] # <<>> /\ Head(toServer[Conn(p)]) = p
           /\ toServer'[Conn(p)] = Tail(toServer[Conn(p)])
           /\ \A k \in Conns : k # Conn(p) => toServer'[k] = toServer[k]
  <1>1. Conn(p) \in Conns /\ toServer[Conn(p)] \in Seq(Ops)
    BY WhatTypes DEF WireTypes
  <1>2. toServer[Conn(p)] # <<>> /\ Head(toServer[Conn(p)]) = p
    BY DEF Takes
  <1>3. PICK q \in Seq(Ops) : q = Tail(toServer[Conn(p)])
    BY <1>1, <1>2, Taken
  <1> QED
    BY <1>1, <1>2, <1>3 DEF WireTypes

\* Link, queues, answers and streams.
LEMMA WireKept == ASSUME Types, Next PROVE WireTypes'
  <1> USE DEF Types
  <1>w. what \in Cases
    BY DEF KindTypes, KindOf
  <1>1. ASSUME NEW k \in Conns, LinkStep(k) PROVE WireTypes'
    <2>1. CASE Dispatch(k)
      <3>1. /\ toClient[k] \in Seq(Answers) /\ toClient[k] # <<>>
            /\ toClient' = [toClient EXCEPT ![k] = Tail(toClient[k])]
        BY <2>1 DEF Dispatch, WireTypes
      <3>2. PICK q \in Seq(Answers) : q = Tail(toClient[k])
        BY <3>1, Taken
      <3>3. toClient' \in [Conns -> Seq(Answers)]
        BY <3>1, <3>2 DEF WireTypes
      <3>4. PICK pkt \in Answers : pkt = Head(toClient[k])
        BY <3>1, Taken
      <3>5. PICK p \in Ops, where \in {"failed", "ok", "stream"} :
               answer' = [answer EXCEPT ![p] = pkt] /\ pc' = [pc EXCEPT ![p] = where]
        BY <2>1, <3>4 DEF Dispatch, Go
      <3>6. /\ answer' \in [Ops -> Answers \cup {None}]
            /\ pc' \in [Ops -> {"idle", "wait", "stream", "copy", "ok", "failed"}]
        BY <3>4, <3>5 DEF WireTypes
      <3> QED
        BY <2>1, <3>3, <3>6 DEF Dispatch, serving, WireTypes
    <2>2. CASE DispatchEnd(k)
      <3>1. toClient' \in [Conns -> Seq(Answers)]
        BY <2>2 DEF DispatchEnd, WireTypes
      <3>2. pc' \in [Ops -> {"idle", "wait", "stream", "copy", "ok", "failed"}]
        BY <2>2 DEF DispatchEnd, WireTypes
      <3> QED
        BY <2>2, <3>1, <3>2 DEF DispatchEnd, serving, WireTypes
    <2>3. CASE LinkDown(k)
      BY <2>3 DEF LinkDown, client, serving, WireTypes
    <2>4. CASE ServeEnds(k)
      <3>1. toServer' \in [Conns -> Seq(Ops)]
        BY <2>4 DEF ServeEnds, WireTypes
      <3> QED
        BY <2>4, <3>1 DEF ServeEnds, client, WireTypes
    <2> QED
      BY <1>1, <2>1, <2>2, <2>3, <2>4 DEF LinkStep
  <1>2. ASSUME NEW p \in Ops, Request(p) PROVE WireTypes'
    <2>1. Conn(p) \in Conns /\ toServer[Conn(p)] \in Seq(Ops)
      BY <1>w, WhatTypes DEF WireTypes
    <2>2. PICK q \in Seq(Ops) : q = Append(toServer[Conn(p)], p)
      BY <2>1, Queued
    <2>3. toServer' = toServer \/ toServer' = [toServer EXCEPT ![Conn(p)] = q]
      BY <1>2, <2>2 DEF Request
    <2>4. toServer' \in [Conns -> Seq(Ops)]
      BY <2>1, <2>2, <2>3 DEF WireTypes
    <2>5. pc' \in [Ops -> {"idle", "wait", "stream", "copy", "ok", "failed"}]
      BY <1>2 DEF Request, Go, WireTypes
    <2> QED
      BY <1>2, <2>4, <2>5 DEF Request, serving, WireTypes
  <1>3. ASSUME NEW p \in Ops, GetStep(p) PROVE WireTypes'
    <2>1. pc' \in [Ops -> {"idle", "wait", "stream", "copy", "ok", "failed"}]
      BY <1>3 DEF GetStep, GetStart, GetChunk, GetCheck, GetFails, Go, WireTypes
    <2>2. flow' = flow \/ \E s : flow' = [flow EXCEPT ![s] = Tail(@)] /\ flow[s] # <<>>
      BY <1>3 DEF GetStep, GetStart, GetChunk, GetCheck, GetFails
    <2>3. \A s \in Ops : flow[s] # <<>> => Tail(flow[s]) \in Seq(Items)
      BY Taken DEF WireTypes
    <2>4. flow' \in [Ops -> Seq(Items)]
      <3>1. ASSUME NEW s, flow' = [flow EXCEPT ![s] = Tail(@)], flow[s] # <<>>
            PROVE  flow' \in [Ops -> Seq(Items)]
        <4>1. CASE s \in Ops
          <5>1. PICK q \in Seq(Items) : q = Tail(flow[s])
            BY <2>3, <3>1, <4>1
          <5> QED
            BY <3>1, <5>1 DEF WireTypes
        <4>2. CASE s \notin Ops
          BY <3>1, <4>2 DEF WireTypes
        <4> QED
          BY <4>1, <4>2
      <3> QED
        BY <2>2, <3>1 DEF WireTypes
    <2> QED
      BY <1>3, <2>1, <2>4, GetFrame DEF net, serving, WireTypes
  <1>4. ASSUME NEW p \in Ops, SendStep(p) PROVE WireTypes'
    <2>1. pc' \in [Ops -> {"idle", "wait", "stream", "copy", "ok", "failed"}]
      BY <1>4 DEF SendStep, SendInfo, SendChunk, SendDone, SendFails, Go, WireTypes
    <2>2. sent' \in [Ops -> 0..Size]
      <3>1. \/ sent' = sent
            \/ sent[p] < Size /\ sent' = [sent EXCEPT ![p] = @ + 1]
        BY <1>4 DEF SendStep, SendInfo, SendChunk, SendDone, SendFails
      <3>2. sent[p] \in 0..Size
        BY DEF WireTypes
      <3>3. sent[p] < Size => sent[p] + 1 \in 0..Size
        BY <3>2 DEF Size
      <3> QED
        BY <3>1, <3>3 DEF WireTypes
    <2>3. flow' = flow \/ \E x \in Items : Put(Stream(p), x)
      BY <1>4, <1>w, ItemTypes DEF SendStep, SendInfo, SendChunk, SendDone, SendFails, WireTypes
    <2>4. flow' \in [Ops -> Seq(Items)]
      <3>1. CASE Stream(p) \in Ops
        BY <2>3, <3>1, PutType DEF WireTypes
      <3>2. CASE Stream(p) \notin Ops
        BY <2>3, <3>2 DEF Put, WireTypes
      <3> QED
        BY <3>1, <3>2
    <2> QED
      BY <1>4, <2>1, <2>2, <2>4, SendFrame DEF net, serving, WireTypes
  <1>5. ASSUME NEW p \in Ops, ServeStep(p) PROVE WireTypes'
    <2>1. /\ Refusal(p) \in Answers /\ Offer(p, 0, <<>>) \in Answers
          /\ Offer(p, size[p], sum[p].got) \in Answers
      <3>1. size[p] \in 0..Size /\ sum[p].got \in Seq(Chunks)
        BY DEF WireTypes, DiskTypes
      <3>2. 0 \in 0..Size /\ <<>> \in Seq(Chunks)
        BY DEF Size
      <3> QED
        BY <3>1, <3>2, AnswerTypes
    <2>2. /\ toClient' \in [Conns -> Seq(Answers)]
          /\ handler' \in [Conns -> Ops \cup {"none", "off"}]
      <3>1. CASE \E pkt \in Answers : Reply(p, <<pkt>>)
        BY <1>w, <3>1, ReplyEffect
      <3>2. CASE UNCHANGED <<toClient, handler>> \/ (toClient' = toClient
                   /\ handler' = [handler EXCEPT ![Conn(p)] = p])
        BY <3>2 DEF WireTypes
      <3>3. \/ \E pkt \in Answers : Reply(p, <<pkt>>)
            \/ UNCHANGED <<toClient, handler>> \/ (toClient' = toClient
                   /\ handler' = [handler EXCEPT ![Conn(p)] = p])
        BY <1>5, <2>1 DEF ServeStep, HandleGet, GetOpen, GetReply, HandleSend, HandleList, Refused
      <3> QED
        BY <3>1, <3>2, <3>3
    <2>3. toServer' \in [Conns -> Seq(Ops)]
      <3>1. toServer' = toServer
            \/ (Takes(Conn(p), p) /\ toServer' = [toServer EXCEPT ![Conn(p)] = Tail(@)])
        BY <1>5 DEF ServeStep, HandleGet, GetOpen, GetReply, HandleSend, HandleList
      <3> QED
        BY <1>w, <3>1, TakeEffect DEF WireTypes
    <2>4. size' \in [Ops -> 0..Size]
      <3>1. CASE HandleGet(p)
        <4>1. size' = size \/ (file[Name(p)] # None
                               /\ size' = [size EXCEPT ![p] = Len(data[file[Name(p)]])])
          BY <3>1 DEF HandleGet
        <4>2. Name(p) \in Names
          BY <1>w, WhatTypes
        <4>3. CASE file[Name(p)] # None
          <5>1. file[Name(p)] \in Inodes
            BY <4>2, <4>3 DEF DiskTypes
          <5>2. PICK l \in 0..Size : l = Len(data[file[Name(p)]])
            BY <5>1, DataLength
          <5> QED
            BY <4>1, <5>2 DEF WireTypes
        <4> QED
          BY <4>1, <4>3 DEF WireTypes
      <3>2. CASE ~HandleGet(p)
        <4>1. (size' = size \/ size' = [size EXCEPT ![p] = 0]) /\ 0 \in 0..Size
          BY <1>5, <3>2 DEF ServeStep, GetOpen, GetReply, HandleSend, HandleList, Size
        <4> QED
          BY <4>1 DEF WireTypes
      <3> QED
        BY <3>1, <3>2
    <2> QED
      BY <1>5, <2>2, <2>3, <2>4, ServeFrame DEF client, WireTypes
  <1>6. ASSUME NEW p \in Ops, Hash(p) PROVE WireTypes'
    BY <1>6, HashFrame DEF net, client, serving, WireTypes
  <1>7. ASSUME NEW p \in Ops, TransferStep(p) PROVE WireTypes'
    <2>1. flow' \in [Ops -> Seq(Items)]
      <3>1. flow' = flow \/ \E x \in Items : Put(p, x)
        <4>1. CASE TransferChunk(p)
          <5>1. /\ task[p] = "copy" /\ at[p] < Len(data[fd[p]])
                /\ Put(p, data[fd[p]][at[p] + 1])
            BY <4>1 DEF TransferChunk
          <5>2. fd[p] \in Inodes
            BY <5>1 DEF KindTypes, KindOf, DiskTypes
          <5>3. data[fd[p]] \in Seq(Chunks) /\ Len(data[fd[p]]) \in Nat /\ at[p] \in Nat
            BY <5>2, LenProperties DEF DiskTypes, Size
          <5>4. data[fd[p]][at[p] + 1] \in Chunks
            BY <5>1, <5>3
          <5> QED
            BY <5>1, <5>4 DEF Items
        <4>2. CASE ~TransferChunk(p)
          BY <1>7, <4>2 DEF TransferStep, TransferOpen, TransferEnd, Items
        <4> QED
          BY <4>1, <4>2
      <3> QED
        BY <3>1, PutType DEF WireTypes
    <2> QED
      BY <1>7, <2>1, TransferFrame DEF net, client, serving, WireTypes
  <1>8. ASSUME NEW p \in Ops, ReceiveStep(p) PROVE WireTypes'
    <2>1. flow' = flow \/ (flow' = [flow EXCEPT ![p] = Tail(@)] /\ flow[p] # <<>>)
      BY <1>8 DEF ReceiveStep, ReceiveInfo, ReceiveGivesUp, ReceiveCreate, ReceiveChunk,
                  ReceiveFails, ReceiveHash, ReceiveCheck
    <2>2. flow[p] # <<>> => Tail(flow[p]) \in Seq(Items)
      BY Taken DEF WireTypes
    <2>3. flow' \in [Ops -> Seq(Items)]
      BY <2>1, <2>2 DEF WireTypes
    <2> QED
      BY <1>8, <2>3, ReceiveFrame DEF net, client, serving, WireTypes
  <1> QED
    BY <1>1, <1>2, <1>3, <1>4, <1>5, <1>6, <1>7, <1>8, Steps

\* Steps of clients do not touch the server's files.
LEMMA ClientFrame ==
    ASSUME \/ \E k \in Conns : LinkStep(k)
           \/ \E p \in Ops : Request(p) \/ GetStep(p) \/ SendStep(p)
    PROVE  UNCHANGED <<what, sum, transfer, disk>>
    BY LinkFrame, RequestFrame, GetFrame, SendFrame DEF serving

\* The info line is one that a client sends.
LEMMA InfoTold ==
    ASSUME Types, Lines, NEW s \in Ops, task[s] = "info", flow[s] # <<>>
    PROVE  Head(flow[s]) \in Told
  <1>1. what \in Cases /\ flow[s] \in Seq(Items)
    BY DEF Types, KindTypes, KindOf, WireTypes
  <1>2. Kind(s) = "send"
    BY <1>1, WhatTypes DEF Types, KindTypes, KindOf
  <1>3. Head(flow[s]) = flow[s][1] /\ 1 \in 1..Len(flow[s])
    BY <1>1
  <1> QED
    BY <1>2, <1>3 DEF Lines, Line

\* What a receiver finds on its stream after it.
LEMMA ChunkReceived ==
    ASSUME Types, Lines, NEW s \in Ops, Kind(s) = "send", task[s] = "copy", flow[s] # <<>>,
           Head(flow[s]) # Eof
    PROVE  Head(flow[s]) \in Chunks
  <1>1. flow[s] \in Seq(Items)
    BY DEF Types, WireTypes
  <1>2. Head(flow[s]) = flow[s][1] /\ 1 \in 1..Len(flow[s])
    BY <1>1
  <1> QED
    BY <1>2 DEF Lines, Line, Begun, Rest

\* A checksum with one field changed.
LEMMA SumRecord ==
    ASSUME NEW A, NEW B, NEW r \in [ino : A, got : B], NEW x
    PROVE  /\ [r EXCEPT !.got = x] = [ino |-> r.ino, got |-> x]
           /\ [r EXCEPT !.ino = x] = [ino |-> x, got |-> r.got]
    OBVIOUS

\* Reading a file for its checksum.
LEMMA HashEffect ==
    ASSUME Types, NEW p \in Ops, Hash(p)
    PROVE  LET i == sum[p].ino
               n == Len(sum[p].got)
           IN  /\ i \in Inodes /\ n \in Nat /\ n + 1 \in 1..Len(data[i])
               /\ sum'[p].ino = i /\ sum'[p].got = Append(sum[p].got, data[i][n + 1])
               /\ data[i][n + 1] \in Chunks
               /\ \A q \in Ops : q # p => sum'[q] = sum[q]
               /\ sum' \in [Ops -> [ino : Inodes \cup {None}, got : Seq(Chunks)]]
  <1> DEFINE i == sum[p].ino
             n == Len(sum[p].got)
  <1>1. sum[p] \in [ino : Inodes \cup {None}, got : Seq(Chunks)]
    BY DEF Types, DiskTypes
  <1>2. i \in Inodes /\ sum[p].got \in Seq(Chunks)
    BY <1>1 DEF Hash, More
  <1>3. data[i] \in Seq(Chunks) /\ Len(data[i]) \in Nat /\ n \in Nat /\ n < Len(data[i])
    <2>1. data[i] \in Seq(Chunks)
      BY <1>2 DEF Types, DiskTypes
    <2>2. n < Len(data[i])
      BY DEF Hash, More
    <2> QED
      BY <1>2, <2>1, <2>2, LenProperties
  <1>4. PICK x \in Chunks : x = data[i][n + 1]
    BY <1>3
  <1>5. PICK g \in Seq(Chunks) : g = Append(sum[p].got, x)
    BY <1>2, <1>4, Queued
  <1>6. sum' = [sum EXCEPT ![p].got = g]
    BY <1>4, <1>5 DEF Hash
  <1>7. sum' = [sum EXCEPT ![p] = [ino |-> i, got |-> g]]
    <2>1. [sum[p] EXCEPT !.got = g] = [ino |-> i, got |-> g]
      BY <1>1, SumRecord
    <2>2. sum' = [sum EXCEPT ![p] = [sum[p] EXCEPT !.got = g]]
      BY <1>6
    <2> QED
      BY <2>1, <2>2
  <1>8. /\ sum'[p].ino = i /\ sum'[p].got = g /\ \A q \in Ops : q # p => sum'[q] = sum[q]
        /\ sum' \in [Ops -> [ino : Inodes \cup {None}, got : Seq(Chunks)]]
    BY <1>2, <1>5, <1>7 DEF Types, DiskTypes
  <1>9. n + 1 \in 1..Len(data[i])
    BY <1>3
  <1> QED
    BY <1>2, <1>3, <1>4, <1>5, <1>8, <1>9

\* Opening a file for it, and being done.
LEMMA SumSet ==
    ASSUME DiskTypes, NEW p \in Ops, NEW i \in Inodes \cup {None}
    PROVE  /\ sum' = [sum EXCEPT ![p].ino = i] =>
                /\ sum' \in [Ops -> [ino : Inodes \cup {None}, got : Seq(Chunks)]]
                /\ sum'[p].ino = i /\ sum'[p].got = sum[p].got
                /\ \A q \in Ops : q # p => sum'[q] = sum[q]
           /\ sum' = [sum EXCEPT ![p] = Nothing] =>
                /\ sum' \in [Ops -> [ino : Inodes \cup {None}, got : Seq(Chunks)]]
                /\ sum'[p] = Nothing
                /\ \A q \in Ops : q # p => sum'[q] = sum[q]
  <1>1. sum[p] \in [ino : Inodes \cup {None}, got : Seq(Chunks)]
    BY DEF DiskTypes
  <1>2. Nothing \in [ino : Inodes \cup {None}, got : Seq(Chunks)]
    BY DEF Nothing
  <1>3. ASSUME sum' = [sum EXCEPT ![p].ino = i]
        PROVE  sum' = [sum EXCEPT ![p] = [ino |-> i, got |-> sum[p].got]]
    <2>1. [sum[p] EXCEPT !.ino = i] = [ino |-> i, got |-> sum[p].got]
      BY <1>1, SumRecord
    <2>2. sum' = [sum EXCEPT ![p] = [sum[p] EXCEPT !.ino = i]]
      BY <1>3
    <2> QED
      BY <2>1, <2>2
  <1>4. [ino |-> i, got |-> sum[p].got] \in [ino : Inodes \cup {None}, got : Seq(Chunks)]
    BY <1>1
  <1>5. ASSUME sum' = [sum EXCEPT ![p].ino = i]
        PROVE  /\ sum' \in [Ops -> [ino : Inodes \cup {None}, got : Seq(Chunks)]]
               /\ sum'[p].ino = i /\ sum'[p].got = sum[p].got
               /\ \A q \in Ops : q # p => sum'[q] = sum[q]
    BY <1>3, <1>4, <1>5 DEF DiskTypes
  <1>6. ASSUME sum' = [sum EXCEPT ![p] = Nothing]
        PROVE  /\ sum' \in [Ops -> [ino : Inodes \cup {None}, got : Seq(Chunks)]]
               /\ sum'[p] = Nothing
               /\ \A q \in Ops : q # p => sum'[q] = sum[q]
    BY <1>2, <1>6 DEF DiskTypes
  <1> QED
    BY <1>5, <1>6

\* What creating the file does: it is empty then.
LEMMA CreateEffect ==
    ASSUME Types, NEW p \in Ops, ReceiveCreate(p)
    PROVE  \E i \in Inodes :
             /\ i = IF file[Name(p)] = None THEN p ELSE file[Name(p)]
             /\ fd' = [fd EXCEPT ![p] = i] /\ file' = [file EXCEPT ![Name(p)] = i]
             /\ data' = [data EXCEPT ![i] = <<>>] /\ task' = [task EXCEPT ![p] = "copy"]
             /\ UNCHANGED <<sum, told, at>> /\ task[p] = "create" /\ Name(p) \in Names
             /\ Kind(p) = "send"
  <1>1. Name(p) \in Names /\ Kind(p) \in {"get", "send", "list"} /\ task[p] = "create"
    BY WhatTypes DEF Types, KindTypes, KindOf, ReceiveCreate
  <1>2. Kind(p) = "send"
    BY <1>1 DEF Types, KindTypes, KindOf
  <1>3. PICK i \in Inodes : i = IF file[Name(p)] = None THEN p ELSE file[Name(p)]
    BY <1>1 DEF Types, DiskTypes, Inodes
  <1>4. /\ fd' = [fd EXCEPT ![p] = i] /\ file' = [file EXCEPT ![Name(p)] = i]
        /\ data' = [data EXCEPT ![i] = <<>>] /\ task' = [task EXCEPT ![p] = "copy"]
        /\ UNCHANGED <<sum, told, at>>
    BY <1>3 DEF ReceiveCreate, Do
  <1> QED
    BY <1>1, <1>2, <1>3, <1>4

\* What writing a chunk does.
LEMMA ChunkEffect ==
    ASSUME Types, Lines, NEW p \in Ops, ReceiveChunk(p)
    PROVE  \E d \in Seq(Chunks) :
             /\ fd[p] \in Inodes /\ Kind(p) = "send" /\ task[p] = "copy"
             /\ Len(d) <= Size /\ data' = [data EXCEPT ![fd[p]] = d]
             /\ at' = [at EXCEPT ![p] = @ + 1] /\ at[p] + 1 \in 0..Size
             /\ UNCHANGED <<sum, task, told, fd, file>>
  <1>1. /\ Kind(p) = "send" /\ task[p] = "copy" /\ at[p] < Size
        /\ flow[p] # <<>> /\ Head(flow[p]) # Eof
        /\ data' = [data EXCEPT ![fd[p]] = Written(@, at[p] + 1, Head(flow[p]))]
        /\ at' = [at EXCEPT ![p] = @ + 1] /\ UNCHANGED <<sum, task, told, fd, file>>
    BY DEF ReceiveChunk
  <1>2. fd[p] \in Inodes /\ at[p] \in 0..Size
    BY <1>1 DEF Types, KindTypes, KindOf, DiskTypes
  <1>3. at[p] + 1 \in 1..Size /\ at[p] + 1 \in 0..Size
    BY <1>1, <1>2 DEF Size
  <1>4. PICK x \in Chunks : x = Head(flow[p])
    BY <1>1, ChunkReceived
  <1>5. data[fd[p]] \in Seq(Chunks) /\ Len(data[fd[p]]) <= Size
    BY <1>2 DEF Types, DiskTypes
  <1>6. PICK d \in Seq(Chunks) : d = Written(data[fd[p]], at[p] + 1, x) /\ Len(d) <= Size
    BY <1>3, <1>5, WrittenType
  <1>7. data' = [data EXCEPT ![fd[p]] = d]
    BY <1>1, <1>4, <1>6
  <1> QED
    BY <1>1, <1>2, <1>3, <1>6, <1>7

\* What the hashing of a received file begins with.
LEMMA HashBegins ==
    ASSUME Types, NEW p \in Ops, ReceiveHash(p)
    PROVE  /\ Kind(p) = "send" /\ task[p] = "copy" /\ Name(p) \in Names
           /\ fd' = [fd EXCEPT ![p] = None] /\ at' = [at EXCEPT ![p] = 0]
           /\ UNCHANGED <<told, file, data>> /\ sum[p] = Nothing
           /\ \/ /\ file[Name(p)] = None /\ task' = [task EXCEPT ![p] = "end"] /\ sum' = sum
              \/ /\ file[Name(p)] # None /\ task' = [task EXCEPT ![p] = "check"]
                 /\ sum' = [sum EXCEPT ![p].ino = file[Name(p)]] /\ file[Name(p)] \in Inodes
  <1>1. Name(p) \in Names
    BY WhatTypes DEF Types, KindTypes, KindOf
  <1>2. Kind(p) = "send" /\ task[p] = "copy"
    BY DEF ReceiveHash
  <1>3. sum[p] = Nothing
    BY <1>2 DEF Types, KindTypes, KindOf
  <1>4. file[Name(p)] \in Inodes \cup {None}
    BY <1>1 DEF Types, DiskTypes
  <1> QED
    BY <1>1, <1>2, <1>3, <1>4 DEF ReceiveHash, Close, Do, disk

\* And ends with.
LEMMA CheckEffect ==
    ASSUME Types, NEW p \in Ops, ReceiveCheck(p)
    PROVE  /\ Kind(p) = "send" /\ task[p] = "check" /\ Name(p) \in Names
           /\ sum[p].ino # None /\ ~More(p)
           /\ task' = [task EXCEPT ![p] = "end"] /\ sum' = [sum EXCEPT ![p] = Nothing]
           /\ UNCHANGED <<told, fd, at, data>>
           /\ \/ Verified(p) /\ file' = file
              \/ file' = [file EXCEPT ![Name(p)] = None]
  <1>1. Name(p) \in Names /\ Kind(p) \in {"get", "send", "list"} /\ task[p] = "check"
    BY WhatTypes DEF Types, KindTypes, KindOf, ReceiveCheck
  <1>2. Kind(p) = "send" /\ sum[p].ino # None
    BY <1>1 DEF Types, KindTypes, KindOf
  <1> QED
    BY <1>1, <1>2 DEF ReceiveCheck, Do, Unlink

\* What the handler does to the task and the checksum.
LEMMA ServeEffect ==
    ASSUME Types, NEW p \in Ops, ServeStep(p)
    PROVE  /\ \/ task' = task
              \/ /\ Kind(p) \in {"get", "send"}
                 /\ \E t \in {"open", "info", "end"} :
                      /\ task' = [task EXCEPT ![p] = t]
                      /\ t = "open" => Kind(p) = "get"
                      /\ t = "info" => Kind(p) = "send"
           /\ \/ sum' = sum
              \/ /\ Kind(p) = "get"
                 /\ \/ sum' = [sum EXCEPT ![p] = Nothing]
                    \/ \E i \in Inodes : /\ i = file[Name(p)] /\ sum[p] = Nothing
                                         /\ sum' = [sum EXCEPT ![p].ino = i]
  <1>1. Name(p) \in Names
    BY WhatTypes DEF Types, KindTypes, KindOf
  <1>2. file[Name(p)] # None => file[Name(p)] \in Inodes
    BY <1>1 DEF Types, DiskTypes
  <1>3. CASE HandleGet(p) \/ HandleList(p)
    BY <1>3 DEF HandleGet, HandleList, transfer
  <1>4. CASE GetOpen(p)
    BY <1>2, <1>4 DEF GetOpen, transfer
  <1>5. CASE GetReply(p)
    BY <1>5 DEF GetReply
  <1>6. CASE HandleSend(p)
    BY <1>6 DEF HandleSend
  <1> QED
    BY <1>3, <1>4, <1>5, <1>6 DEF ServeStep

\* Files and what is read and written of them.
LEMMA DiskKept == ASSUME Types, Lines, Next PROVE DiskTypes'
  <1> USE DEF Types
  <1> DEFINE TaskPlaces == {"off", "open", "info", "create", "copy", "check", "end"}
  <1>w. what' = what /\ Told' = Told
    BY WhatStays, WhatKept
  <1>k. \A p \in Ops : Name(p) \in Names /\ Kind(p) \in {"get", "send", "list"}
    BY WhatTypes DEF KindTypes, KindOf
  <1>1. CASE \/ \E k \in Conns : LinkStep(k)
             \/ \E p \in Ops : Request(p) \/ GetStep(p) \/ SendStep(p)
    BY <1>1, <1>w, ClientFrame DEF transfer, disk, DiskTypes
  <1>2. ASSUME NEW p \in Ops, ServeStep(p) PROVE DiskTypes'
    <2>1. task' \in [Ops -> TaskPlaces]
      BY <1>2, ServeEffect DEF DiskTypes
    <2>2. sum' \in [Ops -> [ino : Inodes \cup {None}, got : Seq(Chunks)]]
      BY <1>2, ServeEffect, SumSet DEF DiskTypes
    <2>3. UNCHANGED <<told, fd, at, file, data>>
      BY <1>2, ServeFrame DEF disk
    <2> QED
      BY <1>w, <2>1, <2>2, <2>3 DEF DiskTypes
  <1>3. ASSUME NEW p \in Ops, Hash(p) PROVE DiskTypes'
    <2>1. sum' \in [Ops -> [ino : Inodes \cup {None}, got : Seq(Chunks)]]
      BY <1>3, HashEffect
    <2> QED
      BY <1>3, <1>w, <2>1, HashFrame DEF transfer, disk, DiskTypes
  <1>4. ASSUME NEW p \in Ops, TransferStep(p) PROVE DiskTypes'
    <2>1. UNCHANGED <<sum, told, file, data>>
      BY <1>4, TransferFrame DEF disk
    <2>2. task' \in [Ops -> TaskPlaces]
      BY <1>4 DEF TransferStep, TransferOpen, TransferChunk, TransferEnd, Do, DiskTypes
    <2>3. fd' \in [Ops -> Inodes \cup {None}]
      <3>1. file[Name(p)] \in Inodes \cup {None}
        BY <1>k DEF DiskTypes
      <3>2. fd' = fd \/ fd' = [fd EXCEPT ![p] = file[Name(p)]] \/ fd' = [fd EXCEPT ![p] = None]
        BY <1>4 DEF TransferStep, TransferOpen, TransferChunk, TransferEnd, Close
      <3> QED
        BY <3>1, <3>2 DEF DiskTypes
    <2>4. at' \in [Ops -> 0..Size]
      <3>1. CASE TransferChunk(p)
        <4>1. /\ task[p] = "copy" /\ at[p] < Len(data[fd[p]])
              /\ at' = [at EXCEPT ![p] = @ + 1]
          BY <3>1 DEF TransferChunk
        <4>2. fd[p] \in Inodes
          BY <4>1 DEF KindTypes, KindOf, DiskTypes
        <4>3. PICK l \in 0..Size : l = Len(data[fd[p]])
          BY <4>2, DataLength
        <4>4. at[p] \in 0..Size /\ at[p] < l
          BY <4>1, <4>3 DEF DiskTypes
        <4>5. at[p] + 1 \in 0..Size
          BY <4>4 DEF Size
        <4> QED
          BY <4>1, <4>5 DEF DiskTypes
      <3>2. CASE ~TransferChunk(p)
        <4>1. (at' = at \/ at' = [at EXCEPT ![p] = 0]) /\ 0 \in 0..Size
          BY <1>4, <3>2 DEF TransferStep, TransferOpen, TransferEnd, Close, Size
        <4> QED
          BY <4>1 DEF DiskTypes
      <3> QED
        BY <3>1, <3>2
    <2> QED
      BY <1>w, <2>1, <2>2, <2>3, <2>4 DEF DiskTypes
  <1>5. ASSUME NEW p \in Ops, ReceiveInfo(p) PROVE DiskTypes'
    <2>1. Head(flow[p]) \in Told
      BY <1>5, InfoTold DEF ReceiveInfo
    <2>2. told' \in [Ops -> Told \cup {None}] /\ task' \in [Ops -> TaskPlaces]
      BY <1>5, <2>1 DEF ReceiveInfo, Do, DiskTypes
    <2> QED
      BY <1>5, <1>w, <2>2 DEF ReceiveInfo, disk, DiskTypes
  <1>6. ASSUME NEW p \in Ops, ReceiveGivesUp(p) PROVE DiskTypes'
    <2>1. task' \in [Ops -> TaskPlaces]
      BY <1>6 DEF ReceiveGivesUp, Do, DiskTypes
    <2> QED
      BY <1>6, <1>w, <2>1 DEF ReceiveGivesUp, disk, DiskTypes
  <1>7. ASSUME NEW p \in Ops, ReceiveCreate(p) PROVE DiskTypes'
    <2>1. PICK i \in Inodes :
             /\ fd' = [fd EXCEPT ![p] = i] /\ file' = [file EXCEPT ![Name(p)] = i]
             /\ data' = [data EXCEPT ![i] = <<>>] /\ task' = [task EXCEPT ![p] = "copy"]
             /\ UNCHANGED <<sum, told, at>>
      BY <1>7, CreateEffect
    <2>2. <<>> \in Seq(Chunks) /\ Len(<<>>) <= Size
      BY DEF Size
    <2>3. data' \in [Inodes -> Seq(Chunks)] /\ \A j \in Inodes : Len(data'[j]) <= Size
      BY <2>1, <2>2 DEF DiskTypes
    <2>4. /\ fd' \in [Ops -> Inodes \cup {None}] /\ file' \in [Names -> Inodes \cup {None}]
          /\ task' \in [Ops -> TaskPlaces]
      BY <2>1 DEF DiskTypes
    <2> QED
      BY <1>w, <2>1, <2>3, <2>4 DEF DiskTypes
  <1>8. ASSUME NEW p \in Ops, ReceiveChunk(p) PROVE DiskTypes'
    <2>1. PICK d \in Seq(Chunks) :
             /\ fd[p] \in Inodes /\ Len(d) <= Size /\ data' = [data EXCEPT ![fd[p]] = d]
             /\ at' = [at EXCEPT ![p] = @ + 1] /\ at[p] + 1 \in 0..Size
             /\ UNCHANGED <<sum, task, told, fd, file>>
      BY <1>8, ChunkEffect
    <2>2. data' \in [Inodes -> Seq(Chunks)] /\ \A j \in Inodes : Len(data'[j]) <= Size
      BY <2>1 DEF DiskTypes
    <2>3. at' \in [Ops -> 0..Size]
      BY <2>1 DEF DiskTypes
    <2> QED
      BY <1>w, <2>1, <2>2, <2>3 DEF DiskTypes
  <1>9. ASSUME NEW p \in Ops, ReceiveFails(p) PROVE DiskTypes'
    <2>1. task' \in [Ops -> TaskPlaces]
      BY <1>9 DEF ReceiveFails, Do, DiskTypes
    <2>2. fd' \in [Ops -> Inodes \cup {None}] /\ file' \in [Names -> Inodes \cup {None}]
      BY <1>9 DEF ReceiveFails, Close, Unlink, DiskTypes
    <2>3. at' \in [Ops -> 0..Size]
      BY <1>9 DEF ReceiveFails, Close, Size, DiskTypes
    <2> QED
      BY <1>9, <1>w, <2>1, <2>2, <2>3 DEF ReceiveFails, DiskTypes
  <1>10. ASSUME NEW p \in Ops, ReceiveHash(p) PROVE DiskTypes'
    <2>1. sum' \in [Ops -> [ino : Inodes \cup {None}, got : Seq(Chunks)]]
      BY <1>10, HashBegins, SumSet DEF DiskTypes
    <2>2. task' \in [Ops -> TaskPlaces] /\ fd' \in [Ops -> Inodes \cup {None}]
      BY <1>10, HashBegins DEF DiskTypes
    <2>3. at' \in [Ops -> 0..Size]
      <3>1. at' = [at EXCEPT ![p] = 0] /\ at \in [Ops -> 0..Size]
        BY <1>10, HashBegins DEF DiskTypes
      <3>2. 0 \in 0..Size
        BY DEF Size
      <3> QED
        BY <3>1, <3>2
    <2> QED
      BY <1>10, <1>w, <2>1, <2>2, <2>3, HashBegins DEF DiskTypes
  <1>11. ASSUME NEW p \in Ops, ReceiveCheck(p) PROVE DiskTypes'
    <2>1. None \in Inodes \cup {None}
      OBVIOUS
    <2>2. sum' \in [Ops -> [ino : Inodes \cup {None}, got : Seq(Chunks)]]
      BY <1>11, <2>1, CheckEffect, SumSet
    <2>3. task' \in [Ops -> TaskPlaces] /\ file' \in [Names -> Inodes \cup {None}]
      BY <1>11, CheckEffect DEF DiskTypes
    <2> QED
      BY <1>11, <1>w, <2>2, <2>3, CheckEffect DEF DiskTypes
  <1> QED
    BY <1>1, <1>2, <1>3, <1>4, <1>5, <1>6, <1>7, <1>8, <1>9, <1>10, <1>11, Steps DEF ReceiveStep

\* A request that the handler takes is nowhere else, and nothing is received
\* for it yet.
LEMMA Fresh ==
    ASSUME Types, OnePlace, Lines, NEW p \in Ops, Takes(Conn(p), p)
    PROVE  /\ Requested(p) /\ ~Handled(p) /\ ~Answering(p) /\ ~Answered(p)
           /\ Kind(p) = "send" => task[p] \notin Begun
  <1>1. Conn(p) \in Conns
    BY WhatTypes DEF Types, KindTypes
  <1>2. toServer[Conn(p)] \in Seq(Ops) /\ toServer[Conn(p)] # <<>> /\ Head(toServer[Conn(p)]) = p
    BY <1>1 DEF Types, WireTypes, Takes
  <1>3. 1 \in 1..Len(toServer[Conn(p)]) /\ toServer[Conn(p)][1] = p
    BY <1>2, Taken
  <1>4. Requested(p)
    BY <1>3 DEF Requested, In
  <1> QED
    BY <1>4 DEF OnePlace, One, Lines, Line

\* An operation that a step does not touch.
LEMMA KindOther ==
    ASSUME KindTypes, what' = what, NEW q \in Ops, task'[q] = task[q], fd'[q] = fd[q],
           sum'[q] = sum[q], handler'[Conn(q)] = q => handler[Conn(q)] = q
    PROVE  KindOf(q)'
  <1>1. Kind(q)' = Kind(q) /\ Conn(q)' = Conn(q)
    BY WhatKept
  <1>2. KindOf(q)
    BY DEF KindTypes
  <1> QED
    BY <1>1, <1>2 DEF KindOf

\* Kinds.
LEMMA KindKept == ASSUME Types, OnePlace, Lines, Next PROVE KindTypes'
  <1> USE DEF Types
  <1>w. what' = what /\ what \in Cases
    BY WhatStays DEF KindTypes
  <1>k. \A p \in Ops : /\ Kind(p)' = Kind(p) /\ Conn(p)' = Conn(p) /\ Conn(p) \in Conns
                       /\ Kind(p) \in {"get", "send", "list"} /\ Name(p) \in Names
    BY <1>w, WhatTypes, WhatKept
  <1>o. \A p \in Ops : KindOf(p)
    BY DEF KindTypes
  <1>1. ASSUME \/ \E k \in Conns : LinkStep(k)
               \/ \E p \in Ops : Request(p) \/ GetStep(p) \/ SendStep(p),
               NEW q \in Ops
        PROVE  KindOf(q)'
    <2>1. UNCHANGED <<task, fd, sum>>
      BY <1>1, ClientFrame DEF transfer
    <2>2. handler' = handler \/ \E k : handler' = [handler EXCEPT ![k] = "off"]
      BY <1>1, RequestFrame, GetFrame, SendFrame
         DEF LinkStep, Dispatch, DispatchEnd, LinkDown, ServeEnds, serving
    <2>3. "off" # q
      BY FileAssumption
    <2>4. handler'[Conn(q)] = q => handler[Conn(q)] = q
      BY <1>k, <2>2, <2>3 DEF WireTypes
    <2> QED
      BY <1>w, <2>1, <2>4, KindOther
  <1>2. ASSUME NEW p \in Ops, ServeStep(p), NEW q \in Ops PROVE KindOf(q)'
    <2>1. fd' = fd
      BY <1>2, ServeFrame DEF transfer
    <2>2. handler'[Conn(q)] = q => handler[Conn(q)] = q \/ (q = p /\ Kind(p) = "get")
      <3>1. \/ handler' = handler
            \/ \E e \in {"none", "off"} : handler' = [handler EXCEPT ![Conn(p)] = e]
            \/ handler' = [handler EXCEPT ![Conn(p)] = p] /\ Kind(p) = "get"
        BY <1>2 DEF ServeStep, HandleGet, GetOpen, GetReply, HandleSend, HandleList, Reply
      <3>2. "none" # q /\ "off" # q
        BY FileAssumption
      <3> QED
        BY <1>k, <3>1, <3>2 DEF WireTypes
    <2>3. CASE q # p
      <3>1. task'[q] = task[q]
        BY <1>2, <2>3, ServeEffect DEF DiskTypes
      <3>2. sum'[q] = sum[q]
        BY <1>2, <2>3, ServeEffect, SumSet
      <3> QED
        BY <1>w, <2>1, <2>2, <2>3, <3>1, <3>2, KindOther
    <2>4. CASE q = p /\ Kind(p) = "send"
      <3>1. sum' = sum /\ HandleSend(p)
        BY <1>2, <2>4, ServeEffect DEF ServeStep, HandleGet, GetOpen, GetReply, HandleList
      <3>2. task[p] \notin Begun
        BY <2>4, <3>1, Fresh DEF HandleSend
      <3>3. sum'[p] = Nothing
        BY <1>o, <2>4, <3>1, <3>2 DEF KindOf, Begun
      <3>4. task'[p] = task[p] \/ task'[p] = "info" \/ task'[p] = "end"
        BY <3>1 DEF HandleSend, DiskTypes
      <3> QED
        BY <1>k, <1>o, <2>2, <2>4, <3>2, <3>3, <3>4 DEF KindOf, Begun
    <2>5. CASE q = p /\ Kind(p) = "get"
      <3>1. task'[p] = task[p] \/ task'[p] = "open" \/ task'[p] = "end"
        BY <1>2, <2>5, ServeEffect DEF DiskTypes
      <3> QED
        BY <1>k, <1>o, <2>1, <2>5, <3>1 DEF KindOf
    <2>6. CASE q = p /\ Kind(p) = "list"
      <3>1. task' = task
        BY <1>2, <2>6, ServeEffect
      <3> QED
        BY <1>k, <1>o, <2>2, <2>6, <3>1 DEF KindOf
    <2> QED
      BY <1>k, <2>3, <2>4, <2>5, <2>6
  <1>3. ASSUME NEW p \in Ops, Hash(p), NEW q \in Ops PROVE KindOf(q)'
    <2>1. UNCHANGED <<task, fd, handler>>
      BY <1>3, HashFrame DEF transfer, serving
    <2>2. CASE q # p
      <3>1. sum'[q] = sum[q]
        BY <1>3, <2>2, HashEffect
      <3> QED
        BY <1>w, <2>1, <3>1, KindOther
    <2>3. CASE q = p
      <3>1. handler[Conn(p)] = p \/ task[p] = "check"
        BY <1>3 DEF Hash
      <3>2. sum'[p].ino \in Inodes
        BY <1>3, HashEffect
      <3>3. None \notin Inodes
        BY FileAssumption DEF Inodes
      <3> QED
        BY <1>k, <1>o, <2>1, <2>3, <3>1, <3>2, <3>3 DEF KindOf
    <2> QED
      BY <2>2, <2>3
  <1>4. ASSUME NEW p \in Ops, TransferStep(p), NEW q \in Ops PROVE KindOf(q)'
    <2>1. UNCHANGED <<sum, handler>> /\ Kind(p) = "get"
      BY <1>4, TransferFrame DEF serving, TransferStep, TransferOpen, TransferChunk, TransferEnd
    <2>2. CASE q # p
      <3>1. task'[q] = task[q] /\ fd'[q] = fd[q]
        BY <1>4, <2>2
           DEF TransferStep, TransferOpen, TransferChunk, TransferEnd, Do, Close, DiskTypes
      <3> QED
        BY <1>w, <2>1, <3>1, KindOther
    <2>3. CASE q = p
      <3>1. \/ task'[p] = "end"
            \/ task'[p] = "copy" /\ fd'[p] # None
        BY <1>4, <1>o
           DEF TransferStep, TransferOpen, TransferChunk, TransferEnd, Do, DiskTypes, KindOf
      <3> QED
        BY <1>k, <2>1, <2>3, <3>1 DEF KindOf
    <2> QED
      BY <2>2, <2>3
  <1>5. ASSUME NEW p \in Ops, ReceiveStep(p), NEW q \in Ops PROVE KindOf(q)'
    <2>1. handler' = handler
      BY <1>5, ReceiveFrame DEF serving
    <2>2. CASE q # p
      <3>1. task'[q] = task[q] /\ fd'[q] = fd[q]
        BY <1>5, <2>2
           DEF ReceiveStep, ReceiveInfo, ReceiveGivesUp, ReceiveCreate, ReceiveChunk, ReceiveFails,
               ReceiveHash, ReceiveCheck, Do, Close, DiskTypes
      <3>2. \/ sum' = sum \/ sum' = [sum EXCEPT ![p] = Nothing]
            \/ \E i \in Inodes : sum' = [sum EXCEPT ![p].ino = i]
        BY <1>5, HashBegins
           DEF ReceiveStep, ReceiveInfo, ReceiveGivesUp, ReceiveCreate, ReceiveChunk, ReceiveFails,
               ReceiveCheck
      <3>3. sum'[q] = sum[q]
        BY <2>2, <3>2, SumSet
      <3> QED
        BY <1>w, <2>1, <3>1, <3>3, KindOther
    <2>3. CASE q = p
      <3>1. Kind(p) = "send"
        BY <1>5, <1>k, <1>o
           DEF ReceiveStep, ReceiveInfo, ReceiveGivesUp, ReceiveCreate, ReceiveChunk, ReceiveFails,
               ReceiveHash, ReceiveCheck, KindOf
      <3>2. CASE ReceiveInfo(p) \/ ReceiveGivesUp(p) \/ ReceiveFails(p)
        <4>1. sum' = sum /\ task[p] # "check" /\ task'[p] \in {"create", "end"}
          BY <3>2 DEF ReceiveInfo, ReceiveGivesUp, ReceiveFails, Do, DiskTypes
        <4> QED
          BY <1>k, <1>o, <2>1, <2>3, <3>1, <4>1 DEF KindOf
      <3>3. CASE ReceiveCreate(p)
        <4>1. sum' = sum /\ task[p] # "check" /\ task'[p] = "copy" /\ fd'[p] \in Inodes
          BY <3>3, CreateEffect DEF DiskTypes
        <4>2. None \notin Inodes
          BY FileAssumption DEF Inodes
        <4> QED
          BY <1>k, <1>o, <2>1, <2>3, <3>1, <4>1, <4>2 DEF KindOf
      <3>4. CASE ReceiveChunk(p)
        <4>1. UNCHANGED <<sum, task, fd>>
          BY <3>4, ChunkEffect
        <4> QED
          BY <1>w, <2>1, <2>3, <4>1, KindOther
      <3>5. CASE ReceiveHash(p)
        <4>1. /\ task'[p] \in {"end", "check"}
              /\ task'[p] = "end" => sum'[p] = Nothing
              /\ task'[p] = "check" => sum'[p].ino = file[Name(p)] /\ file[Name(p)] # None
          BY <3>5, HashBegins, SumSet DEF DiskTypes
        <4> QED
          BY <1>k, <1>o, <2>1, <2>3, <3>1, <4>1 DEF KindOf
      <3>6. CASE ReceiveCheck(p)
        <4>1. task'[p] = "end" /\ sum'[p] = Nothing
          <5>1. None \in Inodes \cup {None}
            OBVIOUS
          <5> QED
            BY <3>6, <5>1, CheckEffect, SumSet DEF DiskTypes
        <4> QED
          BY <1>k, <1>o, <2>1, <2>3, <3>1, <4>1 DEF KindOf
      <3> QED
        BY <1>5, <3>2, <3>3, <3>4, <3>5, <3>6 DEF ReceiveStep
    <2> QED
      BY <2>2, <2>3
  <1>6. \A q \in Ops : KindOf(q)'
    BY <1>1, <1>2, <1>3, <1>4, <1>5, Steps
  <1> QED
    BY <1>w, <1>6 DEF KindTypes
-----------------------------------------------------------------------------
(* A request is in one place.                                              *)

\* A queue of requests that grows or shrinks.
LEMMA InAppended ==
    ASSUME NEW q \in Seq(Ops), NEW x \in Ops, NEW s
    PROVE  /\ In(Append(q, x), s) => In(q, s) \/ s = x
           /\ Once(q, s) /\ (s = x => ~In(q, s)) => Once(Append(q, x), s)
  <1> DEFINE n == Len(q)
             a == Append(q, x)
  <1>1. n \in Nat /\ Len(a) = n + 1 /\ a[n + 1] = x /\ \A i \in 1..n : a[i] = q[i]
    BY Queued
  <1>2. \A i \in 1..(n + 1) : i \in 1..n \/ i = n + 1
    BY <1>1
  <1>3. In(a, s) => In(q, s) \/ s = x
    BY <1>1, <1>2, Zenon DEF In
  <1>4. ASSUME Once(q, s), s = x => ~In(q, s), NEW i \in 1..(n + 1), NEW j \in 1..(n + 1),
               a[i] = s, a[j] = s
        PROVE  i = j
    BY <1>1, <1>2, <1>4, Zenon DEF In, Once
  <1> QED
    BY <1>1, <1>3, <1>4 DEF Once

LEMMA InTail ==
    ASSUME NEW q \in Seq(Ops), q # <<>>, NEW s, Once(q, s)
    PROVE  /\ In(Tail(q), s) => In(q, s) /\ s # Head(q)
           /\ Once(Tail(q), s)
  <1> DEFINE t == Tail(q)
             m == Len(t)
  <1>1. /\ m \in Nat /\ Len(q) = m + 1 /\ Head(q) = q[1] /\ \A i \in 1..m : t[i] = q[i + 1]
    BY Taken
  <1>2. \A i \in 1..m : i + 1 \in 1..(m + 1) /\ i + 1 # 1 /\ i \in Nat
    BY <1>1
  <1>3. 1 \in 1..(m + 1)
    BY <1>1
  <1>4. ASSUME NEW i \in 1..m, t[i] = s PROVE In(q, s) /\ s # Head(q)
    <2>1. q[i + 1] = s /\ i + 1 \in 1..Len(q) /\ i + 1 # 1 /\ 1 \in 1..Len(q)
      BY <1>1, <1>2, <1>3, <1>4
    <2> QED
      BY <1>1, <2>1, Zenon DEF In, Once
  <1>5. ASSUME NEW i \in 1..m, NEW j \in 1..m, t[i] = s, t[j] = s PROVE i = j
    <2>1. q[i + 1] = s /\ i + 1 \in 1..Len(q) /\ q[j + 1] = s /\ j + 1 \in 1..Len(q)
      BY <1>1, <1>2, <1>5
    <2>2. i + 1 = j + 1
      BY <2>1, Zenon DEF Once
    <2> QED
      BY <1>2, <2>2
  <1> QED
    BY <1>4, <1>5 DEF In, Once

\* And one of answers.
LEMMA InForAppended ==
    ASSUME NEW q \in Seq(Answers), NEW x \in Answers, NEW s
    PROVE  /\ InFor(q \o <<x>>, s) => InFor(q, s) \/ s = x.for
           /\ OnceFor(q, s) /\ (s = x.for => ~InFor(q, s)) => OnceFor(q \o <<x>>, s)
  <1> DEFINE n == Len(q)
             a == q \o <<x>>
  <1>1. n \in Nat /\ Len(a) = n + 1 /\ a[n + 1] = x /\ \A i \in 1..n : a[i] = q[i]
    BY QueuedOne
  <1>2. \A i \in 1..(n + 1) : i \in 1..n \/ i = n + 1
    BY <1>1
  <1>3. InFor(a, s) => InFor(q, s) \/ s = x.for
    BY <1>1, <1>2, Zenon DEF InFor
  <1>4. ASSUME OnceFor(q, s), s = x.for => ~InFor(q, s), NEW i \in 1..(n + 1),
               NEW j \in 1..(n + 1), a[i].for = s, a[j].for = s
        PROVE  i = j
    BY <1>1, <1>2, <1>4, Zenon DEF InFor, OnceFor
  <1> QED
    BY <1>1, <1>3, <1>4 DEF OnceFor

LEMMA InForTail ==
    ASSUME NEW q \in Seq(Answers), q # <<>>, NEW s, OnceFor(q, s)
    PROVE  /\ InFor(Tail(q), s) => InFor(q, s) /\ s # Head(q).for
           /\ OnceFor(Tail(q), s)
  <1> DEFINE t == Tail(q)
             m == Len(t)
  <1>1. /\ m \in Nat /\ Len(q) = m + 1 /\ Head(q) = q[1] /\ \A i \in 1..m : t[i] = q[i + 1]
    BY Taken
  <1>2. \A i \in 1..m : i + 1 \in 1..(m + 1) /\ i + 1 # 1 /\ i \in Nat
    BY <1>1
  <1>3. 1 \in 1..(m + 1)
    BY <1>1
  <1>4. ASSUME NEW i \in 1..m, t[i].for = s PROVE InFor(q, s) /\ s # Head(q).for
    <2>1. q[i + 1].for = s /\ i + 1 \in 1..Len(q) /\ i + 1 # 1 /\ 1 \in 1..Len(q)
      BY <1>1, <1>2, <1>3, <1>4
    <2> QED
      BY <1>1, <2>1, Zenon DEF InFor, OnceFor
  <1>5. ASSUME NEW i \in 1..m, NEW j \in 1..m, t[i].for = s, t[j].for = s PROVE i = j
    <2>1. q[i + 1].for = s /\ i + 1 \in 1..Len(q) /\ q[j + 1].for = s /\ j + 1 \in 1..Len(q)
      BY <1>1, <1>2, <1>5
    <2>2. i + 1 = j + 1
      BY <2>1, Zenon DEF OnceFor
    <2> QED
      BY <1>2, <2>2
  <1> QED
    BY <1>4, <1>5 DEF InFor, OnceFor

\* What the handler takes and answers.
LEMMA ServeWire ==
    ASSUME Types, NEW p \in Ops, ServeStep(p)
    PROVE  /\ \/ Takes(Conn(p), p) /\ toServer' = [toServer EXCEPT ![Conn(p)] = Tail(@)]
              \/ Handled(p) /\ Kind(p) = "get" /\ toServer' = toServer
           /\ \/ \E pkt \in Answers : pkt.for = p /\ Reply(p, <<pkt>>)
              \/ /\ toClient' = toClient /\ handler'[Conn(p)] = p
                 /\ \A k \in Conns : k # Conn(p) => handler'[k] = handler[k]
  <1>1. /\ Refusal(p) \in Answers /\ Offer(p, 0, <<>>) \in Answers
        /\ Offer(p, size[p], sum[p].got) \in Answers
    <2>1. size[p] \in 0..Size /\ sum[p].got \in Seq(Chunks) /\ 0 \in 0..Size /\ <<>> \in Seq(Chunks)
      BY DEF Types, WireTypes, DiskTypes, Size
    <2> QED
      BY <2>1, AnswerTypes
  <1>2. Refusal(p).for = p /\ Offer(p, 0, <<>>).for = p /\ Offer(p, size[p], sum[p].got).for = p
    BY DEF Refusal, Offer
  <1>3. Conn(p) \in Conns
    BY WhatTypes DEF Types, KindTypes, KindOf
  <1>4. CASE HandleGet(p)
    BY <1>1, <1>2, <1>3, <1>4 DEF HandleGet, Refused, Types, WireTypes
  <1>5. CASE GetOpen(p)
    BY <1>1, <1>2, <1>5 DEF GetOpen, Refused, Handled
  <1>6. CASE GetReply(p)
    BY <1>1, <1>2, <1>6 DEF GetReply, Handled
  <1>7. CASE HandleSend(p)
    BY <1>1, <1>2, <1>7 DEF HandleSend, Refused
  <1>8. CASE HandleList(p)
    BY <1>1, <1>2, <1>8 DEF HandleList, Refused
  <1> QED
    BY <1>4, <1>5, <1>6, <1>7, <1>8 DEF ServeStep

\* An operation whose request does not come closer.
LEMMA OneStays ==
    ASSUME NEW s \in Ops, One(s), pc'[s] = "idle" => pc[s] = "idle",
           Requested(s)' => Requested(s), Handled(s)' => Handled(s),
           Answering(s)' => Answering(s), Answered(s)' => Answered(s),
           Once(toServer[Conn(s)], s)', OnceFor(toClient[Conn(s)], s)'
    PROVE  One(s)'
    BY DEF One

\* Queues of one connection.
LEMMA HomeGrows ==
    ASSUME NEW k, NEW q \in Seq(Ops), \A i \in 1..Len(q) : Conn(q[i]) = k
    PROVE  /\ \A x \in Ops : Conn(x) = k => \A i \in 1..Len(Append(q, x)) : Conn(Append(q, x)[i]) = k
           /\ q # <<>> => \A i \in 1..Len(Tail(q)) : Conn(Tail(q)[i]) = k
  <1>1. ASSUME NEW x \in Ops, Conn(x) = k, NEW i \in 1..Len(Append(q, x))
        PROVE  Conn(Append(q, x)[i]) = k
    <2>1. i \in 1..Len(q) \/ i = Len(q) + 1
      BY Queued, LenProperties
    <2>2. Append(q, x)[Len(q) + 1] = x /\ \A j \in 1..Len(q) : Append(q, x)[j] = q[j]
      BY Queued
    <2>3. CASE i \in 1..Len(q)
      BY <2>2, <2>3
    <2>4. CASE i = Len(q) + 1
      BY <1>1, <2>2, <2>4
    <2> QED
      BY <2>1, <2>3, <2>4
  <1>2. ASSUME q # <<>>, NEW i \in 1..Len(Tail(q)) PROVE Conn(Tail(q)[i]) = k
    <2>1. Tail(q)[i] = q[i + 1] /\ i + 1 \in 1..Len(q)
      BY <1>2, Taken
    <2> QED
      BY <2>1
  <1> QED
    BY <1>1, <1>2

LEMMA HomeForGrows ==
    ASSUME NEW k, NEW q \in Seq(Answers), \A i \in 1..Len(q) : Conn(q[i].for) = k
    PROVE  /\ \A x \in Answers : Conn(x.for) = k =>
                \A i \in 1..Len(q \o <<x>>) : Conn((q \o <<x>>)[i].for) = k
           /\ q # <<>> => \A i \in 1..Len(Tail(q)) : Conn(Tail(q)[i].for) = k
  <1>1. ASSUME NEW x \in Answers, Conn(x.for) = k, NEW i \in 1..Len(q \o <<x>>)
        PROVE  Conn((q \o <<x>>)[i].for) = k
    <2>1. i \in 1..Len(q) \/ i = Len(q) + 1
      BY QueuedOne, LenProperties
    <2>2. (q \o <<x>>)[Len(q) + 1] = x /\ \A j \in 1..Len(q) : (q \o <<x>>)[j] = q[j]
      BY QueuedOne
    <2>3. CASE i \in 1..Len(q)
      BY <2>2, <2>3
    <2>4. CASE i = Len(q) + 1
      BY <1>1, <2>2, <2>4
    <2> QED
      BY <2>1, <2>3, <2>4
  <1>2. ASSUME q # <<>>, NEW i \in 1..Len(Tail(q)) PROVE Conn(Tail(q)[i].for) = k
    <2>1. Tail(q)[i] = q[i + 1] /\ i + 1 \in 1..Len(q)
      BY <1>2, Taken
    <2> QED
      BY <2>1
  <1> QED
    BY <1>1, <1>2

\* What a step does to the queue of a connection.
LEMMA QueueSteps ==
    ASSUME Types, Next, NEW k \in Conns
    PROVE  /\ \/ toServer'[k] \in {toServer[k], <<>>}
              \/ toServer[k] # <<>> /\ toServer'[k] = Tail(toServer[k])
              \/ \E p \in Ops : Conn(p) = k /\ toServer'[k] = Append(toServer[k], p)
           /\ \/ toClient'[k] \in {toClient[k], <<>>}
              \/ toClient[k] # <<>> /\ toClient'[k] = Tail(toClient[k])
              \/ \E x \in Answers : Conn(x.for) = k /\ toClient'[k] = toClient[k] \o <<x>>
  <1>w. what \in Cases
    BY DEF Types, KindTypes
  <1>1. ASSUME NEW j \in Conns, LinkStep(j)
        PROVE  /\ \/ toServer'[k] \in {toServer[k], <<>>}
                  \/ toServer[k] # <<>> /\ toServer'[k] = Tail(toServer[k])
               /\ \/ toClient'[k] \in {toClient[k], <<>>}
                  \/ toClient[k] # <<>> /\ toClient'[k] = Tail(toClient[k])
    BY <1>1 DEF LinkStep, Dispatch, DispatchEnd, LinkDown, ServeEnds, Types, WireTypes
  <1>2. ASSUME NEW p \in Ops, Request(p)
        PROVE  /\ \/ toServer'[k] = toServer[k]
                  \/ Conn(p) = k /\ toServer'[k] = Append(toServer[k], p)
               /\ toClient'[k] = toClient[k]
    BY <1>2 DEF Request, Types, WireTypes
  <1>3. ASSUME NEW p \in Ops, ServeStep(p)
        PROVE  /\ \/ toServer'[k] = toServer[k]
                  \/ toServer[k] # <<>> /\ toServer'[k] = Tail(toServer[k])
               /\ \/ toClient'[k] = toClient[k]
                  \/ \E x \in Answers : Conn(x.for) = k /\ toClient'[k] = toClient[k] \o <<x>>
    <2>1. \/ toServer'[k] = toServer[k]
          \/ toServer[k] # <<>> /\ toServer'[k] = Tail(toServer[k])
      BY <1>w, <1>3, ServeWire, TakeEffect DEF Types
    <2>2. CASE \E pkt \in Answers : pkt.for = p /\ Reply(p, <<pkt>>)
      <3>1. PICK pkt \in Answers : pkt.for = p /\ Reply(p, <<pkt>>)
        BY <2>2
      <3>2. /\ \A j \in Conns : j # Conn(p) => toClient'[j] = toClient[j]
            /\ toClient' = toClient \/ toClient'[Conn(p)] = toClient[Conn(p)] \o <<pkt>>
        BY <1>w, <3>1, ReplyEffect DEF Types
      <3> QED
        BY <2>1, <3>1, <3>2
    <2>3. CASE toClient' = toClient
      BY <2>1, <2>3
    <2> QED
      BY <1>3, <2>2, <2>3, ServeWire
  <1>4. ASSUME NEW p \in Ops, GetStep(p) \/ SendStep(p) \/ Hash(p) \/ TransferStep(p)
                              \/ ReceiveStep(p)
        PROVE  UNCHANGED <<toServer, toClient>>
    BY <1>4, GetFrame, SendFrame, HashFrame, TransferFrame, ReceiveFrame DEF net
  <1> QED
    BY <1>1, <1>2, <1>3, <1>4, Steps, Zenon

LEMMA HomesKept == ASSUME Types, Homes, Next PROVE Homes'
  <1>w. \A x : Conn(x)' = Conn(x)
    BY WhatStays, WhatKept
  <1> SUFFICES ASSUME NEW k \in Conns
               PROVE  /\ \A i \in 1..Len(toServer'[k]) : Conn(toServer'[k][i]) = k
                      /\ \A i \in 1..Len(toClient'[k]) : Conn(toClient'[k][i].for) = k
    BY <1>w DEF Homes
  <1>1. toServer[k] \in Seq(Ops) /\ toClient[k] \in Seq(Answers)
    BY DEF Types, WireTypes
  <1>2. /\ \A i \in 1..Len(toServer[k]) : Conn(toServer[k][i]) = k
        /\ \A i \in 1..Len(toClient[k]) : Conn(toClient[k][i].for) = k
    BY DEF Homes
  <1>3. \A i \in 1..Len(<<>>) : FALSE
    OBVIOUS
  <1>4. \A i \in 1..Len(toServer'[k]) : Conn(toServer'[k][i]) = k
    <2>1. CASE toServer'[k] \in {toServer[k], <<>>}
      BY <1>2, <1>3, <2>1
    <2>2. CASE toServer[k] # <<>> /\ toServer'[k] = Tail(toServer[k])
      BY <1>1, <1>2, <2>2, HomeGrows
    <2>3. CASE \E p \in Ops : Conn(p) = k /\ toServer'[k] = Append(toServer[k], p)
      <3>1. PICK p \in Ops : Conn(p) = k /\ toServer'[k] = Append(toServer[k], p)
        BY <2>3
      <3>2. \A i \in 1..Len(Append(toServer[k], p)) : Conn(Append(toServer[k], p)[i]) = k
        BY <1>1, <1>2, <3>1, HomeGrows
      <3> QED
        BY <3>1, <3>2
    <2> QED
      BY <2>1, <2>2, <2>3, QueueSteps
  <1>5. \A i \in 1..Len(toClient'[k]) : Conn(toClient'[k][i].for) = k
    <2>1. CASE toClient'[k] \in {toClient[k], <<>>}
      BY <1>2, <1>3, <2>1
    <2>2. CASE toClient[k] # <<>> /\ toClient'[k] = Tail(toClient[k])
      BY <1>1, <1>2, <2>2, HomeForGrows
    <2>3. CASE \E x \in Answers : Conn(x.for) = k /\ toClient'[k] = toClient[k] \o <<x>>
      <3>1. PICK x \in Answers : Conn(x.for) = k /\ toClient'[k] = toClient[k] \o <<x>>
        BY <2>3
      <3>2. \A i \in 1..Len(toClient[k] \o <<x>>) : Conn((toClient[k] \o <<x>>)[i].for) = k
        BY <1>1, <1>2, <3>1, HomeForGrows
      <3> QED
        BY <3>1, <3>2
    <2> QED
      BY <2>1, <2>2, <2>3, QueueSteps
  <1> QED
    BY <1>4, <1>5

\* An answer that is taken.
LEMMA DispatchEffect ==
    ASSUME Types, OneTaker, NEW k \in Conns, Dispatch(k)
    PROVE  \E p \in Ops, pkt \in Answers :
             /\ toClient[k] # <<>> /\ pkt = Head(toClient[k]) /\ pkt.for \in Ops
             /\ toClient' = [toClient EXCEPT ![k] = Tail(@)]
             /\ pc[p] = "wait" /\ Conn(p) = k /\ Kind(p) = Kind(pkt.for) /\ answer[p] = None
             /\ answer'[p] = pkt /\ answer'[p] # None
             /\ pc'[p] = IF ~pkt.ok THEN "failed" ELSE IF Kind(p) = "list" THEN "ok" ELSE "stream"
             /\ \A q \in Ops : q # p => answer'[q] = answer[q] /\ pc'[q] = pc[q]
             /\ UNCHANGED <<what, link, toServer, dest, sent, serving, sum, flow, transfer, disk>>
  <1>1. toClient[k] \in Seq(Answers) /\ toClient[k] # <<>>
    BY DEF Types, WireTypes, Dispatch
  <1>2. PICK pkt \in Answers : pkt = Head(toClient[k])
    BY <1>1, Taken
  <1>3. PICK p \in Ops :
          /\ pc[p] = "wait" /\ Conn(p) = k /\ Match(p, pkt)
          /\ answer' = [answer EXCEPT ![p] = pkt]
          /\ pc' = [pc EXCEPT ![p] =
                     IF ~pkt.ok THEN "failed" ELSE IF Kind(p) = "list" THEN "ok" ELSE "stream"]
    BY <1>2 DEF Dispatch, Go
  <1>4. pkt.for \in Ops /\ pkt # None
    BY <1>2, FileAssumption DEF Answers
  <1>5. answer[p] = None
    BY <1>3 DEF OneTaker
  <1>6. /\ answer'[p] = pkt /\ \A q \in Ops : q # p => answer'[q] = answer[q] /\ pc'[q] = pc[q]
        /\ pc'[p] = IF ~pkt.ok THEN "failed" ELSE IF Kind(p) = "list" THEN "ok" ELSE "stream"
    BY <1>3 DEF Types, WireTypes
  <1>7. UNCHANGED <<what, link, toServer, dest, sent, serving, sum, flow, transfer, disk>>
    BY DEF Dispatch
  <1>8. toClient' = [toClient EXCEPT ![k] = Tail(@)] /\ Kind(p) = Kind(pkt.for)
    BY <1>3 DEF Dispatch, Match
  <1> QED
    BY <1>1, <1>2, <1>3, <1>4, <1>5, <1>6, <1>7, <1>8

\* Only Dispatch gives answers; who has one does not wait.
LEMMA AnswersStay ==
    ASSUME Types, OneTaker, Next, \A k \in Conns : ~Dispatch(k)
    PROVE  answer' = answer
  <1>1. ASSUME NEW k \in Conns, LinkStep(k) PROVE answer' = answer
    BY <1>1 DEF LinkStep, DispatchEnd, LinkDown, ServeEnds, client
  <1>2. ASSUME NEW p \in Ops,
               \/ Request(p) \/ GetStep(p) \/ SendStep(p) \/ ServeStep(p)
               \/ Hash(p) \/ TransferStep(p) \/ ReceiveStep(p)
        PROVE  answer' = answer
    BY <1>2, RequestFrame, GetFrame, SendFrame, ServeFrame, HashFrame, TransferFrame, ReceiveFrame
       DEF client
  <1> QED
    BY <1>1, <1>2, Steps, Zenon

LEMMA AnswersKept ==
    ASSUME Types, OneTaker, Next
    PROVE  \A p \in Ops : answer[p] # None => answer'[p] = answer[p]
  <1>1. ASSUME NEW k \in Conns, Dispatch(k)
        PROVE  \A p \in Ops : answer[p] # None => answer'[p] = answer[p]
    BY <1>1, DispatchEffect
  <1> QED
    BY <1>1, AnswersStay

\* No operation becomes idle.
LEMMA IdleNoMore ==
    ASSUME Types, OneTaker, Next
    PROVE  \A s \in Ops : pc'[s] = "idle" => pc[s] = "idle"
  <1>1. ASSUME NEW k \in Conns, LinkStep(k), NEW s \in Ops, pc'[s] = "idle" PROVE pc[s] = "idle"
    <2>1. CASE Dispatch(k)
      BY <1>1, <2>1, DispatchEffect
    <2>2. CASE DispatchEnd(k)
      BY <1>1, <2>2 DEF DispatchEnd, Types, WireTypes
    <2>3. CASE LinkDown(k) \/ ServeEnds(k)
      BY <1>1, <2>3 DEF LinkDown, ServeEnds, client
    <2> QED
      BY <1>1, <2>1, <2>2, <2>3 DEF LinkStep
  <1>2. ASSUME NEW p \in Ops, Request(p) \/ GetStep(p) \/ SendStep(p),
               NEW s \in Ops, pc'[s] = "idle"
        PROVE  pc[s] = "idle"
    <2>1. pc' = pc \/ \E w \in {"wait", "copy", "ok", "failed"} : pc' = [pc EXCEPT ![p] = w]
      BY <1>2 DEF Request, GetStep, GetStart, GetChunk, GetCheck, GetFails, SendStep, SendInfo,
                  SendChunk, SendDone, SendFails, Go
    <2> QED
      BY <1>2, <2>1 DEF Types, WireTypes
  <1>3. ASSUME NEW p \in Ops,
               ServeStep(p) \/ Hash(p) \/ TransferStep(p) \/ ReceiveStep(p)
        PROVE  pc' = pc
    BY <1>3, ServeFrame, HashFrame, TransferFrame, ReceiveFrame DEF client
  <1> QED
    BY <1>1, <1>2, <1>3, Steps

\* Of each request there is one trace.
LEMMA OneKept == ASSUME Types, OnePlace, OneTaker, Next, NEW s \in Ops PROVE One(s)'
  <1>w. Conn(s)' = Conn(s) /\ Conn(s) \in Conns /\ what \in Cases
    BY WhatStays, WhatKept, WhatTypes DEF Types, KindTypes
  <1>o. One(s) /\ (pc'[s] = "idle" => pc[s] = "idle")
    BY IdleNoMore DEF OnePlace
  <1>q. toServer[Conn(s)] \in Seq(Ops) /\ toClient[Conn(s)] \in Seq(Answers)
    BY <1>w DEF Types, WireTypes
  <1>e. ~In(<<>>, s) /\ Once(<<>>, s) /\ ~InFor(<<>>, s) /\ OnceFor(<<>>, s)
    BY DEF In, Once, InFor, OnceFor
  <1>1. ASSUME NEW k \in Conns, Dispatch(k) PROVE One(s)'
    <2>1. PICK p \in Ops, pkt \in Answers :
             /\ toClient[k] # <<>> /\ pkt = Head(toClient[k]) /\ pkt.for \in Ops
             /\ toClient' = [toClient EXCEPT ![k] = Tail(@)]
             /\ answer'[p] = pkt /\ \A q \in Ops : q # p => answer'[q] = answer[q]
             /\ UNCHANGED <<toServer, serving>>
      BY <1>1, DispatchEffect
    <2>2. UNCHANGED <<toServer, handler>>
      BY <2>1 DEF serving
    <2>3. Requested(s)' = Requested(s) /\ Handled(s)' = Handled(s)
      BY <1>w, <2>2 DEF Requested, Handled
    <2>4. Once(toServer[Conn(s)], s)'
      BY <1>o, <1>w, <2>2 DEF One
    <2>5. toClient'[Conn(s)] = IF Conn(s) = k THEN Tail(toClient[k]) ELSE toClient[Conn(s)]
      BY <1>w, <2>1 DEF Types, WireTypes
    <2>6. /\ Answering(s)' => Answering(s) /\ (Conn(s) = k => s # pkt.for)
          /\ OnceFor(toClient[Conn(s)], s)'
      <3>1. OnceFor(toClient[Conn(s)], s)
        BY <1>o DEF One
      <3>2. CASE Conn(s) = k
        BY <1>q, <1>w, <2>1, <2>5, <3>1, <3>2, InForTail DEF Answering
      <3>3. CASE Conn(s) # k
        BY <1>w, <2>5, <3>1, <3>3 DEF Answering
      <3> QED
        BY <3>2, <3>3
    <2>7. Conn(pkt.for) = k /\ Answering(pkt.for)
      <3>1. toClient[k] \in Seq(Answers)
        BY DEF Types, WireTypes
      <3>2. 1 \in 1..Len(toClient[k]) /\ pkt = toClient[k][1]
        BY <2>1, <3>1, Taken
      <3> QED
        BY <3>2 DEF OnePlace, Homes, Answering, InFor
    <2>8. CASE s = pkt.for
      <3>1. Answering(s) /\ ~Requested(s) /\ ~Handled(s) /\ pc[s] # "idle"
        BY <1>o, <2>7, <2>8 DEF One
      <3>2. ~Answering(s)'
        BY <2>6, <2>7, <2>8
      <3> QED
        BY <1>o, <2>3, <2>4, <2>6, <3>1, <3>2 DEF One
    <2>9. CASE s # pkt.for
      <3>1. Answered(s)' => Answered(s)
        BY <2>1, <2>9 DEF Answered, Has
      <3> QED
        BY <1>o, <2>3, <2>4, <2>6, <3>1, OneStays
    <2> QED
      BY <2>8, <2>9
  <1>2. ASSUME NEW k \in Conns, DispatchEnd(k) \/ LinkDown(k) \/ ServeEnds(k) PROVE One(s)'
    <2>1. answer' = answer
      BY <1>2 DEF DispatchEnd, LinkDown, ServeEnds, client
    <2>2. Answered(s)' = Answered(s)
      BY <2>1 DEF Answered, Has
    <2>3. /\ toServer'[Conn(s)] \in {toServer[Conn(s)], <<>>}
          /\ toClient'[Conn(s)] \in {toClient[Conn(s)], <<>>}
          /\ handler'[Conn(s)] \in {handler[Conn(s)], "off"}
      BY <1>2, <1>w DEF DispatchEnd, LinkDown, ServeEnds, serving, Types, WireTypes
    <2>4. s # "off"
      BY FileAssumption
    <2>5. Requested(s)' => Requested(s)
      BY <1>e, <1>w, <2>3 DEF Requested
    <2>6. Answering(s)' => Answering(s)
      BY <1>e, <1>w, <2>3 DEF Answering
    <2>7. Handled(s)' => Handled(s)
      BY <1>w, <2>3, <2>4 DEF Handled
    <2>8. Once(toServer[Conn(s)], s)' /\ OnceFor(toClient[Conn(s)], s)'
      BY <1>e, <1>o, <1>w, <2>3 DEF One
    <2> QED
      BY <1>o, <2>2, <2>5, <2>6, <2>7, <2>8, OneStays
  <1>3. ASSUME NEW p \in Ops, Request(p) PROVE One(s)'
    <2>1. UNCHANGED <<toClient, answer, handler>>
      BY <1>3, RequestFrame DEF serving
    <2>2. Answered(s)' = Answered(s) /\ Answering(s)' = Answering(s) /\ Handled(s)' = Handled(s)
      BY <1>w, <2>1 DEF Answered, Has, Answering, Handled
    <2>3. pc[p] = "idle" /\ pc'[p] # "idle"
      BY <1>3 DEF Request, Go, Types, WireTypes
    <2>4. \/ toServer'[Conn(s)] = toServer[Conn(s)]
          \/ toServer'[Conn(s)] = Append(toServer[Conn(s)], p)
      BY <1>3, <1>w DEF Request, Types, WireTypes
    <2>5. s = p => ~Requested(s) /\ ~Handled(s) /\ ~Answering(s) /\ ~Answered(s)
      BY <1>o, <2>3 DEF One
    <2>6. /\ Requested(s)' => Requested(s) \/ s = p
          /\ Once(toServer[Conn(s)], s)'
      <3>1. Once(toServer[Conn(s)], s) /\ (s = p => ~In(toServer[Conn(s)], s))
        BY <1>o, <2>5 DEF One, Requested
      <3>2. CASE toServer'[Conn(s)] = toServer[Conn(s)]
        BY <1>w, <3>1, <3>2 DEF Requested
      <3>3. CASE toServer'[Conn(s)] = Append(toServer[Conn(s)], p)
        BY <1>q, <1>w, <3>1, <3>3, InAppended DEF Requested
      <3> QED
        BY <2>4, <3>2, <3>3
    <2>7. OnceFor(toClient[Conn(s)], s)'
      BY <1>o, <1>w, <2>1 DEF One
    <2> QED
      BY <1>o, <2>2, <2>3, <2>5, <2>6, <2>7 DEF One
  <1>4. ASSUME NEW p \in Ops, ServeStep(p) PROVE One(s)'
    <2>1. answer' = answer /\ pc' = pc
      BY <1>4, ServeFrame DEF client
    <2>2. Answered(s)' = Answered(s)
      BY <2>1 DEF Answered, Has
    <2>3. /\ Requested(s)' => Requested(s) /\ s # p
          /\ Once(toServer[Conn(s)], s)'
          /\ s = p => Requested(s) \/ Handled(s)
      <3>1. Once(toServer[Conn(s)], s) /\ (Handled(s) => ~Requested(s))
        BY <1>o DEF One
      <3>2. CASE Takes(Conn(p), p) /\ toServer' = [toServer EXCEPT ![Conn(p)] = Tail(@)]
        <4>1. /\ toServer[Conn(p)] # <<>> /\ Head(toServer[Conn(p)]) = p
              /\ toServer'[Conn(p)] = Tail(toServer[Conn(p)]) /\ Conn(p) \in Conns
              /\ \A k \in Conns : k # Conn(p) => toServer'[k] = toServer[k]
          BY <1>w, <3>2, TakeEffect DEF Types
        <4>2. s = p => Requested(s)
          <5>1. toServer[Conn(p)] \in Seq(Ops)
            BY <4>1 DEF Types, WireTypes
          <5>2. 1 \in 1..Len(toServer[Conn(p)]) /\ toServer[Conn(p)][1] = p
            BY <4>1, <5>1, Taken
          <5> QED
            BY <5>2 DEF Requested, In
        <4>3. CASE Conn(s) = Conn(p)
          BY <1>q, <1>w, <3>1, <4>1, <4>2, <4>3, InTail DEF Requested
        <4>4. CASE Conn(s) # Conn(p)
          BY <1>w, <3>1, <4>1, <4>4 DEF Requested
        <4> QED
          BY <4>3, <4>4
      <3>3. CASE Handled(p) /\ toServer' = toServer
        BY <1>w, <3>1, <3>3 DEF Requested
      <3> QED
        BY <1>4, <3>2, <3>3, ServeWire
    <2>4. s = p => ~Answering(s) /\ ~Answered(s) /\ pc[s] # "idle"
      BY <1>o, <2>3 DEF One
    <2>5. OnceFor(toClient[Conn(s)], s)
      BY <1>o DEF One
    <2>6. CASE \E pkt \in Answers : pkt.for = p /\ Reply(p, <<pkt>>)
      <3>1. PICK pkt \in Answers : pkt.for = p /\ Reply(p, <<pkt>>)
        BY <2>6
      <3>2. /\ handler'[Conn(p)] \notin Ops
            /\ \A k \in Conns : k # Conn(p) => handler'[k] = handler[k] /\ toClient'[k] = toClient[k]
            /\ toClient' = toClient \/ toClient'[Conn(p)] = toClient[Conn(p)] \o <<pkt>>
        BY <1>w, <3>1, ReplyEffect DEF Types
      <3>3. Handled(s)' => Handled(s) /\ s # p
        BY <1>w, <3>2 DEF Handled
      <3>4. /\ Answering(s)' => Answering(s) \/ s = p
            /\ OnceFor(toClient[Conn(s)], s)'
        <4>1. s = p => ~InFor(toClient[Conn(s)], s)
          BY <2>4 DEF Answering
        <4>2. CASE toClient'[Conn(s)] = toClient[Conn(s)]
          BY <1>w, <2>5, <4>2 DEF Answering
        <4>3. CASE toClient'[Conn(s)] = toClient[Conn(s)] \o <<pkt>>
          BY <1>q, <1>w, <2>5, <3>1, <4>1, <4>3, InForAppended DEF Answering
        <4> QED
          BY <1>w, <3>2, <4>2, <4>3
      <3> QED
        BY <1>o, <2>1, <2>2, <2>3, <2>4, <3>3, <3>4 DEF One
    <2>7. CASE /\ toClient' = toClient /\ handler'[Conn(p)] = p
               /\ \A k \in Conns : k # Conn(p) => handler'[k] = handler[k]
      <3>1. Handled(s)' => Handled(s) \/ s = p
        BY <1>w, <2>7 DEF Handled
      <3>2. Answering(s)' = Answering(s) /\ OnceFor(toClient[Conn(s)], s)'
        BY <1>w, <2>5, <2>7 DEF Answering
      <3> QED
        BY <1>o, <2>1, <2>2, <2>3, <2>4, <3>1, <3>2 DEF One
    <2> QED
      BY <1>4, <2>6, <2>7, ServeWire
  <1>5. ASSUME NEW p \in Ops,
               GetStep(p) \/ SendStep(p) \/ Hash(p) \/ TransferStep(p) \/ ReceiveStep(p)
        PROVE  One(s)'
    <2>1. UNCHANGED <<toServer, toClient, answer, handler>>
      BY <1>5, GetFrame, SendFrame, HashFrame, TransferFrame, ReceiveFrame DEF net, serving, client
    <2>2. /\ Requested(s)' = Requested(s) /\ Handled(s)' = Handled(s)
          /\ Answering(s)' = Answering(s) /\ Answered(s)' = Answered(s)
      BY <1>w, <2>1 DEF Requested, Handled, Answering, Answered, Has
    <2>3. Once(toServer[Conn(s)], s)' /\ OnceFor(toClient[Conn(s)], s)'
      BY <1>o, <1>w, <2>1 DEF One
    <2> QED
      BY <1>o, <2>2, <2>3, OneStays
  <1> QED
    BY <1>1, <1>2, <1>3, <1>4, <1>5, Steps DEF LinkStep

LEMMA OnePlaceKept == ASSUME Types, OnePlace, OneTaker, Next PROVE OnePlace'
    BY HomesKept, OneKept DEF OnePlace

\* Where an operation can go when no answer is taken.
LEMMA PcSteps ==
    ASSUME Types, Next, \A k \in Conns : ~Dispatch(k), NEW q \in Ops
    PROVE  /\ pc'[q] \in {"idle", "wait"} => pc[q] \in {"idle", "wait"}
           /\ pc'[q] \in {"stream", "copy", "ok"} => pc[q] \in {"stream", "copy", "ok"}
           /\ pc'[q] = "stream" => pc[q] = "stream"
  <1>1. ASSUME NEW k \in Conns, LinkStep(k)
        PROVE  pc'[q] = pc[q] \/ (pc[q] = "wait" /\ pc'[q] = "failed")
    BY <1>1 DEF LinkStep, DispatchEnd, LinkDown, ServeEnds, client, Types, WireTypes
  <1>2. ASSUME NEW p \in Ops, Request(p) \/ GetStep(p) \/ SendStep(p)
        PROVE  \/ pc'[q] = pc[q]
               \/ pc[q] = "idle" /\ pc'[q] \in {"wait", "failed"}
               \/ pc[q] \in {"stream", "copy"} /\ pc'[q] \in {"copy", "ok", "failed"}
    BY <1>2 DEF Request, GetStep, GetStart, GetChunk, GetCheck, GetFails, SendStep, SendInfo,
                SendChunk, SendDone, SendFails, Go, Types, WireTypes
  <1>3. ASSUME NEW p \in Ops,
               ServeStep(p) \/ Hash(p) \/ TransferStep(p) \/ ReceiveStep(p)
        PROVE  pc' = pc
    BY <1>3, ServeFrame, HashFrame, TransferFrame, ReceiveFrame DEF client
  <1>4. \/ pc'[q] = pc[q] \/ (pc[q] = "wait" /\ pc'[q] = "failed")
        \/ pc[q] = "idle" /\ pc'[q] \in {"wait", "failed"}
        \/ pc[q] \in {"stream", "copy"} /\ pc'[q] \in {"copy", "ok", "failed"}
    BY <1>1, <1>2, <1>3, Steps
  <1> QED
    BY <1>4

\* The answer that Dispatch takes was on its way.
LEMMA TakenAnswer ==
    ASSUME Types, OnePlace, NEW k \in Conns, toClient[k] # <<>>
    PROVE  /\ Head(toClient[k]) \in Answers /\ Head(toClient[k]) = toClient[k][1]
           /\ 1 \in 1..Len(toClient[k]) /\ Conn(Head(toClient[k]).for) = k
           /\ Answering(Head(toClient[k]).for)
  <1>1. toClient[k] \in Seq(Answers)
    BY DEF Types, WireTypes
  <1>2. 1 \in 1..Len(toClient[k]) /\ Head(toClient[k]) = toClient[k][1]
    BY <1>1, Taken
  <1>3. Head(toClient[k]) \in Answers
    BY <1>1, Taken
  <1> QED
    BY <1>2, <1>3 DEF OnePlace, Homes, Answering, InFor

\* An answer has one taker, of its kind and connection.
LEMMA OneTakerKept == ASSUME Types, OnePlace, OneTaker, Next PROVE OneTaker'
  <1>w. \A p : Kind(p)' = Kind(p) /\ Conn(p)' = Conn(p)
    BY WhatStays, WhatKept
  <1>1. ASSUME \A k \in Conns : ~Dispatch(k) PROVE OneTaker'
    <2>1. answer' = answer
      BY <1>1, AnswersStay
    <2>2. ASSUME NEW p \in Ops
          PROVE  /\ pc'[p] \in {"idle", "wait"} => answer'[p] = None
                 /\ pc'[p] \in {"stream", "copy", "ok"} => answer'[p] # None
                 /\ answer'[p] # None => Kind(Stream(p))' = Kind(p)' /\ Conn(Stream(p))' = Conn(p)'
      <3>1. Kind(Stream(p))' = Kind(Stream(p)) /\ Conn(Stream(p))' = Conn(Stream(p))
        BY <2>1, <1>w DEF Stream, Kind, Conn
      <3> QED
        BY <1>1, <1>w, <2>1, <3>1, PcSteps DEF OneTaker
    <2>3. \A p, s : Has(p, s)' = Has(p, s)
      BY <2>1 DEF Has
    <2> QED
      BY <2>2, <2>3 DEF OneTaker
  <1>2. ASSUME NEW k \in Conns, Dispatch(k) PROVE OneTaker'
    <2>1. PICK p \in Ops, pkt \in Answers :
             /\ toClient[k] # <<>> /\ pkt = Head(toClient[k]) /\ pkt.for \in Ops
             /\ Conn(p) = k /\ Kind(p) = Kind(pkt.for)
             /\ answer'[p] = pkt /\ answer'[p] # None
             /\ pc'[p] = IF ~pkt.ok THEN "failed" ELSE IF Kind(p) = "list" THEN "ok" ELSE "stream"
             /\ \A q \in Ops : q # p => answer'[q] = answer[q] /\ pc'[q] = pc[q]
      BY <1>2, DispatchEffect
    <2>2. Conn(pkt.for) = k /\ ~Answered(pkt.for)
      <3>1. Conn(pkt.for) = k /\ Answering(pkt.for)
        BY <2>1, TakenAnswer
      <3> QED
        BY <2>1, <3>1 DEF OnePlace, One
    <2>3. ASSUME NEW q \in Ops, NEW r \in Ops, NEW s \in Ops, Has(q, s)', Has(r, s)'
          PROVE  q = r
      <3>1. CASE q = p /\ r # p
        <4>1. Has(r, pkt.for)
          BY <2>1, <2>3, <3>1 DEF Has
        <4> QED
          BY <2>2, <4>1 DEF Answered
      <3>2. CASE q # p /\ r = p
        <4>1. Has(q, pkt.for)
          BY <2>1, <2>3, <3>2 DEF Has
        <4> QED
          BY <2>2, <4>1 DEF Answered
      <3>3. CASE q # p /\ r # p
        <4>1. Has(q, s) /\ Has(r, s)
          BY <2>1, <2>3, <3>3 DEF Has
        <4> QED
          BY <4>1 DEF OneTaker
      <3> QED
        BY <3>1, <3>2, <3>3
    <2>4. ASSUME NEW q \in Ops
          PROVE  /\ pc'[q] \in {"idle", "wait"} => answer'[q] = None
                 /\ pc'[q] \in {"stream", "copy", "ok"} => answer'[q] # None
                 /\ answer'[q] # None => Kind(Stream(q))' = Kind(q)' /\ Conn(Stream(q))' = Conn(q)'
      <3>1. Kind(Stream(q))' = Kind(answer'[q].for) /\ Conn(Stream(q))' = Conn(answer'[q].for)
        BY <1>w DEF Stream, Kind, Conn
      <3>2. CASE q = p
        BY <1>w, <2>1, <2>2, <3>1, <3>2
      <3>3. CASE q # p
        BY <1>w, <2>1, <3>1, <3>3 DEF OneTaker, Stream
      <3> QED
        BY <3>2, <3>3
    <2> QED
      BY <2>3, <2>4 DEF OneTaker
  <1> QED
    BY <1>1, <1>2
-----------------------------------------------------------------------------
(* What is on the stream of a send.                                        *)

\* A stream that grows, and one that is read.
LEMMA LineGrows ==
    ASSUME NEW q \in Seq(Items), NEW x \in Rest
    PROVE  /\ Append(q, x) # <<>>
           /\ (\A i \in 1..Len(q) : q[i] \in Rest) =>
                \A i \in 1..Len(Append(q, x)) : Append(q, x)[i] \in Rest
           /\ q # <<>> /\ (\A i \in 1..Len(q) : q[i] \in IF i = 1 THEN Told ELSE Rest) =>
                \A i \in 1..Len(Append(q, x)) : Append(q, x)[i] \in IF i = 1 THEN Told ELSE Rest
  <1> DEFINE a == Append(q, x)
             n == Len(q)
  <1>0. x \in Items
    BY DEF Rest, Items
  <1>1. n \in Nat /\ Len(a) = n + 1 /\ a[n + 1] = x /\ \A i \in 1..n : a[i] = q[i]
    BY <1>0, Queued
  <1>2. \A i \in 1..(n + 1) : i \in 1..n \/ i = n + 1
    BY <1>1
  <1>3. q # <<>> => n + 1 # 1
    BY <1>1
  <1>4. a # <<>>
    BY <1>1
  <1>5. ASSUME \A i \in 1..n : q[i] \in Rest, NEW i \in 1..(n + 1) PROVE a[i] \in Rest
    BY <1>1, <1>2, <1>5
  <1>6. ASSUME q # <<>>, \A i \in 1..n : q[i] \in IF i = 1 THEN Told ELSE Rest,
               NEW i \in 1..(n + 1)
        PROVE  a[i] \in IF i = 1 THEN Told ELSE Rest
    BY <1>1, <1>2, <1>3, <1>6
  <1> QED
    BY <1>1, <1>4, <1>5, <1>6

LEMMA LineRead ==
    ASSUME NEW q \in Seq(Items), q # <<>>,
           \/ \A i \in 1..Len(q) : q[i] \in Rest
           \/ \A i \in 1..Len(q) : q[i] \in IF i = 1 THEN Told ELSE Rest
    PROVE  \A i \in 1..Len(Tail(q)) : Tail(q)[i] \in Rest
  <1> SUFFICES ASSUME NEW i \in 1..Len(Tail(q)) PROVE Tail(q)[i] \in Rest
    OBVIOUS
  <1>1. Tail(q)[i] = q[i + 1] /\ i + 1 \in 1..Len(q) /\ i + 1 # 1
    BY Taken
  <1> QED
    BY <1>1

\* A stream that a step does not touch.
LEMMA LineStays ==
    ASSUME what' = what, NEW s \in Ops, Line(s), flow'[s] = flow[s], task'[s] = task[s],
           told'[s] = told[s], Answered(s) => Answered(s)',
           \A p \in Ops : Has(p, s)' => /\ Has(p, s)
                                        /\ pc'[p] = "stream" => pc[p] = "stream"
                                        /\ pc'[p] = "copy" => pc[p] = "copy"
    PROVE  Line(s)'
  <1>1. Kind(s)' = Kind(s) /\ Told' = Told
    BY WhatKept
  <1> QED
    BY <1>1 DEF Line, Rest

\* An operation that copies has an answer, of its kind and connection.
LEMMA Streaming ==
    ASSUME Types, OneTaker, NEW p \in Ops, pc[p] \in {"stream", "copy"}
    PROVE  /\ answer[p] \in Answers /\ Stream(p) \in Ops /\ Has(p, Stream(p))
           /\ Kind(Stream(p)) = Kind(p) /\ Conn(Stream(p)) = Conn(p)
           /\ \A q \in Ops : Has(q, Stream(p)) => q = p
           /\ \A s \in Ops : Has(p, s) => s = Stream(p)
  <1>1. answer[p] # None /\ answer[p] \in Answers
    BY DEF OneTaker, Types, WireTypes
  <1>2. Stream(p) \in Ops /\ Has(p, Stream(p))
    BY <1>1 DEF Stream, Answers, Has
  <1> QED
    BY <1>1, <1>2 DEF OneTaker, Has, Stream

\* What a sender does to its stream.
LEMMA SendEffect ==
    ASSUME Types, OneTaker, NEW p \in Ops, SendStep(p)
    PROVE  /\ pc[p] \in {"stream", "copy"} /\ Kind(p) = "send"
           /\ \A q \in Ops : q # p => pc'[q] = pc[q]
           /\ \A s \in Ops : s # Stream(p) => flow'[s] = flow[s]
           /\ pc[p] = "stream" =>
                \/ /\ pc'[p] = "copy" /\ what[p].content \in Told
                   /\ flow'[Stream(p)] = Append(flow[Stream(p)], what[p].content)
                \/ pc'[p] = "failed" /\ flow' = flow
           /\ pc[p] = "copy" =>
                /\ pc'[p] \in {"copy", "ok", "failed"}
                /\ \/ flow' = flow
                   \/ \E x \in Rest : flow'[Stream(p)] = Append(flow[Stream(p)], x)
  <1>1. pc[p] \in {"stream", "copy"} /\ Kind(p) = "send"
    BY DEF SendStep, SendInfo, SendChunk, SendDone, SendFails
  <1>2. Stream(p) \in Ops /\ Conn(Stream(p)) = Conn(p)
    BY <1>1, Streaming
  <1>3. Up(Stream(p)) = Up(p)
    BY <1>2 DEF Up
  <1>4. CASE SendInfo(p)
    <2>1. what[p].content \in Told
      BY DEF Told
    <2>2. pc[p] = "stream" /\ \A q \in Ops : q # p => pc'[q] = pc[q]
      BY <1>4 DEF SendInfo, Go, Types, WireTypes
    <2>3. \/ pc'[p] = "copy" /\ flow' = [flow EXCEPT ![Stream(p)] = Append(@, what[p].content)]
          \/ pc'[p] = "failed" /\ flow' = flow
      BY <1>3, <1>4 DEF SendInfo, Go, Put, Types, WireTypes
    <2> QED
      BY <1>1, <1>2, <2>1, <2>2, <2>3 DEF Types, WireTypes
  <1>5. ASSUME NEW x \in Rest, Put(Stream(p), x), pc[p] = "copy",
               pc' = pc \/ (\E w \in {"ok", "failed"} : pc' = [pc EXCEPT ![p] = w])
        PROVE  /\ pc'[p] \in {"copy", "ok", "failed"}
               /\ \A q \in Ops : q # p => pc'[q] = pc[q]
               /\ \A s \in Ops : s # Stream(p) => flow'[s] = flow[s]
               /\ \/ flow' = flow
                  \/ flow'[Stream(p)] = Append(flow[Stream(p)], x)
    BY <1>2, <1>5 DEF Put, Types, WireTypes
  <1>6. CASE SendChunk(p)
    <2>1. what[p].content \in Ops \cup Names
      BY WhatTypes DEF Types, KindTypes
    <2>2. sent[p] + 1 \in 1..Size
      <3>1. sent[p] \in 0..Size /\ sent[p] < Size
        BY <1>6 DEF SendChunk, Types, WireTypes
      <3> QED
        BY <3>1 DEF Size
    <2>3. PICK x \in Rest : x = Whole(what[p].content)[sent[p] + 1]
      BY <2>1, <2>2, WholeType DEF Rest
    <2>4. Put(Stream(p), x) /\ pc[p] = "copy" /\ pc' = pc
      BY <1>6, <2>3 DEF SendChunk
    <2> QED
      BY <1>1, <1>5, <2>4
  <1>7. CASE SendDone(p) \/ SendFails(p)
    <2>1. Eof \in Rest
      BY DEF Rest
    <2>2. /\ Put(Stream(p), Eof) /\ pc[p] = "copy"
          /\ \E w \in {"ok", "failed"} : pc' = [pc EXCEPT ![p] = w]
      BY <1>7 DEF SendDone, SendFails, Go
    <2> QED
      BY <1>1, <1>5, <2>1, <2>2
  <1> QED
    BY <1>4, <1>6, <1>7 DEF SendStep

\* The streams of sends.
LEMMA LinesKept == ASSUME Types, OnePlace, OneTaker, Lines, Next PROVE Lines'
  <1>w. what' = what /\ what \in Cases /\ Told' = Told
    BY WhatStays, WhatKept DEF Types, KindTypes
  <1>k. \A p \in Ops : Kind(p)' = Kind(p) /\ Kind(p) \in {"get", "send", "list"}
    BY <1>w, WhatKept, WhatTypes
  <1>e. \A i \in 1..Len(<<>>) : FALSE
    OBVIOUS
  <1> SUFFICES ASSUME NEW s \in Ops, Kind(s) = "send" PROVE Line(s)'
    BY <1>k DEF Lines, Line
  <1>o. Line(s) /\ flow[s] \in Seq(Items)
    BY DEF Lines, Types, WireTypes
  <1>1. ASSUME NEW k \in Conns, Dispatch(k) PROVE Line(s)'
    <2>1. PICK p \in Ops, pkt \in Answers :
             /\ toClient[k] # <<>> /\ pkt = Head(toClient[k]) /\ pkt.for \in Ops
             /\ answer[p] = None /\ answer'[p] = pkt /\ answer'[p] # None
             /\ pc'[p] = IF ~pkt.ok THEN "failed" ELSE IF Kind(p) = "list" THEN "ok" ELSE "stream"
             /\ \A q \in Ops : q # p => answer'[q] = answer[q] /\ pc'[q] = pc[q]
             /\ UNCHANGED <<flow, transfer>>
      BY <1>1, DispatchEffect
    <2>2. UNCHANGED <<flow, task, told>>
      BY <2>1 DEF transfer
    <2>3. CASE s = pkt.for
      <3>1. ~Answered(s)
        <4>1. Answering(s)
          BY <2>1, <2>3, TakenAnswer
        <4> QED
          BY <4>1 DEF OnePlace, One
      <3>2. flow[s] = <<>> /\ task[s] \notin Begun
        BY <1>o, <3>1 DEF Line
      <3>3. Answered(s)' /\ \A q \in Ops : Has(q, s)' => q = p
        BY <2>1, <2>3, <3>1 DEF Answered, Has
      <3>4. pc'[p] # "copy"
        BY <2>1
      <3> QED
        BY <1>k, <1>e, <1>w, <2>2, <3>2, <3>3, <3>4 DEF Line, Begun
    <2>4. CASE s # pkt.for
      <3>1. \A q \in Ops : Has(q, s)' => Has(q, s) /\ q # p
        BY <2>1, <2>4 DEF Has
      <3>2. Answered(s) => Answered(s)'
        BY <2>1 DEF Answered, Has
      <3> QED
        BY <1>o, <1>w, <2>1, <2>2, <3>1, <3>2, LineStays
    <2> QED
      BY <2>3, <2>4
  <1>a. ASSUME answer' = answer PROVE Answered(s)' = Answered(s) /\ \A p : Has(p, s)' = Has(p, s)
    BY <1>a DEF Answered, Has
  <1>2. ASSUME NEW k \in Conns, DispatchEnd(k) \/ LinkDown(k) \/ ServeEnds(k) PROVE Line(s)'
    <2>1. UNCHANGED <<answer, flow, task, told>>
      BY <1>2 DEF DispatchEnd, LinkDown, ServeEnds, client, transfer
    <2>2. \A p \in Ops : pc'[p] = pc[p] \/ pc'[p] = "failed"
      BY <1>2 DEF DispatchEnd, LinkDown, ServeEnds, client, Types, WireTypes
    <2> QED
      BY <1>a, <1>o, <1>w, <2>1, <2>2, LineStays
  <1>3. ASSUME NEW p \in Ops, Request(p) PROVE Line(s)'
    <2>1. UNCHANGED <<answer, flow, task, told>>
      BY <1>3, RequestFrame DEF transfer
    <2>2. \A q \in Ops : pc'[q] = pc[q] \/ pc'[q] \in {"wait", "failed"}
      BY <1>3 DEF Request, Go, Types, WireTypes
    <2> QED
      BY <1>a, <1>o, <1>w, <2>1, <2>2, LineStays
  <1>4. ASSUME NEW p \in Ops, GetStep(p) PROVE Line(s)'
    <2>1. UNCHANGED <<answer, task, told>>
      BY <1>4, GetFrame DEF transfer
    <2>2. pc[p] \in {"stream", "copy"} /\ Kind(p) = "get"
      BY <1>4 DEF GetStep, GetStart, GetChunk, GetCheck, GetFails
    <2>3. ~Has(p, s) /\ Stream(p) # s
      BY <2>2, Streaming
    <2>4. flow'[s] = flow[s]
      BY <1>4, <2>3 DEF GetStep, GetStart, GetChunk, GetCheck, GetFails, Types, WireTypes
    <2>5. \A q \in Ops : q # p => pc'[q] = pc[q]
      BY <1>4 DEF GetStep, GetStart, GetChunk, GetCheck, GetFails, Go, Types, WireTypes
    <2> QED
      BY <1>a, <1>o, <1>w, <2>1, <2>3, <2>4, <2>5, LineStays
  <1>5. ASSUME NEW p \in Ops, SendStep(p) PROVE Line(s)'
    <2>1. UNCHANGED <<answer, task, told>>
      BY <1>5, SendFrame DEF transfer
    <2>2. /\ pc[p] \in {"stream", "copy"} /\ Kind(p) = "send"
          /\ \A q \in Ops : q # p => pc'[q] = pc[q]
          /\ \A t \in Ops : t # Stream(p) => flow'[t] = flow[t]
      BY <1>5, SendEffect
    <2>3. /\ Has(p, Stream(p)) /\ \A q \in Ops : Has(q, Stream(p)) => q = p
          /\ \A t \in Ops : Has(p, t) => t = Stream(p)
      BY <2>2, Streaming
    <2>4. CASE s # Stream(p)
      BY <1>a, <1>o, <1>w, <2>1, <2>2, <2>3, <2>4, LineStays
    <2>5. CASE s = Stream(p) /\ flow' = flow /\ pc'[p] \in {pc[p], "ok", "failed"}
      BY <1>a, <1>o, <1>w, <2>1, <2>2, <2>5, LineStays
    <2>6. CASE /\ s = Stream(p) /\ pc[p] = "stream" /\ pc'[p] = "copy"
               /\ what[p].content \in Told /\ flow'[s] = Append(flow[s], what[p].content)
      <3>1. flow[s] = <<>> /\ task[s] \notin Begun
        BY <1>o, <2>3, <2>6 DEF Line
      <3>2. flow'[s] = <<what[p].content>>
        BY <2>6, <3>1
      <3>3. flow'[s] # <<>> /\ \A i \in 1..Len(flow'[s]) : flow'[s][i] \in IF i = 1 THEN Told ELSE Rest
        BY <2>6, <3>2
      <3>4. Answered(s)' /\ \A q \in Ops : Has(q, s)' => q = p
        BY <1>a, <2>1, <2>3, <2>6 DEF Answered
      <3> QED
        BY <1>k, <1>w, <2>1, <2>6, <3>1, <3>3, <3>4 DEF Line, Begun, Rest
    <2>7. ASSUME s = Stream(p), pc[p] = "copy", pc'[p] \in {"copy", "ok", "failed"},
                 NEW x \in Rest, flow'[s] = Append(flow[s], x)
          PROVE  Line(s)'
      <3>1. task[s] \in {"off", "info"} => flow[s] # <<>>
        BY <1>o, <2>3, <2>7 DEF Line
      <3>2. Answered(s)' /\ \A q \in Ops : Has(q, s)' => q = p
        BY <1>a, <2>1, <2>3, <2>7 DEF Answered
      <3>3. flow'[s] # <<>>
        BY <1>o, <2>7, LineGrows
      <3>4. task[s] \in {"off", "info"} =>
              \A i \in 1..Len(flow'[s]) : flow'[s][i] \in IF i = 1 THEN Told ELSE Rest
        <4>1. task[s] \in {"off", "info"} =>
                \A i \in 1..Len(flow[s]) : flow[s][i] \in IF i = 1 THEN Told ELSE Rest
          BY <1>o DEF Line
        <4> QED
          BY <1>o, <2>7, <3>1, <4>1, LineGrows
      <3>5. task[s] \in Begun => told[s] # None /\ \A i \in 1..Len(flow'[s]) : flow'[s][i] \in Rest
        <4>1. task[s] \in Begun => told[s] # None /\ \A i \in 1..Len(flow[s]) : flow[s][i] \in Rest
          BY <1>o DEF Line
        <4> QED
          BY <1>o, <2>7, <4>1, LineGrows
      <3>6. pc'[p] # "stream"
        BY <2>7
      <3> QED
        BY <1>k, <1>w, <2>1, <3>2, <3>3, <3>4, <3>5, <3>6 DEF Line, Begun, Rest
    <2> QED
      BY <1>5, <2>2, <2>4, <2>5, <2>6, <2>7, SendEffect
  <1>6. ASSUME NEW p \in Ops, ServeStep(p) PROVE Line(s)'
    <2>1. UNCHANGED <<answer, pc, flow, told>>
      BY <1>6, ServeFrame DEF client
    <2>2. CASE s # p \/ task' = task
      <3>1. task'[s] = task[s]
        BY <1>6, <2>2, ServeEffect DEF Types, DiskTypes
      <3> QED
        BY <1>a, <1>o, <1>w, <2>1, <3>1, LineStays
    <2>3. CASE s = p /\ task' # task
      <3>1. HandleSend(p)
        BY <1>6, <2>3 DEF ServeStep, HandleGet, GetOpen, GetReply, HandleList, transfer
      <3>2. task'[s] \in {"info", "end"}
        BY <2>3, <3>1 DEF HandleSend, Types, DiskTypes
      <3>3. ~Answered(s)
        BY <2>3, <3>1, Fresh DEF HandleSend
      <3>4. flow[s] = <<>> /\ ~Answered(s)' /\ \A q \in Ops : ~Has(q, s)'
        BY <1>a, <1>o, <2>1, <3>3 DEF Line, Answered
      <3> QED
        BY <1>e, <1>k, <2>1, <3>2, <3>4 DEF Line, Begun, Rest
    <2> QED
      BY <2>2, <2>3
  <1>7. ASSUME NEW p \in Ops, Hash(p) PROVE Line(s)'
    <2>1. UNCHANGED <<answer, pc, flow, task, told>>
      BY <1>7, HashFrame DEF client, transfer
    <2> QED
      BY <1>a, <1>o, <1>w, <2>1, LineStays
  <1>8. ASSUME NEW p \in Ops, TransferStep(p) PROVE Line(s)'
    <2>1. UNCHANGED <<answer, pc, told>> /\ p # s
      BY <1>8, TransferFrame DEF client, TransferStep, TransferOpen, TransferChunk, TransferEnd
    <2>2. task'[s] = task[s]
      BY <1>8, <2>1 DEF TransferStep, TransferOpen, TransferChunk, TransferEnd, Do, Types, DiskTypes
    <2>3. flow'[s] = flow[s]
      BY <1>8, <2>1 DEF TransferStep, TransferOpen, TransferChunk, TransferEnd, Put, Types, WireTypes
    <2> QED
      BY <1>a, <1>o, <1>w, <2>1, <2>2, <2>3, LineStays
  <1>9. ASSUME NEW p \in Ops, ReceiveStep(p) PROVE Line(s)'
    <2>1. UNCHANGED <<answer, pc>>
      BY <1>9, ReceiveFrame DEF client
    <2>2. CASE p # s
      <3>1. task'[s] = task[s] /\ told'[s] = told[s]
        BY <1>9, <2>2
           DEF ReceiveStep, ReceiveInfo, ReceiveGivesUp, ReceiveCreate, ReceiveChunk, ReceiveFails,
               ReceiveHash, ReceiveCheck, Do, Types, DiskTypes
      <3>2. flow'[s] = flow[s]
        BY <1>9, <2>2
           DEF ReceiveStep, ReceiveInfo, ReceiveGivesUp, ReceiveCreate, ReceiveChunk, ReceiveFails,
               ReceiveHash, ReceiveCheck, Types, WireTypes
      <3> QED
        BY <1>a, <1>o, <1>w, <2>1, <3>1, <3>2, LineStays
    <2>3. CASE p = s /\ ReceiveInfo(p)
      <3>1. task[s] = "info" /\ flow[s] # <<>>
        BY <2>3 DEF ReceiveInfo
      <3>2. flow'[s] = Tail(flow[s]) /\ task'[s] = "create" /\ told'[s] = Head(flow[s])
        BY <2>3 DEF ReceiveInfo, Do, Types, WireTypes, DiskTypes
      <3>3. told'[s] # None
        <4>1. Head(flow[s]) \in Told
          BY <3>1, InfoTold
        <4>2. None \notin Told
          BY <1>w, WhatTypes, FileAssumption DEF Told
        <4> QED
          BY <3>2, <4>1, <4>2
      <3>4. \A i \in 1..Len(flow'[s]) : flow'[s][i] \in Rest
        <4>1. \A i \in 1..Len(flow[s]) : flow[s][i] \in IF i = 1 THEN Told ELSE Rest
          BY <1>o, <3>1 DEF Line
        <4> QED
          BY <1>o, <3>1, <3>2, <4>1, LineRead
      <3>5. Answered(s)' /\ \A q \in Ops : Has(q, s)' => Has(q, s) /\ pc'[q] # "stream"
        BY <1>a, <1>o, <2>1, <3>1 DEF Line
      <3> QED
        BY <1>k, <3>2, <3>3, <3>4, <3>5 DEF Line, Begun, Rest
    <2>4. CASE p = s /\ ReceiveChunk(p)
      <3>1. task[s] = "copy" /\ flow[s] # <<>> /\ UNCHANGED <<task, told>>
        BY <2>4 DEF ReceiveChunk
      <3>2. flow'[s] = Tail(flow[s])
        BY <2>4 DEF ReceiveChunk, Types, WireTypes
      <3>3. told[s] # None /\ \A i \in 1..Len(flow'[s]) : flow'[s][i] \in Rest
        <4>1. told[s] # None /\ \A i \in 1..Len(flow[s]) : flow[s][i] \in Rest
          BY <1>o, <3>1 DEF Line, Begun
        <4> QED
          BY <1>o, <3>1, <3>2, <4>1, LineRead
      <3>4. Answered(s)' /\ \A q \in Ops : Has(q, s)' => pc'[q] # "stream"
        BY <1>a, <1>o, <2>1, <3>1 DEF Line
      <3> QED
        BY <1>k, <3>1, <3>3, <3>4 DEF Line, Begun, Rest
    <2>5. CASE p = s /\ (ReceiveGivesUp(p) \/ ReceiveFails(p) \/ ReceiveCheck(p))
      <3>1. /\ UNCHANGED <<flow, told>> /\ task'[s] = "end"
            /\ task[s] \in Begun \/ task[s] = "info"
        BY <2>5 DEF ReceiveGivesUp, ReceiveFails, ReceiveCheck, Do, Types, DiskTypes, Begun
      <3>2. ~Answered(s)' => flow'[s] = <<>>
        BY <1>a, <1>o, <2>1, <3>1 DEF Line
      <3>3. \A q \in Ops : Has(q, s)' /\ pc'[q] = "stream" => flow'[s] = <<>>
        BY <1>a, <1>o, <2>1, <3>1 DEF Line
      <3> QED
        BY <1>k, <3>1, <3>2, <3>3 DEF Line, Begun, Rest
    <2>6. CASE p = s /\ (ReceiveCreate(p) \/ ReceiveHash(p))
      <3>1. /\ UNCHANGED <<flow, told>> /\ task'[s] \in {"end", "copy", "check"}
            /\ task[s] \in Begun
        <4>1. CASE ReceiveCreate(p)
          BY <2>6, <4>1 DEF ReceiveCreate, Do, Types, DiskTypes, Begun
        <4>2. CASE ReceiveHash(p)
          BY <2>6, <4>2 DEF ReceiveHash, Do, Types, DiskTypes, Begun
        <4> QED
          BY <2>6, <4>1, <4>2
      <3>2. Answered(s)' /\ \A q \in Ops : Has(q, s)' => pc'[q] # "stream"
        BY <1>a, <1>o, <2>1, <3>1, ReceiveFrame DEF Line, client
      <3> QED
        BY <1>k, <1>o, <3>1, <3>2 DEF Line, Begun, Rest
    <2> QED
      BY <1>9, <2>2, <2>3, <2>4, <2>5, <2>6 DEF ReceiveStep
  <1> QED
    BY <1>1, <1>2, <1>3, <1>4, <1>5, <1>6, <1>7, <1>8, <1>9, Steps DEF LinkStep
-----------------------------------------------------------------------------
(* Files of a name.                                                        *)

\* What a step does to what is open, hashed and in the directory.
LEMMA OfNameKept == ASSUME Types, OfName, Next PROVE OfName'
  <1>w. \A i : Name(i)' = Name(i) /\ Named(i)' = Named(i)
    BY WhatStays, WhatKept DEF Named
  <1>n. \A p \in Ops : Name(p) \in Names /\ Named(p) = Name(p)
    BY WhatTypes, FileAssumption DEF Types, KindTypes, Named
  <1> DEFINE Good(i, n) == i = None \/ Named(i) = n
             Rightly(p, i) == i \in {fd[p], sum[p].ino, None, file[Name(p)], p}
  <1>o. \A p \in Ops : \A i : Rightly(p, i) => Good(i, Name(p))
    BY <1>n DEF OfName
  <1> SUFFICES /\ \A n \in Names : Good(file'[n], n)
               /\ \A p \in Ops : Good(fd'[p], Name(p)) /\ Good(sum'[p].ino, Name(p))
    BY <1>w DEF OfName
  <1>g. /\ \A n \in Names : Good(file[n], n)
        /\ \A p \in Ops : Good(fd[p], Name(p)) /\ Good(sum[p].ino, Name(p))
    BY DEF OfName
  <1>1. ASSUME \/ \E k \in Conns : LinkStep(k)
               \/ \E p \in Ops : Request(p) \/ GetStep(p) \/ SendStep(p)
        PROVE  UNCHANGED <<file, fd, sum>>
    BY <1>1, ClientFrame DEF transfer, disk
  <1>2. ASSUME NEW p \in Ops, NEW x, NEW y, NEW z, Rightly(p, x), Rightly(p, y), Rightly(p, z),
               file' = file \/ file' = [file EXCEPT ![Name(p)] = x],
               fd' = fd \/ fd' = [fd EXCEPT ![p] = y],
               sum'[p].ino = z, \A q \in Ops : q # p => sum'[q] = sum[q]
        PROVE  /\ \A n \in Names : Good(file'[n], n)
               /\ \A q \in Ops : Good(fd'[q], Name(q)) /\ Good(sum'[q].ino, Name(q))
    <2>1. Good(x, Name(p)) /\ Good(y, Name(p)) /\ Good(z, Name(p))
      BY <1>2, <1>o
    <2>2. \A n \in Names : Good(file'[n], n)
      BY <1>2, <1>g, <2>1 DEF Types, DiskTypes
    <2>3. \A q \in Ops : Good(fd'[q], Name(q))
      BY <1>2, <1>g, <2>1 DEF Types, DiskTypes
    <2>4. \A q \in Ops : Good(sum'[q].ino, Name(q))
      BY <1>2, <1>g, <2>1
    <2> QED
      BY <2>2, <2>3, <2>4
  <1>3. Nothing.ino = None
    BY DEF Nothing
  <1>4. \A p \in Ops : /\ Rightly(p, None) /\ Rightly(p, fd[p]) /\ Rightly(p, sum[p].ino)
                       /\ Rightly(p, file[Name(p)]) /\ Rightly(p, p)
    OBVIOUS
  <1> DEFINE Keeps == /\ \A n \in Names : Good(file'[n], n)
                      /\ \A p \in Ops : Good(fd'[p], Name(p)) /\ Good(sum'[p].ino, Name(p))
  <1>5. ASSUME NEW p \in Ops, ServeStep(p) PROVE Keeps
    <2>1. UNCHANGED <<file, fd>>
      BY <1>5, ServeFrame DEF disk, transfer
    <2>2. \/ sum' = sum \/ sum' = [sum EXCEPT ![p] = Nothing]
          \/ \E i \in Inodes : i = file[Name(p)] /\ sum' = [sum EXCEPT ![p].ino = i]
      BY <1>5, ServeEffect
    <2>3. PICK z \in {sum[p].ino, None, file[Name(p)]} :
            sum'[p].ino = z /\ \A q \in Ops : q # p => sum'[q] = sum[q]
      BY <1>3, <2>2, SumSet DEF Types
    <2>4. Rightly(p, z)
      BY <2>3
    <2> QED
      BY <1>2, <1>4, <2>1, <2>3, <2>4
  <1>6. ASSUME NEW p \in Ops, Hash(p) PROVE Keeps
    <2>1. UNCHANGED <<file, fd>>
      BY <1>6, HashFrame DEF disk, transfer
    <2>2. sum'[p].ino = sum[p].ino /\ \A q \in Ops : q # p => sum'[q] = sum[q]
      BY <1>6, HashEffect
    <2> QED
      BY <1>2, <1>4, <2>1, <2>2
  <1>7. ASSUME NEW p \in Ops, TransferStep(p) PROVE Keeps
    <2>1. UNCHANGED <<file, sum>>
      BY <1>7, TransferFrame DEF disk
    <2>2. fd' = fd \/ fd' = [fd EXCEPT ![p] = file[Name(p)]] \/ fd' = [fd EXCEPT ![p] = None]
      BY <1>7 DEF TransferStep, TransferOpen, TransferChunk, TransferEnd, Close
    <2>3. PICK y \in {None, file[Name(p)]} : fd' = fd \/ fd' = [fd EXCEPT ![p] = y]
      BY <2>2
    <2>4. Rightly(p, y)
      BY <2>3
    <2> QED
      BY <1>2, <1>4, <2>1, <2>3, <2>4
  <1>8. ASSUME NEW p \in Ops, ReceiveStep(p) PROVE Keeps
    <2>1. CASE ReceiveInfo(p) \/ ReceiveGivesUp(p) \/ ReceiveChunk(p)
      BY <1>g, <2>1 DEF ReceiveInfo, ReceiveGivesUp, ReceiveChunk, disk
    <2>2. CASE ReceiveCreate(p)
      <3>1. PICK i \in {p, file[Name(p)]} :
              fd' = [fd EXCEPT ![p] = i] /\ file' = [file EXCEPT ![Name(p)] = i] /\ sum' = sum
        BY <2>2, CreateEffect
      <3>2. Rightly(p, i)
        BY <3>1
      <3> QED
        BY <1>2, <1>4, <3>1, <3>2
    <2>3. CASE ReceiveFails(p)
      <3>1. fd' = [fd EXCEPT ![p] = None] /\ file' = [file EXCEPT ![Name(p)] = None] /\ sum' = sum
        BY <2>3 DEF ReceiveFails, Close, Unlink
      <3> QED
        BY <1>2, <1>4, <3>1
    <2>4. CASE ReceiveHash(p)
      <3>1. /\ fd' = [fd EXCEPT ![p] = None] /\ file' = file
            /\ \/ sum' = sum
               \/ \E i \in Inodes : i = file[Name(p)] /\ sum' = [sum EXCEPT ![p].ino = i]
        BY <2>4, HashBegins
      <3>2. PICK z \in {sum[p].ino, file[Name(p)]} :
              sum'[p].ino = z /\ \A q \in Ops : q # p => sum'[q] = sum[q]
        BY <3>1, SumSet DEF Types
      <3>3. Rightly(p, z)
        BY <3>2
      <3> QED
        BY <1>2, <1>4, <3>1, <3>2, <3>3
    <2>5. CASE ReceiveCheck(p)
      <3>1. /\ fd' = fd
            /\ file' = file \/ file' = [file EXCEPT ![Name(p)] = None]
            /\ sum' = [sum EXCEPT ![p] = Nothing]
        BY <2>5, CheckEffect
      <3>2. sum'[p].ino = None /\ \A q \in Ops : q # p => sum'[q] = sum[q]
        <4>1. None \in Inodes \cup {None}
          OBVIOUS
        <4> QED
          BY <1>3, <3>1, <4>1, SumSet DEF Types
      <3> QED
        BY <1>2, <1>4, <3>1, <3>2
    <2> QED
      BY <1>8, <2>1, <2>2, <2>3, <2>4, <2>5 DEF ReceiveStep
  <1> QED
    BY <1>g, <1>1, <1>5, <1>6, <1>7, <1>8, Steps
-----------------------------------------------------------------------------
(* Files nothing was received into, and what gets make of them.            *)

\* Inodes.
LEMMA InodeTypes ==
    /\ None \notin Inodes /\ \A n \in Names : n \in Inodes /\ Named(n) = n
    /\ \A p \in Ops : p \in Inodes
    BY FileAssumption DEF Inodes, Named

\* What was told stays so.
LEMMA ToldKept ==
    ASSUME Types, Lines, Next
    PROVE  \A p \in Ops : told[p] # None => told'[p] # None
  <1>1. ASSUME NEW p \in Ops, ReceiveInfo(p) PROVE \A q \in Ops : told[q] # None => told'[q] # None
    <2>1. Head(flow[p]) \in Told /\ told' = [told EXCEPT ![p] = Head(flow[p])]
      BY <1>1, InfoTold DEF ReceiveInfo
    <2>2. None \notin Told
      BY WhatTypes, FileAssumption DEF Told, Types, KindTypes
    <2> QED
      BY <2>1, <2>2 DEF Types, DiskTypes
  <1>2. ASSUME \A p \in Ops : ~ReceiveInfo(p) PROVE told' = told
    <2>1. ASSUME NEW p \in Ops, ServeStep(p) \/ Hash(p) \/ TransferStep(p) PROVE told' = told
      BY <2>1, ServeFrame, HashFrame, TransferFrame DEF transfer
    <2>2. ASSUME NEW p \in Ops, ReceiveStep(p) PROVE told' = told
      BY <1>2, <2>2 DEF ReceiveStep, ReceiveGivesUp, ReceiveCreate, ReceiveChunk, ReceiveFails,
                        ReceiveHash, ReceiveCheck
    <2>3. ASSUME \/ \E k \in Conns : LinkStep(k)
                 \/ \E p \in Ops : Request(p) \/ GetStep(p) \/ SendStep(p)
          PROVE  told' = told
      BY <2>3, ClientFrame DEF transfer
    <2> QED
      BY <2>1, <2>2, <2>3, Steps
  <1> QED
    BY <1>1, <1>2

\* Only a receiver of that name, told what comes, touches a file.
LEMMA FilesKept ==
    ASSUME Types, Lines, OfName, Next, NEW n \in Names, Untouched(n)', file[n] = n
    PROVE  Untouched(n) /\ file'[n] = n /\ data'[n] = data[n]
  <1>w. \A p \in Ops : /\ Kind(p)' = Kind(p) /\ Name(p)' = Name(p) /\ Name(p) \in Names
                       /\ Kind(p) \in {"get", "send", "list"}
    BY WhatStays, WhatKept, WhatTypes DEF Types, KindTypes
  <1>t. \A p \in Ops : Kind(p) = "send" /\ task[p] \in Begun => told[p] # None
    BY DEF Lines, Line
  <1>1. \A p \in Ops : told[p] # None => told'[p] # None
    BY ToldKept
  <1>2. Untouched(n)
    BY <1>1, <1>w DEF Untouched
  <1>3. ASSUME NEW p \in Ops, ReceiveStep(p) PROVE file'[n] = n /\ data'[n] = data[n]
    <2>1. CASE ReceiveInfo(p) \/ ReceiveGivesUp(p)
      BY <2>1 DEF ReceiveInfo, ReceiveGivesUp, disk
    <2>2. Kind(p) = "send" /\ task[p] \in Begun => Name(p) # n
      BY <1>2, <1>t DEF Untouched
    <2>3. CASE ReceiveCreate(p)
      <3>1. PICK i \in Inodes :
              /\ i = IF file[Name(p)] = None THEN p ELSE file[Name(p)]
              /\ file' = [file EXCEPT ![Name(p)] = i] /\ data' = [data EXCEPT ![i] = <<>>]
              /\ task[p] = "create" /\ Kind(p) = "send"
        BY <2>3, CreateEffect
      <3>2. Name(p) # n
        BY <2>2, <3>1 DEF Begun
      <3>3. i # n
        BY <1>w, <3>1, <3>2, InodeTypes, FileAssumption DEF OfName
      <3> QED
        BY <3>1, <3>2, <3>3 DEF Types, DiskTypes
    <2>4. CASE ReceiveChunk(p)
      <3>1. PICK d \in Seq(Chunks) :
              /\ fd[p] \in Inodes /\ Kind(p) = "send" /\ task[p] = "copy"
              /\ data' = [data EXCEPT ![fd[p]] = d] /\ file' = file
        BY <2>4, ChunkEffect
      <3>2. fd[p] # n
        BY <2>2, <3>1, InodeTypes DEF Begun, OfName
      <3> QED
        BY <3>1, <3>2 DEF Types, DiskTypes
    <2>5. CASE ReceiveFails(p)
      <3>1. Kind(p) = "send" /\ task[p] = "copy" /\ data' = data
            /\ file' = [file EXCEPT ![Name(p)] = None]
        BY <2>5 DEF ReceiveFails, Unlink
      <3> QED
        BY <2>2, <3>1 DEF Begun, Types, DiskTypes
    <2>6. CASE ReceiveHash(p)
      BY <2>6 DEF ReceiveHash, disk
    <2>7. CASE ReceiveCheck(p)
      <3>1. /\ Kind(p) = "send" /\ task[p] = "check" /\ data' = data
            /\ file' = file \/ file' = [file EXCEPT ![Name(p)] = None]
        BY <2>7, CheckEffect
      <3> QED
        BY <2>2, <3>1 DEF Begun, Types, DiskTypes
    <2> QED
      BY <1>3, <2>1, <2>3, <2>4, <2>5, <2>6, <2>7 DEF ReceiveStep
  <1>4. ASSUME NEW p \in Ops, ServeStep(p) \/ Hash(p) \/ TransferStep(p)
        PROVE  UNCHANGED <<file, data>>
    BY <1>4, ServeFrame, HashFrame, TransferFrame DEF disk
  <1>5. ASSUME \/ \E k \in Conns : LinkStep(k)
               \/ \E p \in Ops : Request(p) \/ GetStep(p) \/ SendStep(p)
        PROVE  UNCHANGED <<file, data>>
    BY <1>5, ClientFrame DEF disk
  <1> QED
    BY <1>2, <1>3, <1>4, <1>5, Steps

\* A part of a file that is as long as the file.
LEMMA PartIsWhole ==
    ASSUME NEW q \in Seq(Chunks), NEW d \in Seq(Chunks), PartOf(q, d), ~(Len(q) < Len(d))
    PROVE  q = d
  <1>1. Len(q) = Len(d) /\ \A i \in 1..Len(q) : q[i] = d[i]
    BY LenProperties DEF PartOf
  <1> QED
    BY <1>1, SeqEqual

\* A part that grows by what comes next.
LEMMA PartGrows ==
    ASSUME NEW q \in Seq(Chunks), NEW d \in Seq(Chunks), PartOf(q, d), Len(q) + 1 \in 1..Len(d)
    PROVE  PartOf(Append(q, d[Len(q) + 1]), d)
  <1>1. PICK x \in Chunks : x = d[Len(q) + 1]
    OBVIOUS
  <1>2. /\ Len(Append(q, x)) = Len(q) + 1 /\ Append(q, x)[Len(q) + 1] = x /\ Len(q) \in Nat
        /\ \A i \in 1..Len(q) : Append(q, x)[i] = q[i]
    BY Queued, LenProperties
  <1>3. Len(d) \in Nat
    BY LenProperties
  <1>4. Len(Append(q, x)) <= Len(d)
    BY <1>2, <1>3
  <1>5. ASSUME NEW i \in 1..Len(Append(q, x)) PROVE Append(q, x)[i] = d[i]
    <2>1. i \in 1..Len(q) \/ i = Len(q) + 1
      BY <1>2
    <2> QED
      BY <1>1, <1>2, <2>1 DEF PartOf
  <1> QED
    BY <1>1, <1>4, <1>5 DEF PartOf

\* The answers to s on a connection give the checksum of the file n.
Real(q, s, n) == \A i \in 1..Len(q) : q[i].for = s /\ q[i].ok => q[i].sum = Whole(n)

LEMMA RealGrows ==
    ASSUME NEW s, NEW n, NEW q \in Seq(Answers), Real(q, s, n)
    PROVE  /\ \A x \in Answers : (x.for = s /\ x.ok => x.sum = Whole(n)) => Real(q \o <<x>>, s, n)
           /\ q # <<>> => Real(Tail(q), s, n)
  <1>1. ASSUME NEW x \in Answers, x.for = s /\ x.ok => x.sum = Whole(n)
        PROVE  Real(q \o <<x>>, s, n)
    <2> DEFINE a == q \o <<x>>
    <2>1. /\ Len(a) = Len(q) + 1 /\ a[Len(q) + 1] = x /\ \A j \in 1..Len(q) : a[j] = q[j]
      BY QueuedOne
    <2> SUFFICES ASSUME NEW i \in 1..Len(a), a[i].for = s, a[i].ok PROVE a[i].sum = Whole(n)
      BY Zenon DEF Real
    <2>2. i \in 1..Len(q) \/ i = Len(q) + 1
      BY <2>1, LenProperties
    <2>3. CASE i \in 1..Len(q)
      BY <2>1, <2>3 DEF Real
    <2>4. CASE i = Len(q) + 1
      BY <1>1, <2>1, <2>4
    <2> QED
      BY <2>2, <2>3, <2>4
  <1>2. ASSUME q # <<>>, NEW i \in 1..Len(Tail(q)), Tail(q)[i].for = s, Tail(q)[i].ok
        PROVE  Tail(q)[i].sum = Whole(n)
    <2>1. Tail(q)[i] = q[i + 1] /\ i + 1 \in 1..Len(q)
      BY <1>2, Taken
    <2> QED
      BY <1>2, <2>1 DEF Real
  <1> QED
    BY <1>1, <1>2 DEF Real

\* What the answer to a get says.
LEMMA ReplyReal ==
    ASSUME Types, NEW p \in Ops, ServeStep(p), Kind(p) = "get"
    PROVE  \/ toClient' = toClient
           \/ \E pkt \in Answers :
                /\ pkt.ok => pkt.sum = sum[p].got /\ sum[p].ino # None /\ ~More(p)
                /\ toClient'[Conn(p)] = toClient[Conn(p)] \o <<pkt>>
  <1>1. size[p] \in 0..Size /\ sum[p].got \in Seq(Chunks)
    BY DEF Types, WireTypes, DiskTypes
  <1>2. Refusal(p) \in Answers /\ Offer(p, size[p], sum[p].got) \in Answers
    BY <1>1, AnswerTypes
  <1>3. ~Refusal(p).ok /\ Offer(p, size[p], sum[p].got).sum = sum[p].got
    BY DEF Refusal, Offer
  <1>4. CASE HandleGet(p) \/ GetOpen(p)
    <2>1. toClient' = toClient \/ Reply(p, <<Refusal(p)>>)
      BY <1>4 DEF HandleGet, GetOpen, Refused
    <2> QED
      BY <1>2, <1>3, <2>1, ReplyEffect DEF Types, KindTypes
  <1>5. CASE GetReply(p)
    <2>1. /\ Reply(p, <<Offer(p, size[p], sum[p].got)>>) /\ sum[p].ino # None /\ ~More(p)
      BY <1>5 DEF GetReply
    <2> QED
      BY <1>2, <1>3, <2>1, ReplyEffect DEF Types, KindTypes
  <1> QED
    BY <1>4, <1>5 DEF ServeStep, HandleSend, HandleList

\* Files that were there, and the gets of them.
LEMMA OriginalKept ==
    ASSUME Types, OnePlace, OneTaker, Lines, OfName, Original, Next PROVE Original'
  <1>w. what' = what /\ what \in Cases
    BY WhatStays DEF Types, KindTypes
  <1>k. \A p \in Ops : /\ Kind(p)' = Kind(p) /\ Name(p)' = Name(p) /\ Conn(p)' = Conn(p)
                       /\ Name(p) \in Names /\ Conn(p) \in Conns
                       /\ Kind(p) \in {"get", "send", "list"}
    BY <1>w, WhatKept, WhatTypes
  <1>1. ASSUME NEW n \in Names, Untouched(n)'
        PROVE  /\ Untouched(n) /\ file[n] = n /\ data[n] = Whole(n)
               /\ file'[n] = n /\ data'[n] = Whole(n)
    <2>1. Untouched(n)
      <3>1. \A p \in Ops : told[p] # None => told'[p] # None
        BY ToldKept
      <3> QED
        BY <1>1, <1>k, <3>1 DEF Untouched
    <2>2. file[n] = n /\ data[n] = Whole(n)
      BY <2>1 DEF Original
    <2> QED
      BY <1>1, <2>1, <2>2, FilesKept
  <1>2. ASSUME NEW s \in Ops, Kind(s) = "get", Untouched(Name(s))'
        PROVE  /\ sum'[s].ino # None => sum'[s].ino = Name(s) /\ PartOf(sum'[s].got, Whole(Name(s)))
               /\ Real(toClient'[Conn(s)], s, Name(s))
               /\ \A p \in Ops : Has(p, s)' /\ answer'[p].ok => answer'[p].sum = Whole(Name(s))
    <2> DEFINE n == Name(s)
               k == Conn(s)
    <2>1. /\ n \in Names /\ k \in Conns /\ Untouched(n) /\ file[n] = n /\ data[n] = Whole(n)
      BY <1>1, <1>2, <1>k
    <2>2. /\ sum[s].ino # None => sum[s].ino = n /\ PartOf(sum[s].got, Whole(n))
          /\ Real(toClient[k], s, n)
          /\ \A p \in Ops : Has(p, s) /\ answer[p].ok => answer[p].sum = Whole(n)
      BY <1>2, <2>1 DEF Original, Real
    <2>3. Whole(n) \in Seq(Chunks) /\ sum[s].got \in Seq(Chunks) /\ toClient[k] \in Seq(Answers)
      BY <2>1, WholeType DEF Types, DiskTypes, WireTypes
    <2>4. CASE \E j \in Conns : LinkStep(j)
      <3>1. PICK j \in Conns : LinkStep(j)
        BY <2>4
      <3>2. sum' = sum
        BY <3>1, LinkFrame
      <3>3. Real(<<>>, s, n)
        BY DEF Real
      <3>4. CASE Dispatch(j)
        <4>1. PICK p \in Ops, pkt \in Answers :
                 /\ toClient[j] # <<>> /\ pkt = Head(toClient[j])
                 /\ toClient' = [toClient EXCEPT ![j] = Tail(@)]
                 /\ answer'[p] = pkt /\ \A q \in Ops : q # p => answer'[q] = answer[q]
          BY <3>4, DispatchEffect
        <4>2. Real(toClient'[k], s, n)
          <5>1. toClient'[k] = IF k = j THEN Tail(toClient[k]) ELSE toClient[k]
            BY <2>1, <4>1 DEF Types, WireTypes
          <5> QED
            BY <2>2, <2>3, <4>1, <5>1, RealGrows
        <4>3. pkt.for = s /\ pkt.ok => pkt.sum = Whole(n)
          <5>1. Conn(pkt.for) = j /\ 1 \in 1..Len(toClient[j]) /\ pkt = toClient[j][1]
            BY <4>1, TakenAnswer
          <5> QED
            BY <2>2, <5>1 DEF Real
        <4>4. \A q \in Ops : Has(q, s)' /\ answer'[q].ok => answer'[q].sum = Whole(n)
          BY <2>2, <4>1, <4>3 DEF Has
        <4> QED
          BY <2>2, <3>2, <4>2, <4>4
      <3>5. CASE DispatchEnd(j) \/ LinkDown(j) \/ ServeEnds(j)
        <4>1. answer' = answer /\ toClient'[k] \in {toClient[k], <<>>}
          BY <2>1, <3>5 DEF DispatchEnd, LinkDown, ServeEnds, client, Types, WireTypes
        <4>2. \A q \in Ops : Has(q, s)' /\ answer'[q].ok => answer'[q].sum = Whole(n)
          BY <2>2, <4>1 DEF Has
        <4> QED
          BY <2>2, <3>2, <3>3, <4>1, <4>2
      <3> QED
        BY <3>1, <3>4, <3>5 DEF LinkStep
    <2>a. ASSUME answer' = answer
          PROVE  \A q \in Ops : Has(q, s)' /\ answer'[q].ok => answer'[q].sum = Whole(n)
      BY <2>2, <2>a DEF Has
    <2>5. CASE \E p \in Ops : Request(p) \/ GetStep(p) \/ SendStep(p) \/ TransferStep(p)
      <3>1. UNCHANGED <<answer, toClient, sum>>
        BY <2>5, RequestFrame, GetFrame, SendFrame, TransferFrame DEF net, client
      <3> QED
        BY <2>2, <2>a, <3>1
    <2>6. ASSUME NEW p \in Ops, ReceiveStep(p)
          PROVE  UNCHANGED <<answer, toClient>> /\ sum'[s] = sum[s]
      <3>1. UNCHANGED <<answer, toClient>>
        BY <2>6, ReceiveFrame DEF net, client
      <3>2. p # s
        <4>1. task[p] \in {"info", "create", "check"} \/ Kind(p) = "send"
          BY <2>6 DEF ReceiveStep, ReceiveInfo, ReceiveGivesUp, ReceiveCreate, ReceiveChunk,
                      ReceiveFails, ReceiveHash, ReceiveCheck
        <4> QED
          BY <1>2, <4>1 DEF Types, KindTypes, KindOf
      <3>3. \/ sum' = sum \/ sum' = [sum EXCEPT ![p] = Nothing]
            \/ \E i \in Inodes : sum' = [sum EXCEPT ![p].ino = i]
        BY <2>6, HashBegins
           DEF ReceiveStep, ReceiveInfo, ReceiveGivesUp, ReceiveCreate, ReceiveChunk, ReceiveFails,
               ReceiveCheck
      <3>4. sum'[s] = sum[s]
        BY <3>2, <3>3, SumSet DEF Types
      <3> QED
        BY <3>1, <3>4
    <2>7. CASE \E p \in Ops : ReceiveStep(p)
      BY <2>2, <2>6, <2>7, <2>a
    <2>8. ASSUME NEW p \in Ops, Hash(p)
          PROVE  sum'[s].ino # None => sum'[s].ino = n /\ PartOf(sum'[s].got, Whole(n))
      <3>1. CASE p # s
        BY <2>2, <2>8, <3>1, HashEffect
      <3>2. CASE p = s
        <4>1. /\ sum[s].ino \in Inodes /\ sum'[s].ino = sum[s].ino
              /\ sum'[s].got = Append(sum[s].got, data[sum[s].ino][Len(sum[s].got) + 1])
              /\ Len(sum[s].got) + 1 \in 1..Len(data[sum[s].ino])
          BY <2>8, <3>2, HashEffect
        <4>2. sum[s].ino = n /\ PartOf(sum[s].got, Whole(n))
          BY <2>2, <4>1, InodeTypes
        <4>3. PartOf(Append(sum[s].got, Whole(n)[Len(sum[s].got) + 1]), Whole(n))
          BY <2>1, <2>3, <4>1, <4>2, PartGrows
        <4> QED
          BY <2>1, <4>1, <4>2, <4>3
      <3> QED
        BY <3>1, <3>2
    <2>9. CASE \E p \in Ops : Hash(p)
      <3>1. UNCHANGED <<answer, toClient>>
        BY <2>9, HashFrame DEF net, client
      <3> QED
        BY <2>2, <2>8, <2>9, <2>a, <3>1
    <2>10. ASSUME NEW p \in Ops, ServeStep(p)
           PROVE  /\ answer' = answer /\ Real(toClient'[k], s, n)
                  /\ sum'[s].ino # None => sum'[s].ino = n /\ PartOf(sum'[s].got, Whole(n))
      <3>1. answer' = answer
        BY <2>10, ServeFrame DEF client
      <3>2. CASE p # s
        <4>1. sum'[s] = sum[s]
          BY <2>10, <3>2, ServeEffect, SumSet DEF Types
        <4>2. CASE toClient' = toClient
          BY <2>2, <3>1, <4>1, <4>2
        <4>3. CASE \E pkt \in Answers : pkt.for = p /\ Reply(p, <<pkt>>)
          <5>1. PICK pkt \in Answers : pkt.for = p /\ Reply(p, <<pkt>>)
            BY <4>3
          <5>2. toClient'[k] = toClient[k] \/ toClient'[k] = toClient[k] \o <<pkt>>
            BY <1>w, <2>1, <5>1, ReplyEffect DEF Types
          <5>3. Real(toClient[k] \o <<pkt>>, s, n)
            BY <2>2, <2>3, <3>2, <5>1, RealGrows
          <5> QED
            BY <2>2, <3>1, <4>1, <5>2, <5>3
        <4> QED
          BY <2>10, <4>2, <4>3, ServeWire
      <3>3. CASE p = s
        <4>1. \/ sum' = sum \/ sum' = [sum EXCEPT ![s] = Nothing]
              \/ \E i \in Inodes : i = file[n] /\ sum[s] = Nothing /\ sum' = [sum EXCEPT ![s].ino = i]
          BY <2>10, <3>3, ServeEffect
        <4>2. Nothing.ino = None /\ Nothing.got = <<>>
          BY DEF Nothing
        <4>3. PartOf(<<>>, Whole(n))
          BY <2>3, LenProperties DEF PartOf
        <4>4. sum'[s].ino # None => sum'[s].ino = n /\ PartOf(sum'[s].got, Whole(n))
          <5>1. CASE sum' = sum
            BY <2>2, <5>1
          <5>2. CASE sum' = [sum EXCEPT ![s] = Nothing]
            <6>1. None \in Inodes \cup {None}
              OBVIOUS
            <6>2. sum'[s] = Nothing
              BY <5>2, <6>1, SumSet DEF Types
            <6> QED
              BY <4>2, <6>2
          <5>3. CASE \E i \in Inodes : i = file[n] /\ sum[s] = Nothing
                                       /\ sum' = [sum EXCEPT ![s].ino = i]
            <6>1. PICK i \in Inodes : i = file[n] /\ sum[s] = Nothing
                                      /\ sum' = [sum EXCEPT ![s].ino = i]
              BY <5>3
            <6>2. sum'[s].ino = i /\ sum'[s].got = sum[s].got
              BY <6>1, SumSet DEF Types
            <6> QED
              BY <2>1, <4>2, <4>3, <6>1, <6>2
          <5> QED
            BY <4>1, <5>1, <5>2, <5>3
        <4>5. CASE toClient' = toClient
          BY <2>2, <3>1, <4>4, <4>5
        <4>6. ASSUME NEW pkt \in Answers,
                     pkt.ok => pkt.sum = sum[s].got /\ sum[s].ino # None /\ ~More(s),
                     toClient'[k] = toClient[k] \o <<pkt>>
              PROVE  Real(toClient'[k], s, n)
          <5>1. pkt.ok => pkt.sum = Whole(n)
            <6>1. ASSUME pkt.ok PROVE sum[s].got = Whole(n)
              <7>1. sum[s].ino = n /\ PartOf(sum[s].got, Whole(n)) /\ ~(Len(sum[s].got) < Len(Whole(n)))
                BY <2>1, <2>2, <4>6, <6>1 DEF More
              <7> QED
                BY <2>3, <7>1, PartIsWhole
            <6> QED
              BY <4>6, <6>1
          <5> QED
            BY <2>2, <2>3, <4>6, <5>1, RealGrows
        <4> QED
          BY <1>2, <2>10, <3>1, <3>3, <4>4, <4>5, <4>6, ReplyReal
      <3> QED
        BY <3>2, <3>3
    <2>11. CASE \E p \in Ops : ServeStep(p)
      BY <2>10, <2>11, <2>a
    <2> QED
      BY <2>4, <2>5, <2>7, <2>9, <2>11, Steps
  <1>3. \A n \in Names : Untouched(n)' => file'[n] = n /\ data'[n] = Whole(n)
    BY <1>1
  <1>4. \A s \in Ops : Kind(s)' = Kind(s) /\ Name(s)' = Name(s) /\ Conn(s)' = Conn(s)
    BY <1>k
  <1> QED
    BY <1>2, <1>3, <1>4 DEF Original, Real

\* What a get has, step by step.
LEMMA GottenKept == ASSUME Types, OneTaker, Gotten, Next PROVE Gotten'
  <1>w. what' = what
    BY WhatStays
  <1>d. DOMAIN dest' = Ops
    <2>1. ASSUME NEW p \in Ops, GetStep(p) PROVE DOMAIN dest' = DOMAIN dest
      BY <2>1 DEF GetStep, GetStart, GetChunk, GetCheck, GetFails
    <2>2. ASSUME NEW k \in Conns, LinkStep(k) PROVE dest' = dest
      BY <2>2, LinkFrame
    <2>3. ASSUME NEW p \in Ops, Request(p) \/ SendStep(p) PROVE dest' = dest
      BY <2>3, RequestFrame, SendFrame
    <2>4. ASSUME NEW p \in Ops,
                 ServeStep(p) \/ Hash(p) \/ TransferStep(p) \/ ReceiveStep(p)
          PROVE  dest' = dest
      BY <2>4, ServeFrame, HashFrame, TransferFrame, ReceiveFrame DEF client
    <2>5. DOMAIN dest' = DOMAIN dest
      BY <2>1, <2>2, <2>3, <2>4, Steps, Zenon
    <2> QED
      BY <2>5 DEF Gotten
  <1> SUFFICES ASSUME NEW p \in Ops PROVE Got(p)'
    BY <1>d DEF Gotten
  <1>k. Kind(p)' = Kind(p)
    BY <1>w, WhatKept
  <1>g. Got(p) /\ DOMAIN dest = Ops
    BY DEF Gotten
  <1>1. ASSUME answer'[p] = answer[p], dest'[p] = dest[p],
               \/ pc'[p] = pc[p]
               \/ pc[p] \in {"idle", "wait"} /\ pc'[p] \in {"wait", "failed"}
               \/ /\ Kind(p) = "send" /\ pc[p] \in {"stream", "copy"}
                  /\ pc'[p] \in {"copy", "ok", "failed"}
        PROVE  Got(p)'
    BY <1>1, <1>g, <1>k DEF Got
  <1>2. ASSUME NEW k \in Conns, Dispatch(k) PROVE Got(p)'
    <2>1. PICK q \in Ops, pkt \in Answers :
             /\ pc[q] = "wait" /\ answer'[q] = pkt
             /\ pc'[q] = IF ~pkt.ok THEN "failed" ELSE IF Kind(q) = "list" THEN "ok" ELSE "stream"
             /\ \A r \in Ops : r # q => answer'[r] = answer[r] /\ pc'[r] = pc[r]
             /\ dest' = dest
      BY <1>2, DispatchEffect
    <2>2. CASE q # p
      BY <1>1, <2>1, <2>2
    <2>3. CASE q = p
      <3>1. Kind(p) = "get" => dest[p] = None
        BY <1>g, <2>1, <2>3 DEF Got
      <3>2. pc'[p] = "stream" => pkt.ok
        BY <2>1, <2>3
      <3>3. pc'[p] \in {"failed", "stream"} \/ (pc'[p] = "ok" /\ Kind(p) # "get")
        BY <2>1, <2>3
      <3> QED
        BY <1>g, <1>k, <2>1, <2>3, <3>1, <3>2, <3>3 DEF Got
    <2> QED
      BY <2>2, <2>3
  <1>3. ASSUME NEW k \in Conns, DispatchEnd(k) \/ LinkDown(k) \/ ServeEnds(k) PROVE Got(p)'
    <2>1. /\ UNCHANGED <<answer, dest>>
          /\ pc'[p] = pc[p] \/ (pc[p] = "wait" /\ pc'[p] = "failed")
      BY <1>3 DEF DispatchEnd, LinkDown, ServeEnds, client, Types, WireTypes
    <2> QED
      BY <1>1, <2>1
  <1>4. ASSUME NEW q \in Ops, Request(q) PROVE Got(p)'
    <2>1. /\ UNCHANGED <<answer, dest>>
          /\ pc'[p] = pc[p] \/ (pc[p] = "idle" /\ pc'[p] \in {"wait", "failed"})
      BY <1>4 DEF Request, Go, Types, WireTypes
    <2> QED
      BY <1>1, <2>1
  <1>5. ASSUME NEW q \in Ops, SendStep(q) PROVE Got(p)'
    <2>1. UNCHANGED <<answer, dest>>
      BY <1>5, SendFrame
    <2>2. \/ pc'[p] = pc[p]
          \/ p = q /\ Kind(p) = "send" /\ pc[p] \in {"stream", "copy"}
             /\ pc'[p] \in {"copy", "ok", "failed"}
      BY <1>5, SendEffect
    <2> QED
      BY <1>1, <2>1, <2>2
  <1>6. ASSUME NEW q \in Ops, GetStep(q), q # p PROVE Got(p)'
    <2>1. answer' = answer /\ pc'[p] = pc[p]
      BY <1>6, GetFrame
         DEF GetStep, GetStart, GetChunk, GetCheck, GetFails, Go, Types, WireTypes
    <2>2. dest'[p] = dest[p]
      BY <1>6, <1>g DEF GetStep, GetStart, GetChunk, GetCheck, GetFails
    <2> QED
      BY <1>1, <2>1, <2>2
  <1>7. ASSUME GetStep(p) PROVE Got(p)'
    <2>1. answer' = answer /\ Kind(p) = "get" /\ pc[p] \in {"stream", "copy"}
      BY <1>7, GetFrame DEF GetStep, GetStart, GetChunk, GetCheck, GetFails
    <2>2. answer[p].ok /\ answer[p] \in Answers
      BY <1>g, <2>1, Streaming DEF Got
    <2>3. PICK z \in 0..Size : z = answer[p].size
      BY <2>2 DEF Answers
    <2>4. CASE pc'[p] = "failed" /\ dest'[p] = None
      BY <1>k, <2>1, <2>4, <1>g DEF Got
    <2>5. CASE GetStart(p)
      <3>1. \/ pc'[p] = "copy" /\ dest'[p] = <<>>
            \/ pc'[p] = "failed" /\ dest'[p] = dest[p] /\ dest[p] = None
        BY <1>g, <2>5 DEF GetStart, Go, Got, Types, WireTypes
      <3>2. <<>> \in Seq(Items) /\ Len(<<>>) = 0 /\ 0 <= z /\ 0 <= Size
        BY <2>3 DEF Size
      <3> QED
        BY <1>k, <2>1, <2>2, <2>3, <2>4, <3>1, <3>2 DEF Got
    <2>6. CASE GetChunk(p)
      <3>1. /\ pc[p] = "copy" /\ pc' = pc /\ Len(dest[p]) < z /\ flow[Stream(p)] # <<>>
            /\ dest' = [dest EXCEPT ![p] = Append(@, Head(flow[Stream(p)]))]
        BY <2>3, <2>6 DEF GetChunk
      <3>2. dest[p] \in Seq(Items)
        BY <1>g, <2>1, <3>1 DEF Got
      <3>3. Head(flow[Stream(p)]) \in Items
        BY <2>1, <3>1, Streaming, Taken DEF Types, WireTypes
      <3>4. PICK d \in Seq(Items) : d = Append(dest[p], Head(flow[Stream(p)]))
                                    /\ Len(d) = Len(dest[p]) + 1
        <4>1. PICK q \in Seq(Items), x \in Items : q = dest[p] /\ x = Head(flow[Stream(p)])
          BY <3>2, <3>3
        <4>2. Append(q, x) \in Seq(Items) /\ Len(Append(q, x)) = Len(q) + 1
          BY Queued
        <4> QED
          BY <4>1, <4>2
      <3>5. Len(d) <= z /\ Len(d) <= Size
        <4>1. PICK l \in Nat : l = Len(dest[p])
          BY <3>2, LenProperties
        <4> QED
          BY <2>3, <3>1, <3>4, <4>1 DEF Size
      <3>6. dest'[p] = d
        BY <1>g, <3>1, <3>4
      <3> QED
        BY <1>k, <2>1, <2>2, <2>3, <3>1, <3>4, <3>5, <3>6 DEF Got
    <2>7. CASE GetCheck(p)
      <3>1. \/ pc'[p] = "ok" /\ dest'[p] = dest[p] /\ dest[p] = answer[p].sum
            \/ pc'[p] = "failed" /\ dest' = [dest EXCEPT ![p] = None]
        BY <2>7 DEF GetCheck, ChecksumOK, Go, Types, WireTypes
      <3>2. CASE pc'[p] = "ok" /\ dest'[p] = dest[p] /\ dest[p] = answer[p].sum
        BY <1>g, <1>k, <2>1, <2>2, <3>2 DEF Got
      <3> QED
        BY <1>g, <2>4, <3>1, <3>2
    <2>8. CASE GetFails(p)
      <3>1. pc'[p] = "failed" /\ dest' = [dest EXCEPT ![p] = None]
        BY <2>8 DEF GetFails, Go, Types, WireTypes
      <3> QED
        BY <1>g, <2>4, <3>1
    <2> QED
      BY <1>7, <2>5, <2>6, <2>7, <2>8 DEF GetStep
  <1>8. ASSUME NEW q \in Ops,
               ServeStep(q) \/ Hash(q) \/ TransferStep(q) \/ ReceiveStep(q)
        PROVE  UNCHANGED client
    BY <1>8, ServeFrame, HashFrame, TransferFrame, ReceiveFrame
  <1> QED
    BY <1>1, <1>2, <1>3, <1>4, <1>5, <1>6, <1>7, <1>8, Steps DEF LinkStep, client
-----------------------------------------------------------------------------
(* Who looks after a file.                                                 *)

Looks(p, i) == Writes(p, i) \/ Checks(p, i)
Kempt(i) == data[i] \in Contents \/ \E p \in Ops : Looks(p, i)

\* A file stays looked after if the one who takes a step goes on with it, or
\* leaves it whole.
LEMMA KemptStays ==
    ASSUME what' = what, NEW p \in Ops, NEW i, Kempt(i), data'[i] = data[i],
           \A q \in Ops : q # p => task'[q] = task[q] /\ fd'[q] = fd[q] /\ sum'[q] = sum[q],
           Looks(p, i) => Looks(p, i)' \/ data[i] \in Contents
    PROVE  Kempt(i)'
  <1>1. Contents' = Contents /\ \A q : Kind(q)' = Kind(q)
    BY WhatKept DEF Contents, Whole
  <1>2. ASSUME NEW q \in Ops, q # p, Looks(q, i) PROVE Looks(q, i)'
    BY <1>1, <1>2 DEF Looks, Writes, Checks
  <1>3. CASE data[i] \in Contents
    BY <1>1, <1>3 DEF Kempt
  <1>4. CASE \E q \in Ops : Looks(q, i)
    BY <1>1, <1>2, <1>4 DEF Kempt
  <1> QED
    BY <1>3, <1>4 DEF Kempt

\* Nor does one who looks after nothing matter, or no one.
LEMMA KemptAlone ==
    ASSUME what' = what, NEW i, Kempt(i), UNCHANGED <<task, fd, sum, data>>
    PROVE  Kempt(i)'
  <1>1. Contents' = Contents /\ \A q : Kind(q)' = Kind(q)
    BY WhatKept DEF Contents, Whole
  <1> QED
    BY <1>1 DEF Kempt, Looks, Writes, Checks

\* Whoever looks after a file has it under its name.
LEMMA LooksName ==
    ASSUME Types, OfName, NEW p \in Ops, NEW i \in Inodes, Looks(p, i)
    PROVE  Kind(p) = "send" /\ task[p] \in {"copy", "check"} /\ Named(i) = Name(p)
  <1>1. Kind(p) \in {"get", "send", "list"}
    BY WhatTypes DEF Types, KindTypes
  <1> QED
    BY <1>1, InodeTypes DEF Looks, Writes, Checks, OfName, Types, KindTypes, KindOf

\* What was verified is whole.
LEMMA VerifiedWhole ==
    ASSUME Types, Lines, NEW p \in Ops, NEW i \in Inodes, Checks(p, i), ~More(p), Verified(p),
           Kind(p) = "send"
    PROVE  data[i] \in Contents
  <1>1. sum[p].got \in Seq(Chunks) /\ data[i] \in Seq(Chunks)
    BY DEF Types, DiskTypes
  <1>2. PartOf(sum[p].got, data[i]) /\ ~(Len(sum[p].got) < Len(data[i]))
    BY InodeTypes DEF Checks, More
  <1>3. data[i] = Whole(told[p])
    BY <1>1, <1>2, PartIsWhole DEF Verified
  <1>4. told[p] \in Told
    BY DEF Checks, Lines, Line, Begun, Types, DiskTypes
  <1> QED
    BY <1>3, <1>4 DEF Told, Contents

\* Files are looked after.
LEMMA LookedAfterKept ==
    ASSUME Types, OnePlace, Lines, OfName, LookedAfter, Next PROVE LookedAfter'
  <1>w. what' = what
    BY WhatStays
  <1>k. \A p \in Ops : /\ Name(p) \in Names /\ Kind(p) \in {"get", "send", "list"}
                       /\ Kind(p)' = Kind(p)
    BY <1>w, WhatKept, WhatTypes DEF Types, KindTypes
  <1> SUFFICES ASSUME NEW n \in Names, NEW i, i = file'[n], i # None PROVE Kempt(i)'
    BY DEF LookedAfter, Kempt, Looks
  <1>o. i = file[n] => Kempt(i) /\ i \in Inodes /\ Named(i) = n
    BY DEF LookedAfter, Kempt, Looks, Types, DiskTypes, OfName
  <1>1. CASE UNCHANGED <<task, fd, sum, data, file>>
    BY <1>o, <1>w, <1>1, KemptAlone
  <1>2. ASSUME NEW p \in Ops, Kind(p) # "send" \/ task[p] \notin {"copy", "check"},
               file' = file, data' = data,
               \A q \in Ops : q # p => task'[q] = task[q] /\ fd'[q] = fd[q] /\ sum'[q] = sum[q]
        PROVE  Kempt(i)'
    <2>1. ~Looks(p, i)
      BY <1>2, <1>o, LooksName
    <2> QED
      BY <1>2, <1>o, <1>w, <2>1, KemptStays
  <1>3. ASSUME NEW p \in Ops, ServeStep(p) PROVE Kempt(i)'
    <2>1. UNCHANGED <<file, data, fd>>
      BY <1>3, ServeFrame DEF disk, transfer
    <2>2. \A q \in Ops : q # p => task'[q] = task[q] /\ sum'[q] = sum[q]
      <3>1. \A q \in Ops : q # p => task'[q] = task[q]
        <4>1. task' = task \/ \E t : task' = [task EXCEPT ![p] = t]
          BY <1>3, ServeEffect
        <4> QED
          BY <4>1 DEF Types, DiskTypes
      <3>2. \A q \in Ops : q # p => sum'[q] = sum[q]
        BY <1>3, ServeEffect, SumSet DEF Types
      <3> QED
        BY <3>1, <3>2
    <2>3. CASE HandleSend(p)
      <3>1. task[p] \notin Begun
        BY <2>3, Fresh DEF HandleSend
      <3> QED
        BY <1>2, <2>1, <2>2, <3>1 DEF Begun
    <2>4. CASE ~HandleSend(p)
      <3>1. Kind(p) # "send"
        BY <1>3, <2>4 DEF ServeStep, HandleGet, GetOpen, GetReply, HandleList
      <3> QED
        BY <1>2, <2>1, <2>2, <3>1
    <2> QED
      BY <2>3, <2>4
  <1>4. ASSUME NEW p \in Ops, TransferStep(p) PROVE Kempt(i)'
    <2>1. UNCHANGED <<file, data, sum>> /\ Kind(p) = "get"
      BY <1>4, TransferFrame DEF disk, TransferStep, TransferOpen, TransferChunk, TransferEnd
    <2>2. \A q \in Ops : q # p => task'[q] = task[q] /\ fd'[q] = fd[q]
      BY <1>4 DEF TransferStep, TransferOpen, TransferChunk, TransferEnd, Do, Close, Types, DiskTypes
    <2> QED
      BY <1>2, <2>1, <2>2
  <1>5. ASSUME NEW p \in Ops, Hash(p) PROVE Kempt(i)'
    <2>1. UNCHANGED <<file, data, task, fd>>
      BY <1>5, HashFrame DEF disk, transfer
    <2>2. /\ sum'[p].ino = sum[p].ino
          /\ sum'[p].got = Append(sum[p].got, data[sum[p].ino][Len(sum[p].got) + 1])
          /\ Len(sum[p].got) + 1 \in 1..Len(data[sum[p].ino])
          /\ \A q \in Ops : q # p => sum'[q] = sum[q]
      BY <1>5, HashEffect
    <2>3. i = file[n]
      BY <2>1
    <2>4. Looks(p, i) => Looks(p, i)'
      <3>1. CASE Writes(p, i)
        BY <1>k, <2>1, <3>1 DEF Looks, Writes
      <3>2. CASE Checks(p, i)
        <4>1. /\ task[p] = "check" /\ sum[p].ino = i /\ PartOf(sum[p].got, data[i])
              /\ sum[p].got \in Seq(Chunks) /\ data[i] \in Seq(Chunks)
          BY <1>o, <2>3, <3>2 DEF Checks, Types, DiskTypes
        <4>2. PartOf(Append(sum[p].got, data[i][Len(sum[p].got) + 1]), data[i])
          BY <2>2, <4>1, PartGrows
        <4> QED
          BY <2>1, <2>2, <4>1, <4>2 DEF Looks, Checks, PartOf
      <3> QED
        BY <3>1, <3>2 DEF Looks
    <2> QED
      BY <1>o, <1>w, <2>1, <2>2, <2>3, <2>4, KemptStays
  <1>6. ASSUME NEW p \in Ops, ReceiveStep(p) PROVE Kempt(i)'
    <2>1. CASE ReceiveInfo(p) \/ ReceiveGivesUp(p)
      <3>1. UNCHANGED <<file, data, fd, sum>> /\ task[p] \notin {"copy", "check"}
        BY <2>1 DEF ReceiveInfo, ReceiveGivesUp, disk
      <3>2. \A q \in Ops : q # p => task'[q] = task[q]
        BY <2>1 DEF ReceiveInfo, ReceiveGivesUp, Do, Types, DiskTypes
      <3> QED
        BY <1>2, <3>1, <3>2
    <2>2. CASE ReceiveCreate(p)
      <3>1. PICK j \in Inodes :
              /\ j = IF file[Name(p)] = None THEN p ELSE file[Name(p)]
              /\ fd' = [fd EXCEPT ![p] = j] /\ file' = [file EXCEPT ![Name(p)] = j]
              /\ data' = [data EXCEPT ![j] = <<>>] /\ task' = [task EXCEPT ![p] = "copy"]
              /\ UNCHANGED <<sum, told, at>> /\ task[p] = "create" /\ Kind(p) = "send"
        BY <2>2, CreateEffect
      <3>2. CASE n = Name(p)
        <4>1. i = j /\ task'[p] = "copy" /\ fd'[p] = i
          BY <3>1, <3>2 DEF Types, DiskTypes
        <4>2. Looks(p, i)'
          BY <1>k, <3>1, <4>1 DEF Looks, Writes
        <4> QED
          BY <4>2 DEF Kempt
      <3>3. CASE n # Name(p)
        <4>1. i = file[n] /\ \A q \in Ops : q # p => task'[q] = task[q] /\ fd'[q] = fd[q]
          BY <3>1, <3>3 DEF Types, DiskTypes
        <4>2. Named(j) = Name(p)
          <5>1. p \notin Names
            BY FileAssumption
          <5> QED
            BY <1>k, <3>1, <5>1 DEF OfName, Named
        <4>3. j # i
          BY <1>o, <3>3, <4>1, <4>2
        <4>4. data'[i] = data[i]
          BY <1>o, <3>1, <4>1, <4>3 DEF Types, DiskTypes
        <4>5. ~Looks(p, i)
          BY <1>o, <3>1, <4>1, LooksName
        <4> QED
          BY <1>o, <1>w, <3>1, <4>1, <4>4, <4>5, KemptStays
      <3> QED
        BY <3>2, <3>3
    <2>3. CASE ReceiveChunk(p)
      <3>1. PICK d \in Seq(Chunks) :
              /\ fd[p] \in Inodes /\ Kind(p) = "send" /\ task[p] = "copy"
              /\ data' = [data EXCEPT ![fd[p]] = d] /\ UNCHANGED <<sum, task, told, fd, file>>
        BY <2>3, ChunkEffect
      <3>2. CASE fd[p] = i
        <4>1. Looks(p, i)'
          BY <1>k, <3>1, <3>2 DEF Looks, Writes
        <4> QED
          BY <4>1 DEF Kempt
      <3>3. CASE fd[p] # i
        <4>1. data'[i] = data[i] /\ i = file[n]
          BY <1>o, <3>1, <3>3 DEF Types, DiskTypes
        <4>2. ~Checks(p, i) /\ ~Writes(p, i)
          BY <3>1, <3>3 DEF Checks, Writes
        <4> QED
          BY <1>o, <1>w, <3>1, <4>1, <4>2, KemptStays DEF Looks
      <3> QED
        BY <3>2, <3>3
    <2>4. CASE ReceiveFails(p)
      <3>1. /\ Kind(p) = "send" /\ UNCHANGED <<data, sum>>
            /\ file' = [file EXCEPT ![Name(p)] = None]
        BY <2>4 DEF ReceiveFails, Unlink
      <3>2. n # Name(p) /\ i = file[n]
        BY <3>1 DEF Types, DiskTypes
      <3>3. \A q \in Ops : q # p => task'[q] = task[q] /\ fd'[q] = fd[q]
        BY <2>4 DEF ReceiveFails, Do, Close, Types, DiskTypes
      <3>4. ~Looks(p, i)
        BY <1>o, <3>2, LooksName
      <3> QED
        BY <1>o, <1>w, <3>1, <3>2, <3>3, <3>4, KemptStays
    <2>5. CASE ReceiveHash(p)
      <3>1. /\ Kind(p) = "send" /\ task[p] = "copy"
            /\ fd' = [fd EXCEPT ![p] = None] /\ UNCHANGED <<file, data>> /\ sum[p] = Nothing
            /\ \/ file[Name(p)] = None /\ task' = [task EXCEPT ![p] = "end"] /\ sum' = sum
               \/ /\ task' = [task EXCEPT ![p] = "check"]
                  /\ sum' = [sum EXCEPT ![p].ino = file[Name(p)]] /\ file[Name(p)] \in Inodes
        BY <2>5, HashBegins
      <3>2. \A q \in Ops : q # p => task'[q] = task[q] /\ fd'[q] = fd[q] /\ sum'[q] = sum[q]
        BY <3>1, SumSet DEF Types, DiskTypes
      <3>3. CASE n # Name(p)
        <4>1. ~Looks(p, i)
          BY <1>o, <3>1, <3>3, LooksName
        <4> QED
          BY <1>o, <1>w, <3>1, <3>2, <4>1, KemptStays
      <3>4. CASE n = Name(p)
        <4>1. /\ task'[p] = "check" /\ sum'[p].ino = i /\ sum'[p].got = <<>>
              /\ i \in Inodes
          BY <3>1, <3>4, SumSet DEF Types, DiskTypes, Nothing
        <4>2. PartOf(<<>>, data[i])
          BY <4>1, LenProperties DEF PartOf, Types, DiskTypes
        <4>3. Looks(p, i)'
          BY <3>1, <4>1, <4>2 DEF Looks, Checks, PartOf
        <4> QED
          BY <4>3 DEF Kempt
      <3> QED
        BY <3>3, <3>4
    <2>6. CASE ReceiveCheck(p)
      <3>1. /\ Kind(p) = "send" /\ task[p] = "check" /\ ~More(p)
            /\ task' = [task EXCEPT ![p] = "end"] /\ sum' = [sum EXCEPT ![p] = Nothing]
            /\ UNCHANGED <<fd, data>>
            /\ \/ Verified(p) /\ file' = file
               \/ file' = [file EXCEPT ![Name(p)] = None]
        BY <2>6, CheckEffect
      <3>2. \A q \in Ops : q # p => task'[q] = task[q] /\ sum'[q] = sum[q]
        <4>1. None \in Inodes \cup {None}
          OBVIOUS
        <4> QED
          BY <3>1, <4>1, SumSet DEF Types, DiskTypes
      <3>3. CASE Verified(p) /\ file' = file
        <4>1. Looks(p, i) => data[i] \in Contents
          BY <1>o, <3>1, <3>3, VerifiedWhole DEF Looks, Writes
        <4> QED
          BY <1>o, <1>w, <3>1, <3>2, <3>3, <4>1, KemptStays
      <3>4. CASE file' = [file EXCEPT ![Name(p)] = None]
        <4>1. n # Name(p) /\ i = file[n]
          BY <3>4 DEF Types, DiskTypes
        <4>2. ~Looks(p, i)
          BY <1>o, <4>1, LooksName
        <4> QED
          BY <1>o, <1>w, <3>1, <3>2, <4>1, <4>2, KemptStays
      <3> QED
        BY <3>1, <3>3, <3>4
    <2> QED
      BY <1>6, <2>1, <2>2, <2>3, <2>4, <2>5, <2>6 DEF ReceiveStep
  <1>7. ASSUME \/ \E k \in Conns : LinkStep(k)
               \/ \E p \in Ops : Request(p) \/ GetStep(p) \/ SendStep(p)
        PROVE  UNCHANGED <<task, fd, sum, data, file>>
    BY <1>7, ClientFrame DEF transfer, disk
  <1> QED
    BY <1>1, <1>3, <1>4, <1>5, <1>6, <1>7, Steps
-----------------------------------------------------------------------------
(* Altogether.                                                             *)

\* The beginning.
LEMMA InitTypes == ASSUME Init PROVE Types
  <1>1. 0 \in 0..Size /\ <<>> \in Seq(Chunks) /\ Len(<<>>) <= Size
    BY DEF Size
  <1>2. WireTypes
    BY <1>1 DEF Init, WireTypes
  <1>3. DiskTypes
    <2>1. \A i \in Names : Whole(i) \in Seq(Chunks) /\ Len(Whole(i)) = Size
      BY WholeType
    <2>2. Size <= Size
      BY DEF Size
    <2>3. data \in [Inodes -> Seq(Chunks)] /\ \A i \in Inodes : Len(data[i]) <= Size
      <3>1. \A i \in Inodes : data[i] = IF i \in Names THEN Whole(i) ELSE <<>>
        BY DEF Init
      <3>2. \A i \in Inodes : data[i] \in Seq(Chunks) /\ Len(data[i]) <= Size
        BY <1>1, <2>1, <2>2, <3>1
      <3> QED
        BY <3>2 DEF Init
    <2>4. Nothing \in [ino : Inodes \cup {None}, got : Seq(Chunks)]
      BY DEF Nothing
    <2> QED
      BY <1>1, <2>3, <2>4 DEF Init, DiskTypes, Inodes
  <1>4. KindTypes
    <2>1. \A p \in Ops : handler[Conn(p)] # p
      BY WhatTypes, FileAssumption DEF Init
    <2> QED
      BY <2>1 DEF Init, KindTypes, KindOf
  <1> QED
    BY <1>2, <1>3, <1>4 DEF Types

LEMMA InitInv == ASSUME Init PROVE Inv
  <1>1. Types
    BY InitTypes
  <1>c. \A p \in Ops : Conn(p) \in Conns /\ Name(p) \in Names
    BY <1>1, WhatTypes DEF Types, KindTypes
  <1>2. \A p, s \in Ops : ~Has(p, s)
    BY DEF Init, Has
  <1>3. \A s \in Ops : ~Requested(s) /\ ~Handled(s) /\ ~Answering(s) /\ ~Answered(s)
    <2>1. ASSUME NEW s \in Ops PROVE ~Requested(s) /\ ~Answering(s)
      <3>1. toServer[Conn(s)] = <<>> /\ toClient[Conn(s)] = <<>>
        BY <1>c DEF Init
      <3> QED
        BY <3>1 DEF Requested, Answering, In, InFor
    <2>2. ASSUME NEW s \in Ops PROVE ~Handled(s)
      BY <1>c, FileAssumption DEF Init, Handled
    <2> QED
      BY <1>2, <2>1, <2>2 DEF Answered
  <1>4. OnePlace
    <2>1. \A k \in Conns : toServer[k] = <<>> /\ toClient[k] = <<>>
      BY DEF Init
    <2>2. \A s \in Ops : Once(toServer[Conn(s)], s) /\ OnceFor(toClient[Conn(s)], s)
      BY <1>c, <2>1 DEF Once, OnceFor
    <2> QED
      BY <1>3, <2>1, <2>2 DEF OnePlace, Homes, One
  <1>5. OneTaker
    BY <1>2 DEF Init, OneTaker
  <1>6. Lines
    BY <1>2 DEF Init, Lines, Line, Begun
  <1>7. OfName
    BY InodeTypes DEF Init, OfName, Nothing
  <1>8. Original
    <2>1. \A n \in Names : file[n] = n /\ data[n] = Whole(n)
      BY DEF Init, Inodes
    <2>2. \A s \in Ops : sum[s].ino = None /\ toClient[Conn(s)] = <<>>
      BY <1>c DEF Init, Nothing
    <2> QED
      BY <1>2, <2>1, <2>2 DEF Original
  <1>9. Gotten
    BY DEF Init, Gotten, Got
  <1>10. LookedAfter
    BY DEF Init, LookedAfter, Contents, Inodes
  <1> QED
    BY <1>1, <1>4, <1>5, <1>6, <1>7, <1>8, <1>9, <1>10 DEF Inv

\* A step.
LEMMA InvKept == ASSUME Inv, [Next]_vars PROVE Inv'
  <1>1. CASE Next
    <2>1. Types'
      BY <1>1, WireKept, DiskKept, KindKept DEF Inv, Types
    <2>2. OnePlace' /\ OneTaker' /\ Lines' /\ OfName'
      BY <1>1, OnePlaceKept, OneTakerKept, LinesKept, OfNameKept DEF Inv
    <2>3. Original' /\ Gotten' /\ LookedAfter'
      BY <1>1, OriginalKept, GottenKept, LookedAfterKept DEF Inv
    <2> QED
      BY <2>1, <2>2, <2>3 DEF Inv
  <1>2. CASE UNCHANGED vars
    <2>1. \A p : Kind(p)' = Kind(p) /\ Conn(p)' = Conn(p) /\ Name(p)' = Name(p) /\ Told' = Told
      BY <1>2, WhatKept DEF vars
    <2> USE <1>2 DEF vars, net, client, serving, transfer, disk
    <2>2. Types'
      BY <2>1 DEF Inv, Types, WireTypes, DiskTypes, KindTypes, KindOf
    <2>3. /\ \A s : Requested(s)' = Requested(s) /\ Handled(s)' = Handled(s)
          /\ \A s : Answering(s)' = Answering(s) /\ Answered(s)' = Answered(s)
          /\ \A p, s : Has(p, s)' = Has(p, s)
      BY <2>1 DEF Requested, Handled, Answering, Answered, Has
    <2>4. OnePlace'
      BY <2>1, <2>3 DEF Inv, OnePlace, Homes, One
    <2>5. OneTaker'
      BY <2>1, <2>3 DEF Inv, OneTaker, Stream, Kind, Conn
    <2>6. Lines'
      BY <2>1, <2>3 DEF Inv, Lines, Line
    <2>7. OfName'
      BY <2>1 DEF Inv, OfName, Named
    <2>8. Original'
      BY <2>1, <2>3 DEF Inv, Original, Untouched
    <2>9. Gotten'
      BY <2>1 DEF Inv, Gotten, Got
    <2>10. LookedAfter'
      BY <2>1 DEF Inv, LookedAfter, Writes, Checks, Contents
    <2> QED
      BY <2>2, <2>4, <2>5, <2>6, <2>7, <2>8, <2>9, <2>10 DEF Inv
  <1> QED
    BY <1>1, <1>2

(***************************************************************************)
(* The inductive invariant: requests and answers are each in one place,    *)
(* streams carry what their reader expects, and a file that is not whole   *)
(* has one who looks after it.                                             *)
(***************************************************************************)
THEOREM FileTransferInv == Spec => []Inv
  <1> QED
    BY InitInv, InvKept, PTL DEF Spec

(***************************************************************************)
(* The types of the state, and no file longer than what was sent.          *)
(***************************************************************************)
THEOREM FileTransferTypeCorrect == Spec => []TypeOK
  <1>1. ASSUME Inv PROVE TypeOK
    <2>1. told \in [Ops -> Ops \cup Names \cup {None}]
      <3>1. Told \subseteq Ops \cup Names
        BY <1>1, WhatTypes DEF Inv, Types, KindTypes, Told
      <3> QED
        BY <1>1, <3>1 DEF Inv, Types, DiskTypes
    <2>2. \A i \in Inodes : Len(data[i]) <= Size /\ \A j \in 1..Len(data[i]) : data[i][j] \in Chunks
      <3>1. ASSUME NEW i \in Inodes
            PROVE  Len(data[i]) <= Size /\ \A j \in 1..Len(data[i]) : data[i][j] \in Chunks
        <4>1. data[i] \in Seq(Chunks) /\ Len(data[i]) <= Size
          BY <1>1 DEF Inv, Types, DiskTypes
        <4> QED
          BY <4>1
      <3> QED
        BY <3>1
    <2>3. \A p \in Ops : dest[p] # None => Len(dest[p]) <= Size
      BY <1>1 DEF Inv, Gotten, Got
    <2>4. \A p \in Ops : answer[p] # None => answer[p].for \in Ops
      BY <1>1 DEF Inv, Types, WireTypes, Answers
    <2> QED
      BY <1>1, <2>1, <2>2, <2>3, <2>4 DEF TypeOK, Inv, Types, WireTypes, DiskTypes
  <1> QED
    BY <1>1, FileTransferInv, PTL

(***************************************************************************)
(* A file that nobody is receiving into is whole, or not there             *)
(* (receiveFile, with any number of sends of one name).                    *)
(***************************************************************************)
THEOREM FilesWhole == Spec => []RestIsWhole
  <1>1. ASSUME Inv PROVE RestIsWhole
    <2> SUFFICES ASSUME NEW n \in Names, file[n] # None, data[file[n]] \notin Contents
                 PROVE  Receiving(n)
      BY DEF RestIsWhole
    <2>1. PICK p \in Ops : Looks(p, file[n])
      BY <1>1 DEF Inv, LookedAfter, Looks
    <2>2. file[n] \in Inodes /\ Named(file[n]) = n
      BY <1>1 DEF Inv, Types, DiskTypes, OfName
    <2>3. Kind(p) = "send" /\ task[p] \in {"copy", "check"} /\ Named(file[n]) = Name(p)
      BY <1>1, <2>1, <2>2, LooksName DEF Inv
    <2> QED
      BY <2>2, <2>3 DEF Receiving
  <1> QED
    BY <1>1, FileTransferInv, PTL

(***************************************************************************)
(* A get that succeeds leaves a whole file, unless the file was being      *)
(* received; one that fails leaves none; and no two operations have one    *)
(* stream (Client.Get, and the matchers of SendRequest).                   *)
(***************************************************************************)
THEOREM GetsReal == Spec => []GetReal
  <1>1. ASSUME Inv PROVE GetReal
    <2>1. ASSUME NEW p \in Ops, Kind(p) = "get", pc[p] = "failed" PROVE dest[p] = None
      BY <1>1, <2>1 DEF Inv, Gotten, Got
    <2>2. ASSUME NEW p \in Ops, Kind(p) = "get", pc[p] = "ok"
          PROVE  \/ dest[p] \in Contents
                 \/ \E q \in Ops : Kind(q) = "send" /\ Name(q) = Name(Stream(p)) /\ told[q] # None
      <3>1. dest[p] = answer[p].sum /\ answer[p].ok
        BY <1>1, <2>2 DEF Inv, Gotten, Got
      <3>2. answer[p] # None /\ answer[p] \in Answers
        BY <1>1, <2>2 DEF Inv, OneTaker, Types, WireTypes
      <3>3. Stream(p) \in Ops /\ Has(p, Stream(p)) /\ Kind(Stream(p)) = "get"
        BY <1>1, <2>2, <3>2 DEF Inv, OneTaker, Stream, Has, Answers
      <3>4. Name(Stream(p)) \in Names
        BY <1>1, <3>3, WhatTypes DEF Inv, Types, KindTypes
      <3>5. CASE Untouched(Name(Stream(p)))
        BY <1>1, <3>1, <3>3, <3>4, <3>5 DEF Inv, Original, Contents
      <3> QED
        BY <3>5 DEF Untouched
    <2>3. ASSUME NEW p \in Ops, NEW q \in Ops, p # q, answer[p] # None, answer[q] # None
          PROVE  Stream(p) # Stream(q)
      <3>1. Stream(p) \in Ops
        BY <1>1, <2>3 DEF Inv, Types, WireTypes, Answers, Stream
      <3> QED
        BY <1>1, <2>3, <3>1 DEF Inv, OneTaker, Has, Stream
    <2> QED
      BY <2>1, <2>2, <2>3 DEF GetReal
  <1> QED
    BY <1>1, FileTransferInv, PTL
=============================================================================
