---------------------------- MODULE FileTransfer ----------------------------
(***************************************************************************)
(* Files fetched from and sent to another device (file/service): clients   *)
(* with one or more operations on a connection, and a server per           *)
(* connection, all on one directory.  An operation asks over the control   *)
(* stream (as BaseService has it), the answer names a data stream, and the *)
(* file goes over that, checked against a checksum at the end.             *)
(*                                                                         *)
(* A file is a sequence of chunks, a chunk what one Read or Write moves.   *)
(* A checksum is the chunks it was computed from: sha256 tells them apart. *)
(* A directory entry names an inode; an open file is an inode and an       *)
(* offset, as os.Create truncates a file others have open and os.Remove    *)
(* leaves it to them.  The data streams of StreamReader are queues here    *)
(* that never fill (10000 frames); on a connection that is down what is    *)
(* queued may be read or lost.  What a sender reads locally stays as it    *)
(* is.  Directories are left out, and what List answers with.              *)
(***************************************************************************)
EXTENDS Integers, Sequences

CONSTANTS Ops,      \* operations of clients
          Names,    \* files of the server
          None,
          Conns,    \* connections
          Cases     \* bounds: per case, what each operation is: its kind, its
                    \* connection, the file it names and the content it sends

Size == 2
Whole(c) == [i \in 1..Size |-> <<c, i>>]
Hole == <<None, 0>>

Chunks == ((Ops \cup Names) \X (1..Size)) \cup {Hole}

\* Answers: for which request, and of a get the size and the checksum.
Answers == [for : Ops, ok : BOOLEAN, size : 0..Size, sum : Seq(Chunks)]

ASSUME FileAssumption ==
    /\ None \notin Ops \cup Names \cup Conns \cup Answers
    /\ Ops \cap Names = {} /\ Ops \cap {"none", "off"} = {}
    /\ \A case \in Cases : case \in
         [Ops -> [kind : {"get", "send", "list"}, conn : Conns, name : Names, content : Ops \cup Names]]

VARIABLES
    what,      \* one of Cases
    link,      \* per connection: up, down
    toServer,  \* per connection: requests on their way, by operation
    toClient,  \* and answers
    \* per operation, client
    pc,        \* idle, wait, stream, copy, ok, failed
    answer,    \* the answer it took: for which request, size, sum; or None
    dest,      \* get: the local file, or None
    sent,      \* send: chunks written to the stream
    \* server, per connection: the handler Serve is in
    handler,   \* none, off (Serve has ended), or the operation it handles
    \* server, per operation
    size,      \* get: what Stat said
    sum,       \* the checksum being computed: the inode and what was read of it
    flow,      \* its data stream: what was sent and not read
    task,      \* transferFile: off, open, copy, end;
               \* receiveFile: off, info, create, copy, check, end
    told,      \* receiveFile: the content of the info line, or None
    fd, at,    \* its open file: inode or None, and offset
    \* the server's directory
    file,      \* per name: inode or None
    data       \* per inode: its chunks

client == <<pc, answer, dest, sent>>
net == <<link, toServer, toClient>>
serving == <<handler, size>>
transfer == <<task, told, fd, at>>
disk == <<file, data>>
vars == <<what, net, client, serving, sum, flow, transfer, disk>>

Kind(p) == what[p].kind
Conn(p) == what[p].conn
Name(p) == what[p].name
Inodes == Ops \cup Names     \* a file made by an operation, one there before

Nothing == [ino |-> None, got |-> <<>>]

Init ==
    /\ what \in Cases
    /\ link = [k \in Conns |-> "up"]
    /\ toServer = [k \in Conns |-> <<>>] /\ toClient = [k \in Conns |-> <<>>]
    /\ pc = [p \in Ops |-> "idle"] /\ answer = [p \in Ops |-> None]
    /\ dest = [p \in Ops |-> None] /\ sent = [p \in Ops |-> 0]
    /\ handler = [k \in Conns |-> "none"] /\ size = [p \in Ops |-> 0]
    /\ sum = [p \in Ops |-> Nothing] /\ flow = [p \in Ops |-> <<>>]
    /\ task = [p \in Ops |-> "off"] /\ told = [p \in Ops |-> None]
    /\ fd = [p \in Ops |-> None] /\ at = [p \in Ops |-> 0]
    /\ file = [n \in Names |-> n]
    /\ data = [i \in Inodes |-> IF i \in Names THEN Whole(i) ELSE <<>>]

Up(p) == link[Conn(p)] = "up"

\* A data stream has ended for its reader: EOF, or the connection is down.
Put(p, x) == flow' = IF Up(p) THEN [flow EXCEPT ![p] = Append(@, x)] ELSE flow
Eof == <<None, -1>>
-----------------------------------------------------------------------------
(* Client: the request and the answer.                                     *)

Go(p, where) == pc' = [pc EXCEPT ![p] = where]

Request(p) ==
    /\ pc[p] = "idle"
    /\ IF Up(p)
       THEN Go(p, "wait") /\ toServer' = [toServer EXCEPT ![Conn(p)] = Append(@, p)]
       ELSE Go(p, "failed") /\ UNCHANGED toServer
    /\ UNCHANGED <<what, link, toClient, answer, dest, sent, serving, sum, flow, transfer, disk>>

\* The Matchers compare the type only: any request of the answer's type that
\* is pending may get it.
BugMatchesAll(p, pkt) == TRUE
Match(p, pkt) == Kind(p) = Kind(pkt.for)

Dispatch(k) ==
    /\ toClient[k] # <<>>
    /\ toClient' = [toClient EXCEPT ![k] = Tail(@)]
    /\ LET pkt == Head(toClient[k])
       IN  \E p \in Ops :
             /\ pc[p] = "wait" /\ Conn(p) = k /\ Match(p, pkt)
             /\ answer' = [answer EXCEPT ![p] = pkt]
             /\ Go(p, IF ~pkt.ok THEN "failed" ELSE IF Kind(p) = "list" THEN "ok" ELSE "stream")
    /\ UNCHANGED <<what, link, toServer, dest, sent, serving, sum, flow, transfer, disk>>

\* failAllPending.
DispatchEnd(k) ==
    /\ link[k] = "down" /\ \E p \in Ops : Conn(p) = k /\ pc[p] = "wait"
    /\ pc' = [p \in Ops |-> IF Conn(p) = k /\ pc[p] = "wait" THEN "failed" ELSE pc[p]]
    /\ toClient' = [toClient EXCEPT ![k] = <<>>]
    /\ UNCHANGED <<what, link, toServer, answer, dest, sent, serving, sum, flow, transfer, disk>>

Stream(p) == answer[p].for

\* A connection breaks, or its client closes it after the operation.
LinkDown(k) ==
    /\ link[k] = "up" /\ link' = [link EXCEPT ![k] = "down"]
    /\ UNCHANGED <<what, toServer, toClient, client, serving, sum, flow, transfer, disk>>
-----------------------------------------------------------------------------
(* Client.Get: the rest of it.                                             *)

\* GetOrCreateStream, which may find no stream on a connection that is down,
\* and os.Create.
GetStart(p) ==
    /\ pc[p] = "stream" /\ Kind(p) = "get"
    /\ \/ Go(p, "copy") /\ dest' = [dest EXCEPT ![p] = <<>>]
       \/ Go(p, "failed") /\ UNCHANGED dest
    /\ UNCHANGED <<what, net, answer, sent, serving, sum, flow, transfer, disk>>

\* io.CopyN: no more than the size the answer gave.
GetChunk(p) ==
    /\ pc[p] = "copy" /\ Kind(p) = "get" /\ Len(dest[p]) < answer[p].size
    /\ LET s == Stream(p)
       IN  /\ flow[s] # <<>> /\ Head(flow[s]) # Eof
           /\ dest' = [dest EXCEPT ![p] = Append(@, Head(flow[s]))]
           /\ flow' = [flow EXCEPT ![s] = Tail(@)]
    /\ UNCHANGED <<what, net, pc, answer, sent, serving, sum, transfer, disk>>

ChecksumOK(p) == dest[p] = answer[p].sum

\* All of it, or EOF, which is not taken for an error here: the checksum
\* decides.
GetCheck(p) ==
    /\ pc[p] = "copy" /\ Kind(p) = "get"
    /\ Len(dest[p]) = answer[p].size \/ (flow[Stream(p)] # <<>> /\ Head(flow[Stream(p)]) = Eof)
    /\ IF ChecksumOK(p) THEN Go(p, "ok") /\ UNCHANGED dest
       ELSE Go(p, "failed") /\ dest' = [dest EXCEPT ![p] = None]
    /\ UNCHANGED <<what, net, answer, sent, serving, sum, flow, transfer, disk>>

\* An error of the stream, or five minutes are over.
GetFails(p) ==
    /\ pc[p] = "copy" /\ Kind(p) = "get"
    /\ Go(p, "failed") /\ dest' = [dest EXCEPT ![p] = None]
    /\ UNCHANGED <<what, net, answer, sent, serving, sum, flow, transfer, disk>>
-----------------------------------------------------------------------------
(* Client.Send: the rest of it.  The stream is closed at the end.          *)

\* GetOrCreateStream, and the info line.
SendInfo(p) ==
    /\ pc[p] = "stream" /\ Kind(p) = "send"
    /\ IF Up(p) THEN Go(p, "copy") /\ Put(Stream(p), what[p].content)
                ELSE Go(p, "failed") /\ UNCHANGED flow
    /\ UNCHANGED <<what, net, answer, dest, sent, serving, sum, transfer, disk>>

SendChunk(p) ==
    /\ pc[p] = "copy" /\ Kind(p) = "send" /\ sent[p] < Size /\ Up(p)
    /\ Put(Stream(p), Whole(what[p].content)[sent[p] + 1])
    /\ sent' = [sent EXCEPT ![p] = @ + 1]
    /\ UNCHANGED <<what, net, pc, answer, dest, serving, sum, transfer, disk>>

\* Everything is written; whether it arrives is not known.
SendDone(p) ==
    /\ pc[p] = "copy" /\ Kind(p) = "send" /\ sent[p] = Size
    /\ Go(p, "ok") /\ Put(Stream(p), Eof)
    /\ UNCHANGED <<what, net, answer, dest, sent, serving, sum, transfer, disk>>

\* A write fails, or the local file, or five minutes are over, be it only now
\* that all is written.
SendFails(p) ==
    /\ pc[p] = "copy" /\ Kind(p) = "send"
    /\ Go(p, "failed") /\ Put(Stream(p), Eof)
    /\ UNCHANGED <<what, net, answer, dest, sent, serving, sum, transfer, disk>>
-----------------------------------------------------------------------------
(* Server: Serve and the handlers.                                         *)

Takes(k, p) == handler[k] = "none" /\ toServer[k] # <<>> /\ Head(toServer[k]) = p

Refusal(p) == [for |-> p, ok |-> FALSE, size |-> 0, sum |-> <<>>]
Offer(p, n, s) == [for |-> p, ok |-> TRUE, size |-> n, sum |-> s]

BugSilent(p) == <<>>
Refused(p) == <<Refusal(p)>>

\* The handler is done with its answer; Serve ends if it cannot be sent.
Reply(p, pkts) ==
    /\ handler' = [handler EXCEPT ![Conn(p)] = IF Up(p) THEN "none" ELSE "off"]
    /\ toClient' = IF Up(p) THEN [toClient EXCEPT ![Conn(p)] = @ \o pkts] ELSE toClient

\* handleGet: Stat, ...
HandleGet(p) ==
    /\ Kind(p) = "get" /\ Takes(Conn(p), p)
    /\ toServer' = [toServer EXCEPT ![Conn(p)] = Tail(@)]
    /\ IF file[Name(p)] = None THEN Reply(p, Refused(p)) /\ UNCHANGED size
       ELSE /\ handler' = [handler EXCEPT ![Conn(p)] = p]
            /\ size' = [size EXCEPT ![p] = Len(data[file[Name(p)]])]
            /\ UNCHANGED toClient
    /\ UNCHANGED <<what, link, client, sum, flow, transfer, disk>>

\* ... calculateChecksum opens the file, ...
GetOpen(p) ==
    /\ Kind(p) = "get" /\ handler[Conn(p)] = p /\ sum[p] = Nothing
    /\ IF file[Name(p)] = None THEN Reply(p, Refused(p)) /\ UNCHANGED sum
       ELSE sum' = [sum EXCEPT ![p].ino = file[Name(p)]] /\ UNCHANGED <<handler, toClient>>
    /\ UNCHANGED <<what, link, toServer, client, size, flow, transfer, disk>>

\* (a Read of calculateChecksum, here and in receiveFile)
More(p) == sum[p].ino # None /\ Len(sum[p].got) < Len(data[sum[p].ino])

Hash(p) ==
    /\ More(p) /\ (handler[Conn(p)] = p \/ task[p] = "check")
    /\ sum' = [sum EXCEPT ![p].got = Append(@, data[sum[p].ino][Len(@) + 1])]
    /\ UNCHANGED <<what, net, client, serving, flow, transfer, disk>>

\* ... the stream, the answer, and transferFile's goroutine.
GetReply(p) ==
    /\ Kind(p) = "get" /\ handler[Conn(p)] = p /\ sum[p].ino # None /\ ~More(p)
    /\ Reply(p, <<Offer(p, size[p], sum[p].got)>>)
    /\ task' = [task EXCEPT ![p] = IF Up(p) THEN "open" ELSE "end"]
    /\ sum' = [sum EXCEPT ![p] = Nothing] /\ size' = [size EXCEPT ![p] = 0]
    /\ UNCHANGED <<what, link, toServer, client, flow, told, fd, at, disk>>

\* handleSend: the directory may be unwritable; else the stream, the answer,
\* and receiveFile's goroutine.
HandleSend(p) ==
    /\ Kind(p) = "send" /\ Takes(Conn(p), p)
    /\ toServer' = [toServer EXCEPT ![Conn(p)] = Tail(@)]
    /\ \/ Reply(p, Refused(p)) /\ UNCHANGED task
       \/ /\ Reply(p, <<Offer(p, 0, <<>>)>>)
          /\ task' = [task EXCEPT ![p] = IF Up(p) THEN "info" ELSE "end"]
    /\ UNCHANGED <<what, link, client, size, sum, flow, told, fd, at, disk>>

\* handleList: what is there, or an error.
HandleList(p) ==
    /\ Kind(p) = "list" /\ Takes(Conn(p), p)
    /\ toServer' = [toServer EXCEPT ![Conn(p)] = Tail(@)]
    /\ \/ Reply(p, Refused(p)) \/ Reply(p, <<Offer(p, 0, <<>>)>>)
    /\ UNCHANGED <<what, link, client, size, sum, flow, transfer, disk>>

ServeEnds(k) ==
    /\ handler[k] = "none" /\ link[k] = "down"
    /\ handler' = [handler EXCEPT ![k] = "off"]
    /\ toServer' = [toServer EXCEPT ![k] = <<>>]
    /\ UNCHANGED <<what, link, toClient, client, size, sum, flow, transfer, disk>>
-----------------------------------------------------------------------------
(* Server: transferFile, with five minutes' time.                          *)

Do(p, where) == task' = [task EXCEPT ![p] = where]
Close(p) == fd' = [fd EXCEPT ![p] = None] /\ at' = [at EXCEPT ![p] = 0]

TransferOpen(p) ==
    /\ Kind(p) = "get" /\ task[p] = "open"
    /\ IF file[Name(p)] = None THEN Do(p, "end") /\ Put(p, Eof) /\ UNCHANGED fd
       ELSE Do(p, "copy") /\ fd' = [fd EXCEPT ![p] = file[Name(p)]] /\ UNCHANGED flow
    /\ UNCHANGED <<what, net, client, serving, sum, told, at, disk>>

TransferChunk(p) ==
    /\ Kind(p) = "get" /\ task[p] = "copy" /\ at[p] < Len(data[fd[p]]) /\ Up(p)
    /\ Put(p, data[fd[p]][at[p] + 1])
    /\ at' = [at EXCEPT ![p] = @ + 1]
    /\ UNCHANGED <<what, net, client, serving, sum, task, told, fd, disk>>

\* All is sent, or an error, or five minutes are over: the reader is told the
\* same.
TransferEnd(p) ==
    /\ Kind(p) = "get" /\ task[p] = "copy"
    /\ Do(p, "end") /\ Put(p, Eof) /\ Close(p)
    /\ UNCHANGED <<what, net, client, serving, sum, told, disk>>
-----------------------------------------------------------------------------
(* Server: receiveFile.                                                    *)

\* os.Remove of the path, whichever file it names by now.
Unlink(p) == file' = [file EXCEPT ![Name(p)] = None]

ReceiveInfo(p) ==
    /\ task[p] = "info" /\ flow[p] # <<>> /\ Head(flow[p]) # Eof
    /\ told' = [told EXCEPT ![p] = Head(flow[p])]
    /\ flow' = [flow EXCEPT ![p] = Tail(@)]
    /\ Do(p, "create")
    /\ UNCHANGED <<what, net, client, serving, sum, fd, at, disk>>

\* EOF or an error instead of the info, 30 seconds without it, or a file that
\* cannot be created.
ReceiveGivesUp(p) ==
    /\ task[p] \in {"info", "create"}
    /\ Do(p, "end")
    /\ UNCHANGED <<what, net, client, serving, sum, flow, told, fd, at, disk>>

\* os.Create truncates the file if it is there.
ReceiveCreate(p) ==
    /\ task[p] = "create"
    /\ LET ino == IF file[Name(p)] = None THEN p ELSE file[Name(p)]
       IN  /\ fd' = [fd EXCEPT ![p] = ino]
           /\ file' = [file EXCEPT ![Name(p)] = ino]
           /\ data' = [data EXCEPT ![ino] = <<>>]
    /\ Do(p, "copy")
    /\ UNCHANGED <<what, net, client, serving, sum, flow, told, at>>

BugAppends(d, i, x) == Append(d, x)

\* A write at the offset, beyond the end if another has truncated the file.
Written(d, i, x) == [j \in 1..(IF i > Len(d) THEN i ELSE Len(d)) |->
                        IF j = i THEN x ELSE IF j <= Len(d) THEN d[j] ELSE Hole]

ReceiveChunk(p) ==
    /\ Kind(p) = "send" /\ task[p] = "copy" /\ at[p] < Size
    /\ flow[p] # <<>> /\ Head(flow[p]) # Eof
    /\ flow' = [flow EXCEPT ![p] = Tail(@)]
    /\ data' = [data EXCEPT ![fd[p]] = Written(@, at[p] + 1, Head(flow[p]))]
    /\ at' = [at EXCEPT ![p] = @ + 1]
    /\ UNCHANGED <<what, net, client, serving, sum, task, told, fd, file>>

\* EOF or an error before the end, or five minutes are over: select may take
\* that although the copy has finished meanwhile.
ReceiveFails(p) ==
    /\ Kind(p) = "send" /\ task[p] = "copy"
    /\ Do(p, "end") /\ Close(p) /\ Unlink(p)
    /\ UNCHANGED <<what, net, client, serving, sum, flow, told, data>>

\* It is all there, and calculateChecksum opens the path again.
ReceiveHash(p) ==
    /\ Kind(p) = "send" /\ task[p] = "copy" /\ at[p] = Size
    /\ IF file[Name(p)] = None THEN Do(p, "end") /\ UNCHANGED sum
       ELSE Do(p, "check") /\ sum' = [sum EXCEPT ![p].ino = file[Name(p)]]
    /\ Close(p)
    /\ UNCHANGED <<what, net, client, serving, flow, told, disk>>

BugTrustsItself(p) == TRUE
Verified(p) == sum[p].got = Whole(told[p])

ReceiveCheck(p) ==
    /\ task[p] = "check" /\ ~More(p)
    /\ Do(p, "end")
    /\ IF Verified(p) THEN UNCHANGED file ELSE Unlink(p)
    /\ sum' = [sum EXCEPT ![p] = Nothing]
    /\ UNCHANGED <<what, net, client, serving, flow, told, fd, at, data>>
-----------------------------------------------------------------------------
ClientStep(p) == GetStart(p) \/ GetChunk(p) \/ GetCheck(p) \/ SendInfo(p)
                 \/ SendChunk(p) \/ SendDone(p)
HandlerStep(k) == ServeEnds(k) \/ \E p \in Ops : Conn(p) = k /\
                    (HandleGet(p) \/ GetOpen(p) \/ (handler[k] = p /\ Hash(p)) \/ GetReply(p)
                     \/ HandleSend(p) \/ HandleList(p))
TaskStep(p) == TransferOpen(p) \/ TransferChunk(p) \/ TransferEnd(p) \/ ReceiveInfo(p)
               \/ ReceiveCreate(p) \/ ReceiveChunk(p) \/ ReceiveHash(p)
               \/ (task[p] = "check" /\ Hash(p)) \/ ReceiveCheck(p)
Fails(p) == GetFails(p) \/ SendFails(p) \/ ReceiveGivesUp(p) \/ ReceiveFails(p)

Next ==
    \/ \E k \in Conns : Dispatch(k) \/ DispatchEnd(k) \/ LinkDown(k) \/ HandlerStep(k)
    \/ \E p \in Ops : Request(p) \/ ClientStep(p) \/ TaskStep(p) \/ Fails(p)

Spec == Init /\ [][Next]_vars

(***************************************************************************)
(* Goroutines that can go on do, and the timers of the client's and the    *)
(* server's copies run out.  SendRequest has no timer: that an operation   *)
(* gets an answer rests on the server.                                     *)
(***************************************************************************)
FairSpec ==
    /\ Spec
    /\ \A k \in Conns : WF_vars(Dispatch(k) \/ DispatchEnd(k)) /\ WF_vars(HandlerStep(k))
    /\ \A p \in Ops : WF_vars(ClientStep(p) \/ GetFails(p) \/ SendFails(p))
                      /\ WF_vars(TaskStep(p) \/ ReceiveGivesUp(p) \/ ReceiveFails(p))
-----------------------------------------------------------------------------
\* Types; no file has more chunks than the longest that was sent.
TypeOK ==
    /\ link \in [Conns -> {"up", "down"}] /\ handler \in [Conns -> Ops \cup {"none", "off"}]
    /\ pc \in [Ops -> {"idle", "wait", "stream", "copy", "ok", "failed"}]
    /\ task \in [Ops -> {"off", "open", "info", "create", "copy", "check", "end"}]
    /\ file \in [Names -> Inodes \cup {None}] /\ fd \in [Ops -> Inodes \cup {None}]
    /\ told \in [Ops -> Ops \cup Names \cup {None}]
    /\ \A i \in Inodes : Len(data[i]) <= Size /\ \A j \in 1..Len(data[i]) : data[i][j] \in Chunks
    /\ \A p \in Ops : /\ sent[p] \in 0..Size /\ at[p] \in 0..Size /\ size[p] \in 0..Size
                      /\ dest[p] # None => Len(dest[p]) <= Size
                      /\ answer[p] # None => answer[p].for \in Ops

Contents == {Whole(n) : n \in Names} \cup {Whole(what[p].content) : p \in Ops}
Receiving(n) == \E p \in Ops : Kind(p) = "send" /\ Name(p) = n /\ task[p] \in {"copy", "check"}

(***************************************************************************)
(* When nothing is being received into a file, it is there as a whole or   *)
(* not at all: however many sends named it at once, through whichever      *)
(* connections, and wherever each of them failed.                          *)
(***************************************************************************)
RestIsWhole ==
    \A n \in Names : file[n] = None \/ Receiving(n) \/ data[file[n]] \in Contents

(***************************************************************************)
(* A Get leaves a file only if it succeeds, and then a whole file of the   *)
(* server, unless that was being sent to meanwhile.  Operations that were  *)
(* pending at once may have taken each other's answers, but no two have    *)
(* the same stream.                                                        *)
(***************************************************************************)
GetReal ==
    /\ \A p \in Ops : Kind(p) = "get" /\ pc[p] \in {"ok", "failed"} =>
         IF pc[p] = "failed" THEN dest[p] = None
         ELSE \/ dest[p] \in Contents
              \/ \E q \in Ops : Kind(q) = "send" /\ Name(q) = Name(Stream(p)) /\ told[q] # None
    /\ \A p, q \in Ops : p # q /\ answer[p] # None /\ answer[q] # None => Stream(p) # Stream(q)

(***************************************************************************)
(* Every operation ends, and so does every goroutine of the server, though *)
(* requests have no timeout, files change or disappear under the server's  *)
(* hands, and connections break at any point.                              *)
(***************************************************************************)
Quiet(p) == pc[p] \in {"idle", "ok", "failed"} /\ task[p] \in {"off", "end"}

TransfersEnd == []<>(\A p \in Ops : Quiet(p))
=============================================================================
