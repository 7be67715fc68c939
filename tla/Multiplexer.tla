---------------------------- MODULE Multiplexer ----------------------------
(***************************************************************************)
(* One end of a multiplexed connection (type Multiplexer of                *)
(* multiplexer.go): the map of streams, the frames written to and read     *)
(* from the connection, and the goroutines that share them: readLoop, and  *)
(* workers that open, write, close and look up streams or close the whole  *)
(* multiplexer.  GetOrCreateStream of BaseClient, the one compound         *)
(* operation on the map, is here too.                                      *)
(*                                                                         *)
(* A stream's receiving half is taken at the level of Pipe, which          *)
(* StreamReader implements: WriteData and Read are single steps here.      *)
(* A frame is its stream ID and whether it is empty (EOF).  The guards     *)
(* against HTTP data on stream 0 are the frame kind "bad".                 *)
(***************************************************************************)
EXTENDS Integers, Sequences, FiniteSets, FiniteSetsExt

CONSTANTS Tasks,     \* worker goroutines
          None,      \* no task, no stream
          MaxID,     \* MaxStreamID: IDs are integers modulo MaxID + 1
          Cap,       \* capacity of a stream's dataChan
          MaxObjs,   \* bound: streams ever created
          MaxIn,     \* bound: frames the peer sends
          MaxOut     \* bound: parts of frames in out when a worker begins one

ASSUME MuxAssumption ==
    /\ None \notin Tasks /\ None \notin Nat
    /\ MaxID \in Nat \ {0} /\ Cap \in Nat \ {0} /\ MaxObjs \in Nat \ {0}
    /\ MaxIn \in Nat /\ MaxOut \in Nat

VARIABLES
    streams,   \* Multiplexer.streams: ID -> stream object or None
    nextID,    \* Multiplexer.nextID
    closed,    \* Multiplexer.closed
    obj,       \* the stream objects created so far
    conn,      \* the connection: up, or failed or closed
    out,       \* what has been written to the connection
    writeMu,   \* who holds Multiplexer.writeMu
    task,      \* per worker: where it is (pc), the stream (at) and the ID (id)
               \* it works on, the streams it still closes (todo), and where it
               \* goes on after a nested Stream.Close (back)
    rl,        \* where readLoop is
    frame,     \* the frame readLoop has
    rlObj,     \* the stream readLoop delivers it to
    returned,  \* history: a call of Multiplexer.Close has returned
    nIn,       \* frames taken from the connection (bound)
    cut        \* readLoop ended without notifying the streams

map   == <<streams, nextID>>
wire  == <<out, writeMu>>
rloop == <<rl, frame, rlObj, nIn, cut>>
vars == <<map, closed, obj, conn, wire, task, rloop, returned>>

Ids == 0..MaxID
Objs == 1..Len(obj)
Live(id) == streams[id] # None

\* newStream: told is history, "a Read has something to return for good".
NewStream(id) == [id |-> id, q |-> <<>>, rclosed |-> FALSE, told |-> FALSE,
                  sclosed |-> FALSE, wclosed |-> FALSE, sMu |-> None, swMu |-> None]

Idle == [pc |-> "idle", at |-> 1, id |-> 0, todo |-> {}, back |-> "idle"]
NoFrame == [id |-> 0, kind |-> "eof"]

\* NewMultiplexer, then ControlStream as NewBaseClient and NewBaseServer do.
Init ==
    /\ streams = [id \in Ids |-> IF id = 0 THEN 1 ELSE None]
    /\ nextID = 1 /\ closed = FALSE
    /\ obj = <<NewStream(0)>>
    /\ conn = "up" /\ out = <<>> /\ writeMu = None
    /\ task = [t \in Tasks |-> Idle]
    /\ rl = "header" /\ frame = NoFrame /\ rlObj = 1
    /\ nIn = 0 /\ cut = FALSE /\ returned = FALSE

pc(t) == task[t].pc
at(t) == task[t].at
Set(t, new) == task' = [task EXCEPT ![t] = new]
Go(t, where) == Set(t, IF where = "idle" THEN Idle ELSE [task[t] EXCEPT !.pc = where])
-----------------------------------------------------------------------------
(* The map of streams.                                                     *)

Create(id) ==
    /\ Len(obj) < MaxObjs
    /\ obj' = Append(obj, NewStream(id))
    /\ streams' = [streams EXCEPT ![id] = Len(obj) + 1]

\* The ID that OpenStream's loop tests after k rounds; it skips 0 on wrapping.
Probe(k) == IF nextID + k <= MaxID THEN nextID + k
            ELSE ((nextID + k - MaxID - 1) % MaxID) + 1

BugNoWrap(id) == id + 1
After(id) == (id + 1) % (MaxID + 1)

BugTakesNextID == 0
FreeRound == Min({k \in Ids : ~Live(Probe(k))})

\* With every ID in use the code's loop never ends: here OpenStream waits.
OpenStream ==
    /\ ~closed
    /\ \E k \in Ids : ~Live(Probe(k))
    /\ LET id == Probe(FreeRound)
       IN  Create(id) /\ nextID' = After(id)
    /\ UNCHANGED <<closed, conn, wire, task, rloop, returned>>

\* nextID moves past an ID taken by request, and wraps.
OpenWithID(id) ==
    /\ ~closed /\ id # 0 /\ ~Live(id)
    /\ Create(id)
    /\ nextID' = IF id >= nextID THEN After(id) ELSE nextID

OpenStreamWithID(id) == OpenWithID(id) /\ UNCHANGED <<closed, conn, wire, task, rloop, returned>>
-----------------------------------------------------------------------------
(* writeData: the check of closed, then header and payload under writeMu.  *)

\* Stream.Write takes the writer's lock for the whole call.
Write(t, o) ==
    /\ pc(t) = "idle" /\ Len(out) < MaxOut
    /\ obj[o].swMu = None /\ ~obj[o].wclosed /\ ~closed
    /\ obj' = [obj EXCEPT ![o].swMu = t]
    /\ Set(t, [Idle EXCEPT !.pc = "wLock", !.at = o])
    /\ UNCHANGED <<map, closed, conn, out, writeMu, rloop, returned>>

\* After writeData: Write gives its lock back, Stream.Close goes on.
WriteDone(t) ==
    IF pc(t) \in {"wLock", "wBody"}
    THEN obj' = [obj EXCEPT ![at(t)].swMu = None] /\ Go(t, "idle")
    ELSE Go(t, "cMark") /\ UNCHANGED obj

BugNoWriteLock == TRUE
WriteMuFree == writeMu = None

\* The header; an EOF frame has no payload, so it is complete with it.
WriteHeader(t) ==
    /\ pc(t) \in {"wLock", "cEof"} /\ WriteMuFree
    /\ LET eof == pc(t) = "cEof"
       IN  IF conn = "down"
           THEN WriteDone(t) /\ UNCHANGED <<out, writeMu>>
           ELSE /\ out' = Append(out, [part |-> IF eof THEN "eof" ELSE "header",
                                       id |-> obj[at(t)].id])
                /\ IF eof THEN WriteDone(t) /\ UNCHANGED writeMu
                   ELSE writeMu' = t /\ Go(t, "wBody") /\ UNCHANGED obj
    /\ UNCHANGED <<map, closed, conn, rloop, returned>>

WritePayload(t) ==
    /\ pc(t) = "wBody"
    /\ out' = IF conn = "down" THEN out
              ELSE Append(out, [part |-> "payload", id |-> obj[at(t)].id])
    /\ writeMu' = None
    /\ WriteDone(t)
    /\ UNCHANGED <<map, closed, conn, rloop, returned>>
-----------------------------------------------------------------------------
(* Stream.Close, which holds the stream's lock while it closes the reader  *)
(* and then the writer: the EOF frame first, the closed flag after it.     *)

CloseBegin(t, o, rest, then) ==
    /\ obj[o].sMu = None
    /\ IF obj[o].sclosed
       THEN /\ Set(t, IF then = "idle" THEN Idle
                      ELSE [task[t] EXCEPT !.pc = then, !.todo = rest])
            /\ UNCHANGED obj
       ELSE /\ obj' = [obj EXCEPT ![o].sMu = t, ![o].sclosed = TRUE,
                                  ![o].rclosed = TRUE, ![o].told = TRUE]
            /\ Set(t, [task[t] EXCEPT !.pc = IF closed THEN "cMark" ELSE "cEof",
                                      !.at = o, !.todo = rest, !.back = then])

StreamClose(t, o) ==
    /\ pc(t) = "idle" /\ Len(out) < MaxOut
    /\ CloseBegin(t, o, {}, "idle")
    /\ UNCHANGED <<map, closed, conn, out, writeMu, rloop, returned>>

BugMarksAtOnce(o) == TRUE
WriterFree(o) == obj[o].swMu = None

CloseMark(t) ==
    /\ pc(t) = "cMark" /\ WriterFree(at(t))
    /\ obj' = [obj EXCEPT ![at(t)].wclosed = TRUE, ![at(t)].sMu = None]
    /\ Go(t, task[t].back)
    /\ UNCHANGED <<map, closed, conn, wire, rloop, returned>>

\* CloseStream: out of the map first, then Stream.Close without the lock.
\* Its callers pass IDs of data streams, never 0.
CloseStream(t, id) ==
    /\ pc(t) = "idle" /\ Len(out) < MaxOut /\ id # 0 /\ Live(id)
    /\ streams' = [streams EXCEPT ![id] = None]
    /\ Set(t, [Idle EXCEPT !.pc = "sNext", !.at = streams[id]])
    /\ UNCHANGED <<nextID, closed, obj, conn, wire, rloop, returned>>

CloseNext(t) ==
    /\ pc(t) = "sNext"
    /\ CloseBegin(t, at(t), {}, task[t].back)
    /\ UNCHANGED <<map, closed, conn, out, writeMu, rloop, returned>>
-----------------------------------------------------------------------------
(* Multiplexer.Close: the snapshot, the connection, the streams, readLoop. *)

\* Close of a multiplexer that is closed already returns at once.
MuxCloseAgain(t) ==
    /\ pc(t) = "idle" /\ closed
    /\ returned' = TRUE
    /\ UNCHANGED <<map, closed, obj, conn, wire, task, rloop>>

MuxClose(t) ==
    /\ pc(t) = "idle" /\ ~closed
    /\ closed' = TRUE
    /\ Set(t, [Idle EXCEPT !.pc = "mConn",
                           !.todo = {streams[id] : id \in {i \in Ids : Live(i)}}])
    /\ UNCHANGED <<map, obj, conn, wire, rloop, returned>>

BugConnLeftOpen == conn
ConnClosed == "down"

MuxCloseConn(t) ==
    /\ pc(t) = "mConn"
    /\ conn' = ConnClosed
    /\ Go(t, "mNext")
    /\ UNCHANGED <<map, closed, obj, wire, rloop, returned>>

MuxCloseNext(t) ==
    /\ pc(t) = "mNext"
    /\ \E o \in task[t].todo : CloseBegin(t, o, task[t].todo \ {o}, "mNext")
    /\ UNCHANGED <<map, closed, conn, out, writeMu, rloop, returned>>

\* All closed; readLoop has ended, or five seconds have passed.
MuxCloseReturn(t) ==
    /\ pc(t) = "mNext" /\ task[t].todo = {}
    /\ Go(t, "idle")
    /\ returned' = TRUE
    /\ UNCHANGED <<map, closed, obj, conn, wire, rloop>>
-----------------------------------------------------------------------------
(* GetOrCreateStream of BaseClient: three separate uses of the map.        *)

GetOrCreateStream(t, id) ==
    /\ pc(t) = "idle" /\ id # 0
    /\ ~(Live(id) /\ ~obj[streams[id]].sclosed)
    /\ Set(t, [Idle EXCEPT !.pc = IF Live(id) THEN "gRemove" ELSE "gOpen", !.id = id])
    /\ UNCHANGED <<map, closed, obj, conn, wire, rloop, returned>>

\* CloseStream(streamID): whatever stream has the ID by now.
GetRemove(t) ==
    /\ pc(t) = "gRemove"
    /\ LET id == task[t].id
       IN  IF Live(id)
           THEN /\ streams' = [streams EXCEPT ![id] = None]
                /\ Set(t, [task[t] EXCEPT !.pc = "sNext", !.at = streams[id],
                                          !.back = "gOpen"])
           ELSE Go(t, "gOpen") /\ UNCHANGED streams
    /\ UNCHANGED <<nextID, closed, obj, conn, wire, rloop, returned>>

\* OpenStreamWithID, which fails if somebody created the stream meanwhile.
GetOpen(t) ==
    /\ pc(t) = "gOpen"
    /\ IF closed \/ Live(task[t].id) THEN UNCHANGED <<map, obj>> ELSE OpenWithID(task[t].id)
    /\ Go(t, "idle")
    /\ UNCHANGED <<closed, conn, wire, rloop, returned>>
-----------------------------------------------------------------------------
(* readLoop, and the peer that feeds it.                                   *)

ReadHeader(id, kind) ==
    /\ rl = "header" /\ conn = "up" /\ nIn < MaxIn
    /\ frame' = [id |-> id, kind |-> kind]
    /\ nIn' = nIn + 1
    /\ rl' = "data"
    /\ UNCHANGED <<map, closed, obj, conn, wire, task, rlObj, cut, returned>>

\* The read of a header fails: readLoop marks the multiplexer closed, ...
ReadHeaderError ==
    /\ rl = "header" /\ conn = "down"
    /\ closed' = TRUE
    /\ rl' = "notify"
    /\ UNCHANGED <<map, obj, conn, wire, task, frame, rlObj, nIn, cut, returned>>

BugNotifiesControlOnly(id) == id = 0
Notified(id) == TRUE

\* ... and gives every stream of the map the error.
Notify ==
    /\ rl = "notify"
    /\ obj' = [o \in Objs |->
                 IF \E id \in Ids : Notified(id) /\ streams[id] = o
                 THEN [obj[o] EXCEPT !.told = TRUE] ELSE obj[o]]
    /\ rl' = "done"
    /\ UNCHANGED <<map, closed, conn, wire, task, frame, rlObj, nIn, cut, returned>>

\* A payload that cannot be read, or that must not be: no stream is told.
ReadDataError ==
    /\ rl = "data" /\ frame.kind # "eof"
    /\ conn = "down" \/ frame.kind = "bad"
    /\ closed' = TRUE
    /\ rl' = "done" /\ cut' = TRUE
    /\ UNCHANGED <<map, obj, conn, wire, task, frame, rlObj, nIn, returned>>

\* The stream of the frame, created if the map has none.
ReadData ==
    /\ rl = "data" /\ frame.kind # "bad"
    /\ frame.kind = "eof" \/ conn = "up"
    /\ IF Live(frame.id)
       THEN rlObj' = streams[frame.id] /\ UNCHANGED <<streams, obj>>
       ELSE Create(frame.id) /\ rlObj' = Len(obj) + 1
    /\ rl' = "deliver"
    /\ UNCHANGED <<nextID, closed, conn, wire, task, frame, nIn, cut, returned>>

HasRoom(o) == Len(obj[o].q) < Cap

\* WriteData: dropped by a closed reader, blocks on a full one.
Deliver ==
    /\ rl = "deliver"
    /\ obj[rlObj].rclosed \/ HasRoom(rlObj)
    /\ obj' = IF obj[rlObj].rclosed THEN obj
              ELSE [obj EXCEPT ![rlObj].q = Append(@, frame.kind)]
    /\ rl' = "header" /\ frame' = NoFrame /\ rlObj' = 1
    /\ UNCHANGED <<map, closed, conn, wire, task, nIn, cut, returned>>

\* A consumer reads a frame; the EOF frame closes the reader.
Consume(o) ==
    /\ obj[o].q # <<>>
    /\ LET eof == Head(obj[o].q) = "eof"
       IN  obj' = [obj EXCEPT ![o].q = Tail(@), ![o].rclosed = @ \/ eof,
                              ![o].told = @ \/ eof]
    /\ UNCHANGED <<map, closed, conn, wire, task, rloop, returned>>

\* The network or the peer breaks the connection.
ConnFails ==
    /\ conn = "up"
    /\ conn' = "down"
    /\ UNCHANGED <<map, closed, obj, wire, task, rloop, returned>>
-----------------------------------------------------------------------------
TaskStep(t) ==
    \/ CloseMark(t) \/ CloseNext(t)
    \/ MuxCloseConn(t) \/ MuxCloseNext(t) \/ MuxCloseReturn(t)
    \/ GetRemove(t) \/ GetOpen(t)

WriteStep(t) == WriteHeader(t) \/ WritePayload(t)

Next ==
    \/ OpenStream
    \/ \E id \in Ids : OpenStreamWithID(id)
    \/ \E t \in Tasks :
         \/ \E o \in Objs : Write(t, o)
         \/ WriteHeader(t)
         \/ WritePayload(t)
         \/ \E o \in Objs : StreamClose(t, o)
         \/ CloseMark(t)
         \/ \E id \in Ids : CloseStream(t, id)
         \/ CloseNext(t)
         \/ MuxCloseAgain(t)
         \/ MuxClose(t)
         \/ MuxCloseConn(t)
         \/ MuxCloseNext(t)
         \/ MuxCloseReturn(t)
         \/ \E id \in Ids : GetOrCreateStream(t, id)
         \/ GetRemove(t)
         \/ GetOpen(t)
    \/ \E id \in Ids, kind \in {"data", "eof"} : ReadHeader(id, kind)
    \/ ReadHeader(0, "bad")
    \/ ReadHeaderError
    \/ Notify
    \/ ReadDataError
    \/ ReadData
    \/ Deliver
    \/ \E o \in Objs : Consume(o)
    \/ ConnFails

Spec == Init /\ [][Next]_vars

(***************************************************************************)
(* A goroutine that can go on does, with one exception: a write to the     *)
(* connection may block as long as the connection is up, because the peer  *)
(* need not read.  Consumers need not read either.                         *)
(***************************************************************************)
FairSpec ==
    /\ Spec
    /\ \A t \in Tasks : WF_vars(TaskStep(t)) /\ WF_vars(conn = "down" /\ WriteStep(t))
-----------------------------------------------------------------------------
PCs == {"idle", "wLock", "wBody", "cEof", "cMark", "sNext", "mConn", "mNext",
        "gRemove", "gOpen"}

\* Types; a dataChan never holds more than Cap frames, and the map names
\* stream objects of its own IDs.
TypeOK ==
    /\ \A id \in Ids : Live(id) => streams[id] \in Objs /\ obj[streams[id]].id = id
    /\ nextID \in Ids /\ closed \in BOOLEAN
    /\ \A o \in Objs :
         /\ obj[o].id \in Ids /\ Len(obj[o].q) <= Cap
         /\ obj[o].sMu \in Tasks \cup {None} /\ obj[o].swMu \in Tasks \cup {None}
    /\ writeMu \in Tasks \cup {None}
    /\ \A t \in Tasks : pc(t) \in PCs /\ at(t) \in Objs /\ task[t].todo \subseteq Objs
    /\ rl \in {"header", "data", "deliver", "notify", "done"}

(***************************************************************************)
(* Header and payload of a frame are next to each other on the connection, *)
(* whatever the writers of other streams, the EOF frames and Close do: the *)
(* peer's readLoop never takes payload for a header.                       *)
(***************************************************************************)
FramesIntact ==
    \A i \in 1..Len(out) :
       /\ out[i].part = "header" /\ i < Len(out) =>
             out[i + 1] = [out[i] EXCEPT !.part = "payload"]
       /\ out[i].part = "payload" =>
             i > 1 /\ out[i - 1] = [out[i] EXCEPT !.part = "header"]

(***************************************************************************)
(* ID 0 stays with the control stream: no wrap-around of nextID, stream    *)
(* created for an early frame or GetOrCreateStream gives it away.          *)
(***************************************************************************)
ControlKept == streams[0] = 1

(***************************************************************************)
(* A Write that is under way when its stream is closed is waited for: once *)
(* Stream.Close has marked the writer closed, nothing more of the stream   *)
(* goes out.                                                               *)
(***************************************************************************)
SilentAfterClose ==
    \A t \in Tasks : pc(t) \in {"wLock", "wBody"} => ~obj[at(t)].wclosed

(***************************************************************************)
(* When readLoop has ended at a frame boundary, no consumer of a stream in *)
(* the map waits for ever: it was given the error, or EOF, or was closed.  *)
(* Streams created by late frames while Close runs are covered too.        *)
(***************************************************************************)
EveryStreamTold ==
    rl = "done" /\ ~cut => \A id \in Ids : Live(id) => obj[streams[id]].told

(***************************************************************************)
(* Close always finishes, though writers may be stuck in writes to a peer  *)
(* that does not read, holding the locks that closing a stream needs.      *)
(***************************************************************************)
CloseCompletes ==
    \A t \in Tasks : pc(t) \in {"mConn", "mNext"} ~> pc(t) = "idle"

(***************************************************************************)
(* The comment of Close: "Close closes the multiplexer and all streams".   *)
(* A multiplexer whose readLoop has failed is closed already, and Close    *)
(* then returns without closing a stream or the connection.                *)
(***************************************************************************)
CloseClosesAll ==
    returned /\ (\A t \in Tasks : pc(t) \notin {"mConn", "mNext"}) =>
       conn = "down" /\ \A id \in Ids : Live(id) => obj[streams[id]].sclosed
=============================================================================
