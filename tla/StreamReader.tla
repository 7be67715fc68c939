---------------------------- MODULE StreamReader ----------------------------
(***************************************************************************)
(* The receiving half of one multiplexed stream (type streamReader of      *)
(* multiplexer.go) and the three goroutines that touch it:                 *)
(*   - the multiplexer's readLoop, which calls WriteData for every frame   *)
(*     of the stream and WriteError when the connection fails;             *)
(*   - one consumer that calls Read;                                       *)
(*   - one goroutine that calls Close (Stream.Close lets only one through).*)
(* Each action is one critical section or one channel operation of the     *)
(* code, so that every interleaving of the three is a behaviour.           *)
(*                                                                         *)
(* Bytes are named by their position in the stream, and a frame or a slice *)
(* is a pair [lo, hi) of positions: the zero-length frame that marks EOF   *)
(* is a frame with lo = hi.                                                *)
(***************************************************************************)
EXTENDS Integers, Sequences

CONSTANTS Cap,        \* capacity of dataChan (10000 in the code)
          MaxFrame,   \* bound: bytes in a frame
          MaxRead,    \* bound: length of the slice a caller of Read passes
          MaxBytes,   \* bound: bytes the peer sends
          MaxMarkers  \* bound: EOF markers the peer sends

ASSUME ConstantsAssumption ==
    /\ Cap \in Nat \ {0}
    /\ MaxFrame \in Nat \ {0}
    /\ MaxRead \in Nat \ {0}
    /\ MaxBytes \in Nat
    /\ MaxMarkers \in Nat

VARIABLES
    dataChan,    \* frames queued between WriteData and Read
    chanClosed,  \* close(dataChan) has happened
    errChan,     \* the error queued in errChan (capacity 1), or "empty"
    closed,      \* streamReader.closed
    eofReceived, \* streamReader.eofReceived
    buffer,      \* streamReader.buffer, what is left of a frame
    wire,        \* bytes of the stream readLoop has taken from the connection
    markers,     \* EOF markers readLoop has taken from the connection
    late,        \* readLoop took a frame after an EOF marker
    rl,          \* where readLoop is
    inflight,    \* the frame readLoop is about to send on dataChan
    rd,          \* where Read is
    rest,        \* the part of a frame Read is about to save in buffer
    ret,         \* the last thing Read returned
    pos,         \* position after the last byte Read returned
    count,       \* number of bytes all calls of Read returned
    closer,      \* where Close is
    panic        \* why the process died, if it did

reader == <<rd, rest, ret, pos, count>>
loop   == <<rl, inflight, wire, markers, late>>
chan   == <<dataChan, chanClosed, errChan>>
vars == <<chan, closed, eofReceived, buffer, reader, loop, closer, panic>>

Frame == [lo : Nat, hi : Nat]
Slice(lo, hi) == [lo |-> lo, hi |-> hi]
Size(f) == f.hi - f.lo

\* A zero-length frame is the peer's EOF.
BugShortFrameIsEof(f) == Size(f) <= 1
IsMarker(f) == Size(f) = 0

Init ==
    /\ dataChan = <<>> /\ chanClosed = FALSE /\ errChan = "empty"
    /\ closed = FALSE /\ eofReceived = FALSE
    /\ buffer = Slice(0, 0)
    /\ wire = 0 /\ markers = 0 /\ late = FALSE
    /\ rl = "idle" /\ inflight = Slice(0, 0)
    /\ rd = "idle" /\ rest = Slice(0, 0) /\ ret = "none"
    /\ pos = 0 /\ count = 0
    /\ closer = "idle"
    /\ panic = "none"

Alive == panic = "none"
-----------------------------------------------------------------------------
(* WriteData, called by readLoop with a frame of n bytes.                  *)

\* The check of closed under the lock; the send comes later, without it.
WriteDataCheck(n) ==
    /\ Alive /\ rl = "idle"
    /\ IF n = 0 THEN markers < MaxMarkers ELSE wire + n <= MaxBytes
    /\ wire' = wire + n
    /\ markers' = IF n = 0 THEN markers + 1 ELSE markers
    /\ late' = (late \/ markers > 0)
    /\ IF closed
       THEN UNCHANGED <<rl, inflight, eofReceived>>
       ELSE /\ rl' = "send"
            /\ inflight' = Slice(wire, wire + n)
            /\ eofReceived' = (eofReceived \/ n = 0)
    /\ UNCHANGED <<chan, closed, buffer, reader, closer, panic>>

BugNoCapacity == TRUE
HasRoom == Len(dataChan) < Cap

\* sr.dataChan <- data: blocks while full, panics once the channel is closed.
WriteDataSend ==
    /\ Alive /\ rl = "send"
    /\ \/ /\ chanClosed
          /\ panic' = "send on closed channel"
          /\ UNCHANGED <<dataChan, rl>>
       \/ /\ ~chanClosed /\ HasRoom
          /\ dataChan' = Append(dataChan, inflight)
          /\ rl' = "idle"
          /\ UNCHANGED panic
    /\ UNCHANGED <<chanClosed, errChan, closed, eofReceived, buffer, reader,
                   inflight, wire, markers, late, closer>>

\* What io.ReadFull may report between two frames: io.EOF when the connection
\* ended cleanly, any other error when it failed.
ReadErrors == {"eof", "err"}

\* readLoop reports the end of the connection and ends.
WriteError(e) ==
    /\ Alive /\ rl = "idle"
    /\ rl' = IF e = "eof" THEN "ended" ELSE "failed"
    /\ errChan' = IF closed THEN errChan ELSE e
    /\ UNCHANGED <<dataChan, chanClosed, closed, eofReceived, buffer, reader,
                   inflight, wire, markers, late, closer, panic>>
-----------------------------------------------------------------------------
(* Close.                                                                  *)

BugWasClosedReadLate == TRUE
WasClosed == closed

CloseMark ==
    /\ Alive /\ closer = "idle"
    /\ closed' = TRUE
    /\ closer' = IF WasClosed THEN "done" ELSE "closing"
    /\ UNCHANGED <<chan, eofReceived, buffer, reader, loop, panic>>

\* close(sr.dataChan), after the lock has been released.
CloseChan ==
    /\ Alive /\ closer = "closing"
    /\ IF chanClosed
       THEN panic' = "close of closed channel" /\ UNCHANGED chanClosed
       ELSE chanClosed' = TRUE /\ UNCHANGED panic
    /\ closer' = "done"
    /\ UNCHANGED <<dataChan, errChan, closed, eofReceived, buffer, reader, loop>>
-----------------------------------------------------------------------------
(* Read.                                                                   *)

Return(r) == rd' = "idle" /\ ret' = r /\ UNCHANGED <<rest, pos, count>>

\* n bytes from the front of f go to the caller; what is left of a frame is
\* saved in buffer by a critical section of its own.
CopyOut(f, n) ==
    /\ pos' = f.lo + n
    /\ count' = count + n
    /\ ret' = "data"

\* data[n:]
Remainder(f, n) == Slice(f.lo + n, f.hi)

Copied(f) == {IF k < Size(f) THEN k ELSE Size(f) : k \in 1..MaxRead}

CopyFrame(f) ==
    \E n \in Copied(f) :
       /\ CopyOut(f, n)
       /\ rest' = Remainder(f, n)
       /\ rd' = IF n < Size(f) THEN "save" ELSE "idle"

BugLastByteForgotten == Size(buffer) > 1
HasBuffered == Size(buffer) > 0

\* The buffer, or else a snapshot of closed.
ReadStart ==
    /\ Alive /\ rd = "idle"
    /\ IF HasBuffered
       THEN /\ \E n \in Copied(buffer) :
                  CopyOut(buffer, n) /\ buffer' = Remainder(buffer, n)
            /\ UNCHANGED <<rd, rest>>
       ELSE /\ rd' = IF closed THEN "drain" ELSE "try"
            /\ UNCHANGED <<rest, ret, pos, count, buffer>>
    /\ UNCHANGED <<chan, closed, eofReceived, loop, closer, panic>>

\* The reader was closed: the non-blocking select, and after an EOF marker a
\* second one.
ReadDrain ==
    /\ Alive /\ rd \in {"drain", "pastMarker"}
    /\ IF dataChan = <<>>
       THEN Return("eof") /\ UNCHANGED dataChan
       ELSE /\ dataChan' = Tail(dataChan)
            /\ IF ~IsMarker(Head(dataChan))
               THEN CopyFrame(Head(dataChan))
               ELSE IF rd = "drain"
                    THEN rd' = "pastMarker" /\ UNCHANGED <<rest, ret, pos, count>>
                    ELSE Return("eof")
    /\ UNCHANGED <<chanClosed, errChan, closed, eofReceived, buffer, loop,
                   closer, panic>>

\* Receiving from dataChan in the two selects of an open reader.
ReceiveFrame ==
    \/ /\ dataChan # <<>>
       /\ dataChan' = Tail(dataChan)
       /\ IF IsMarker(Head(dataChan))
          THEN rd' = "atMarker" /\ UNCHANGED <<rest, ret, pos, count>>
          ELSE CopyFrame(Head(dataChan))
    \/ /\ dataChan = <<>> /\ chanClosed
       /\ Return("eof")
       /\ UNCHANGED dataChan

\* The first select, with a default branch.
ReadTry ==
    /\ Alive /\ rd = "try"
    /\ \/ ReceiveFrame
       \/ /\ dataChan = <<>> /\ ~chanClosed
          /\ rd' = "wait"
          /\ UNCHANGED <<dataChan, rest, ret, pos, count>>
    /\ UNCHANGED <<chanClosed, errChan, closed, eofReceived, buffer, loop,
                   closer, panic>>

\* The second select, which blocks; Go picks any ready branch.
ReadWaitData ==
    /\ Alive /\ rd = "wait"
    /\ ReceiveFrame
    /\ UNCHANGED <<chanClosed, errChan, closed, eofReceived, buffer, loop,
                   closer, panic>>

\* The reported error itself is returned: io.EOF after a clean end.
ReadWaitError ==
    /\ Alive /\ rd = "wait" /\ errChan # "empty"
    /\ errChan' = "empty"
    /\ Return(errChan)
    /\ UNCHANGED <<dataChan, chanClosed, closed, eofReceived, buffer, loop,
                   closer, panic>>

BugClosesAlways == TRUE
MayClose == ~closed

\* The EOF marker was received: close the channel unless Close is at it.
ReadCloseAtMarker ==
    /\ Alive /\ rd = "atMarker"
    /\ IF MayClose
       THEN /\ closed' = TRUE
            /\ IF chanClosed
               THEN panic' = "close of closed channel" /\ UNCHANGED chanClosed
               ELSE chanClosed' = TRUE /\ UNCHANGED panic
       ELSE UNCHANGED <<closed, chanClosed, panic>>
    /\ Return("eof")
    /\ UNCHANGED <<dataChan, errChan, eofReceived, buffer, loop, closer>>

\* sr.buffer = data[n:]
ReadSaveRest ==
    /\ Alive /\ rd = "save"
    /\ buffer' = rest
    /\ rd' = "idle"
    /\ UNCHANGED <<chan, closed, eofReceived, rest, ret, pos, count, loop,
                   closer, panic>>

ReadStep == \/ ReadDrain \/ ReadTry \/ ReadWaitData \/ ReadWaitError
            \/ ReadCloseAtMarker \/ ReadSaveRest
-----------------------------------------------------------------------------
Next ==
    \/ \E n \in 0..MaxFrame : WriteDataCheck(n)
    \/ WriteDataSend
    \/ \E e \in ReadErrors : WriteError(e)
    \/ CloseMark
    \/ CloseChan
    \/ ReadStart
    \/ ReadDrain
    \/ ReadTry
    \/ ReadWaitData
    \/ ReadWaitError
    \/ ReadCloseAtMarker
    \/ ReadSaveRest

Spec == Init /\ [][Next]_vars

(***************************************************************************)
(* The Go scheduler runs every goroutine that can go on: a call of Read,   *)
(* WriteData or Close under way does not stop between two steps.  Nothing  *)
(* is assumed of who starts a call.                                        *)
(***************************************************************************)
FairSpec == Spec /\ WF_vars(ReadStep) /\ WF_vars(WriteDataSend) /\ WF_vars(CloseChan)
-----------------------------------------------------------------------------
Panics == {"none", "send on closed channel", "close of closed channel"}

\* Types of the reader's fields and of the three goroutines' local state.
TypeOK ==
    /\ dataChan \in Seq(Frame) /\ Len(dataChan) <= Cap
    /\ chanClosed \in BOOLEAN /\ closed \in BOOLEAN /\ eofReceived \in BOOLEAN
    /\ errChan \in {"empty"} \cup ReadErrors
    /\ buffer \in Frame /\ rest \in Frame /\ inflight \in Frame
    /\ wire \in Nat /\ markers \in Nat /\ late \in BOOLEAN
    /\ pos \in Nat /\ count \in Nat
    /\ rl \in {"idle", "send", "ended", "failed"}
    /\ rd \in {"idle", "drain", "pastMarker", "try", "wait", "atMarker", "save"}
    /\ ret \in {"none", "data", "eof", "err"}
    /\ closer \in {"idle", "closing", "done"}
    /\ panic \in Panics

(***************************************************************************)
(* The k-th byte the consumer gets from Read is the k-th byte of the       *)
(* stream: partial reads, the saved rest of a frame, markers, a concurrent *)
(* Close and a reported error neither lose, repeat nor reorder a byte.     *)
(***************************************************************************)
InOrder == pos = count

(***************************************************************************)
(* The two places that close dataChan (Close, and Read at the EOF marker)  *)
(* race, and never both close it: that would panic.                        *)
(***************************************************************************)
NoDoubleClose == panic # "close of closed channel"

(***************************************************************************)
(* WriteData sends after it has released the lock, so a send can hit a     *)
(* closed channel and kill the process.  That needs a local Close or a     *)
(* peer that sends on after its EOF marker: a stream that ends by the      *)
(* marker alone never panics.                                              *)
(***************************************************************************)
PanicNeedsRace ==
    panic = "send on closed channel" => closer # "idle" \/ late

(***************************************************************************)
(* Read reports EOF only when the peer sent its EOF marker, the stream was *)
(* closed here or the connection ended cleanly between two frames: never   *)
(* because of a partial read, of an empty channel or of a connection that  *)
(* failed.  The third case is the code's own: a peer that goes away        *)
(* without a marker looks to the consumer like one that has finished.      *)
(***************************************************************************)
EofJustified == ret = "eof" => markers > 0 \/ closer # "idle" \/ rl = "ended"

(***************************************************************************)
(* A Read that is blocked when the stream gets closed returns (or the      *)
(* process has died): Close wakes the consumer.                            *)
(***************************************************************************)
CloseWakesReader == closer # "idle" ~> (rd = "idle" \/ ~Alive)

(***************************************************************************)
(* The comment in Read at the first select: "Prefer data over error to     *)
(* avoid races where an EOF/error is delivered while there is still        *)
(* buffered data waiting to be read."  The second select does not.         *)
(***************************************************************************)
DataBeforeError == [][ReadWaitError => dataChan = <<>>]_vars
-----------------------------------------------------------------------------
(* The reader implements Pipe: what is in dataChan, in buffer or with Read *)
(* has been put and not yet taken.                                         *)

\* Position of the first byte that dataChan will give to Read.
Front == IF rd = "save" THEN rest.hi
         ELSE IF Size(buffer) > 0 THEN buffer.hi ELSE pos

\* Position after the last byte sent on dataChan.
Back == IF dataChan = <<>> THEN Front ELSE dataChan[Len(dataChan)].hi

P == INSTANCE Pipe WITH written <- Back, taken <- pos, handed <- count,
                       shut <- chanClosed

\* What Read hands out is what a pipe would: in order, each byte once, only
\* bytes that WriteData sent, and nothing sent after the channel is closed.
ImplementsPipe == P!Spec
-----------------------------------------------------------------------------
(* The inductive invariant behind the properties above.                    *)

\* The frames under way are consecutive pieces of the stream, from the byte
\* the consumer gets next to the byte readLoop takes next.
Contiguous ==
    /\ buffer.lo <= buffer.hi /\ rest.lo <= rest.hi /\ inflight.lo <= inflight.hi
    /\ \A i \in 1..Len(dataChan) : dataChan[i].lo <= dataChan[i].hi
    /\ \A i \in 1..(Len(dataChan) - 1) : dataChan[i + 1].lo = dataChan[i].hi
    /\ \A i, j \in 1..Len(dataChan) : i < j => dataChan[i].hi <= dataChan[j].lo
    /\ dataChan # <<>> => dataChan[1].lo = Front
    /\ Size(buffer) > 0 => buffer.lo = pos /\ rd = "idle"
    /\ rd = "save" => rest.lo = pos
    /\ rl = "send" => inflight.lo = Back /\ inflight.hi = wire
    /\ rl # "send" /\ ~closed => Back = wire

\* dataChan is closed by whoever sets closed, once.
ClosedOnce ==
    /\ chanClosed => closed
    /\ closer # "idle" => closed
    /\ closer = "closing" => ~chanClosed
    /\ panic # "close of closed channel"

\* The EOF marker has been received and readLoop goes on.
MarkerOut ==
    \/ rd = "atMarker"
    \/ \E i \in 1..Len(dataChan) : IsMarker(dataChan[i])
    \/ closed /\ closer = "idle"

MarkerFirst ==
    /\ rl = "send" /\ IsMarker(inflight) => markers > 0
    /\ MarkerOut => markers > 0
    /\ MarkerOut /\ rl = "send" => late
    /\ PanicNeedsRace

EofMeansEnded ==
    /\ rd \in {"drain", "pastMarker"} => closed
    /\ ret = "eof" => closed \/ rl = "ended"
    /\ errChan = "eof" => rl = "ended"

Inv == TypeOK /\ InOrder /\ Contiguous /\ ClosedOnce /\ MarkerFirst /\ EofMeansEnded
=============================================================================
