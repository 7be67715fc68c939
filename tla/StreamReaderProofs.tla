------------------------- MODULE StreamReaderProofs -------------------------
(***************************************************************************)
(* Proofs about StreamReader, for every channel capacity and every bound   *)
(* on frames, reads, bytes and markers.                                    *)
(***************************************************************************)
EXTENDS StreamReader, SequenceTheorems, TLAPS

\* A number that is neither 0 nor 1 is more.
LEMMA AboveOne == ASSUME NEW k \in Nat, k >= 1, k # 1 PROVE k > 1
    OBVIOUS

\* A queue without frames is the empty queue.
LEMMA EmptyQueue == ASSUME NEW s \in Seq(Frame) PROVE s = <<>> <=> Len(s) = 0
    BY EmptySeq

\* What taking the head of a queue of frames leaves.
LEMMA TailFacts ==
    ASSUME NEW s \in Seq(Frame), s # <<>>
    PROVE  /\ Head(s) \in Frame /\ Head(s) = s[1]
           /\ Len(s) \in Nat /\ Len(s) >= 1
           /\ Tail(s) \in Seq(Frame)
           /\ Len(Tail(s)) = Len(s) - 1
           /\ \A i \in 1..(Len(s) - 1) : Tail(s)[i] = s[i + 1]
           /\ Tail(s) = <<>> <=> Len(s) = 1
  <1>1. /\ Head(s) \in Frame /\ Head(s) = s[1]
        /\ Len(s) \in Nat /\ Len(s) >= 1
        /\ Tail(s) \in Seq(Frame)
        /\ Len(Tail(s)) = Len(s) - 1
        /\ \A i \in 1..(Len(s) - 1) : Tail(s)[i] = s[i + 1]
    OBVIOUS
  <1>2. Tail(s) = <<>> <=> Len(Tail(s)) = 0
    BY <1>1, EmptyQueue
  <1> QED
    BY <1>1, <1>2

\* What adding a frame at the end of a queue leaves.
LEMMA AppendFacts ==
    ASSUME NEW s \in Seq(Frame), NEW f \in Frame
    PROVE  /\ Append(s, f) \in Seq(Frame)
           /\ Len(s) \in Nat
           /\ Len(Append(s, f)) = Len(s) + 1
           /\ Append(s, f) # <<>>
           /\ Append(s, f)[Len(s) + 1] = f
           /\ \A i \in 1..Len(s) : Append(s, f)[i] = s[i]
    OBVIOUS

\* Types of a frame and of a slice of it.
LEMMA FrameFacts ==
    ASSUME NEW f \in Frame
    PROVE  /\ f.lo \in Nat /\ f.hi \in Nat /\ Size(f) = f.hi - f.lo /\ Size(f) \in Int
           /\ f.lo <= f.hi => Size(f) >= 0
           /\ IsMarker(f) <=> f.lo = f.hi
    BY DEF Frame, Size, IsMarker

\* A copy takes at least one byte and at most the slice.
LEMMA CopiedFacts ==
    ASSUME NEW f \in Frame, f.lo < f.hi, NEW n \in Copied(f)
    PROVE  /\ n \in Nat /\ n >= 1 /\ n <= f.hi - f.lo
           /\ Remainder(f, n) \in Frame
           /\ Remainder(f, n).lo = f.lo + n
           /\ Remainder(f, n).hi = f.hi
    BY ConstantsAssumption DEF Frame, Copied, Size, Slice, Remainder
-----------------------------------------------------------------------------
\* The initial state satisfies the inductive invariant.
LEMMA InitInv == Init => Inv
  <1> SUFFICES ASSUME Init PROVE Inv
    OBVIOUS
  <1>1. TypeOK
    <2>1. dataChan \in Seq(Frame) /\ Len(dataChan) = 0
      BY DEF Init
    <2>2. Slice(0, 0) \in Frame
      BY DEF Slice, Frame
    <2>3. Len(dataChan) <= Cap
      BY <2>1, ConstantsAssumption
    <2>4. wire \in Nat /\ markers \in Nat /\ pos \in Nat /\ count \in Nat /\ errChan = "empty"
      BY DEF Init
    <2> QED
      BY <2>1, <2>2, <2>3, <2>4, Zenon DEF Init, TypeOK, Panics
  <1>2. InOrder /\ ClosedOnce /\ EofMeansEnded
    BY DEF Init, InOrder, ClosedOnce, EofMeansEnded
  <1>3. Contiguous
    BY DEF Init, Contiguous, Slice, Size, Front, Back
  <1>4. MarkerFirst
    BY DEF Init, MarkerFirst, MarkerOut, PanicNeedsRace
  <1> QED
    BY <1>1, <1>2, <1>3, <1>4 DEF Inv
-----------------------------------------------------------------------------
\* Facts of the invariant that the steps below use together.
LEMMA QueueFacts ==
    ASSUME Inv
    PROVE  /\ dataChan \in Seq(Frame) /\ Len(dataChan) \in Nat
           /\ Front \in Nat /\ Back \in Nat /\ pos \in Nat
           /\ pos <= Front
           /\ dataChan = <<>> => Len(dataChan) = 0 /\ Back = Front
           /\ dataChan # <<>> =>
                 /\ Len(dataChan) >= 1
                 /\ Head(dataChan) \in Frame /\ Head(dataChan) = dataChan[1]
                 /\ Head(dataChan).lo = Front
                 /\ Head(dataChan).lo <= Head(dataChan).hi
                 /\ Back = dataChan[Len(dataChan)].hi
  <1> USE DEF Inv
  <1>1. dataChan \in Seq(Frame) /\ Len(dataChan) \in Nat /\ pos \in Nat
    BY DEF TypeOK
  <1>2. Front \in Nat /\ pos <= Front
    BY FrameFacts DEF TypeOK, Contiguous, Front
  <1>3. CASE dataChan = <<>>
    BY <1>1, <1>2, <1>3 DEF Back
  <1>4. CASE dataChan # <<>>
    <2>1. Len(dataChan) >= 1 /\ dataChan[Len(dataChan)] \in Frame
      BY <1>1, <1>4
    <2>2. Head(dataChan) \in Frame /\ Head(dataChan) = dataChan[1]
      BY <1>1, <1>4, TailFacts
    <2>3. Back = dataChan[Len(dataChan)].hi /\ Back \in Nat
      BY <1>4, <2>1, FrameFacts DEF Back
    <2> QED
      BY <1>1, <1>2, <1>4, <2>1, <2>2, <2>3 DEF Contiguous
  <1> QED
    BY <1>3, <1>4

\* Read takes a data frame from dataChan.
LEMMA CopyStep ==
    ASSUME Inv, rd \in {"drain", "pastMarker", "try", "wait"},
           dataChan # <<>>, ~IsMarker(Head(dataChan)),
           dataChan' = Tail(dataChan), CopyFrame(Head(dataChan)),
           UNCHANGED <<chanClosed, errChan, closed, eofReceived, buffer, loop, closer, panic>>
    PROVE  Inv' /\ P!Take
  <1> DEFINE f == Head(dataChan)
  <1>1. /\ f \in Frame /\ f = dataChan[1] /\ f.lo = Front /\ f.lo < f.hi
        /\ f.lo \in Nat /\ f.hi \in Nat
    BY QueueFacts, FrameFacts
  <1>2. Size(buffer) <= 0 /\ Front = pos /\ rd \notin {"idle", "save", "atMarker"}
    BY FrameFacts DEF Inv, TypeOK, Contiguous, Front
  <1>3. PICK n \in Copied(f) :
           /\ CopyOut(f, n)
           /\ rest' = Remainder(f, n)
           /\ rd' = IF n < Size(f) THEN "save" ELSE "idle"
    BY DEF CopyFrame
  <1>4. /\ n \in Nat /\ n >= 1 /\ n <= f.hi - f.lo
        /\ rest' \in Frame /\ rest'.lo = f.lo + n /\ rest'.hi = f.hi
        /\ pos' = f.lo + n /\ count' = count + n /\ ret' = "data"
        /\ rd' = IF n < f.hi - f.lo THEN "save" ELSE "idle"
    BY <1>1, <1>3, CopiedFacts DEF CopyOut, Size
  <1>5. /\ Tail(dataChan) \in Seq(Frame)
        /\ Len(dataChan) \in Nat /\ Len(dataChan) >= 1
        /\ Len(Tail(dataChan)) = Len(dataChan) - 1
        /\ \A i \in 1..(Len(dataChan) - 1) : Tail(dataChan)[i] = dataChan[i + 1]
        /\ Tail(dataChan) = <<>> <=> Len(dataChan) = 1
    BY TailFacts DEF Inv, TypeOK
  <1>6. pos = count /\ pos' = count' /\ pos' \in Nat /\ count' \in Nat
    BY <1>1, <1>2, <1>4 DEF Inv, InOrder, TypeOK
  <1>7. TypeOK'
    <2>1. dataChan' \in Seq(Frame) /\ Len(dataChan') <= Cap
      BY <1>5, ConstantsAssumption DEF Inv, TypeOK
    <2>2. rd' \in {"idle", "save"}
      BY <1>4
    <2> QED
      BY <2>1, <2>2, <1>4, <1>6, Zenon DEF Inv, TypeOK, loop
  <1>8. Front' = f.hi
    <2>1. ~(Size(buffer)' > 0)
      BY <1>2 DEF Size, Inv, TypeOK, Frame
    <2>2. CASE n < f.hi - f.lo
      BY <1>4, <2>2 DEF Front
    <2>3. CASE ~(n < f.hi - f.lo)
      <3>1. pos' = f.hi /\ rd' = "idle"
        BY <1>1, <1>4, <2>3
      <3> QED
        BY <2>1, <3>1 DEF Front
    <2> QED
      BY <2>2, <2>3
  <1>9. Back' = Back
    <2>1. CASE Len(dataChan) = 1
      <3>1. Back = f.hi /\ Tail(dataChan) = <<>>
        BY <1>1, <1>5, <2>1, QueueFacts
      <3> QED
        BY <1>8, <3>1 DEF Back
    <2>2. CASE Len(dataChan) # 1
      <3>1. Tail(dataChan) # <<>>
        BY <1>5, <2>2
      <3>2. Tail(dataChan)[Len(dataChan) - 1] = dataChan[Len(dataChan)]
        BY <1>5, <2>2
      <3> QED
        BY <1>5, <3>1, <3>2 DEF Back
    <2> QED
      BY <2>1, <2>2
  <1>10. Contiguous'
    <2>1. \A i \in 1..Len(dataChan') : dataChan'[i].lo <= dataChan'[i].hi
      BY <1>5 DEF Inv, Contiguous
    <2>2. \A i \in 1..(Len(dataChan') - 1) : dataChan'[i + 1].lo = dataChan'[i].hi
      BY <1>5 DEF Inv, Contiguous
    <2>3. dataChan' # <<>> => dataChan'[1].lo = Front'
      <3> SUFFICES ASSUME dataChan' # <<>> PROVE dataChan'[1].lo = Front'
        OBVIOUS
      <3>1. Len(dataChan) >= 2 /\ dataChan'[1] = dataChan[2]
        BY <1>5
      <3>2. dataChan[2].lo = dataChan[1].hi
        BY <3>1, <1>5 DEF Inv, Contiguous
      <3> QED
        BY <3>1, <3>2, <1>1, <1>8
    <2>4. Size(buffer)' > 0 => buffer'.lo = pos' /\ rd' = "idle"
      BY <1>2 DEF Size, Inv, TypeOK, Frame
    <2>5. rd' = "save" => rest'.lo = pos'
      BY <1>4
    <2>6. /\ rl' = "send" => inflight'.lo = Back' /\ inflight'.hi = wire'
          /\ rl' # "send" /\ ~closed' => Back' = wire'
      BY <1>9 DEF Inv, Contiguous, loop
    <2>7. buffer'.lo <= buffer'.hi /\ rest'.lo <= rest'.hi /\ inflight'.lo <= inflight'.hi
      BY <1>1, <1>4 DEF Inv, Contiguous, loop
    <2>9. \A i, j \in 1..Len(dataChan') : i < j => dataChan'[i].hi <= dataChan'[j].lo
      <3> SUFFICES ASSUME NEW i \in 1..Len(dataChan'), NEW j \in 1..Len(dataChan'), i < j
                   PROVE  dataChan'[i].hi <= dataChan'[j].lo
        OBVIOUS
      <3>1. i + 1 \in 1..Len(dataChan) /\ j + 1 \in 1..Len(dataChan) /\ i + 1 < j + 1
        BY <1>5
      <3>2. dataChan'[i] = dataChan[i + 1] /\ dataChan'[j] = dataChan[j + 1]
        BY <1>5
      <3> QED
        BY <3>1, <3>2 DEF Inv, Contiguous
    <2> QED
      BY <2>1, <2>2, <2>3, <2>4, <2>5, <2>6, <2>7, <2>9 DEF Contiguous, Size
  <1>11. ClosedOnce' /\ EofMeansEnded' /\ InOrder'
    BY <1>4, <1>6 DEF Inv, ClosedOnce, EofMeansEnded, InOrder, loop
  <1>12. MarkerFirst'
    <2>1. MarkerOut' => MarkerOut
      BY <1>4, <1>5 DEF MarkerOut, IsMarker, Size
    <2> QED
      BY <2>1 DEF Inv, MarkerFirst, PanicNeedsRace, IsMarker, Size, loop
  <1>13. P!Take
    <2>1. f.hi <= Back
      <3>1. CASE Len(dataChan) = 1
        BY <1>1, <3>1, QueueFacts
      <3>2. CASE Len(dataChan) # 1
        <4>1. Back = dataChan[Len(dataChan)].hi /\ dataChan[Len(dataChan)] \in Frame
          BY <1>5, QueueFacts
        <4>2. /\ f.hi <= dataChan[Len(dataChan)].lo
              /\ dataChan[Len(dataChan)].lo <= dataChan[Len(dataChan)].hi
          BY <1>1, <1>5, <3>2 DEF Inv, Contiguous
        <4> QED
          BY <1>1, <4>1, <4>2, FrameFacts
      <3> QED
        BY <3>1, <3>2
    <2> QED
      BY <1>1, <1>2, <1>4, <1>6, <1>9, <2>1, QueueFacts DEF P!Take
  <1> QED
    BY <1>7, <1>10, <1>11, <1>12, <1>13 DEF Inv

\* Read takes an EOF marker from dataChan.
LEMMA MarkerStep ==
    ASSUME Inv, rd \in {"drain", "pastMarker", "try", "wait"},
           dataChan # <<>>, IsMarker(Head(dataChan)), dataChan' = Tail(dataChan),
           \/ rd' \in {"pastMarker", "atMarker"} /\ ret' = ret
           \/ rd' = "idle" /\ ret' = "eof",
           rd' = "pastMarker" => closed, ret' = "eof" => closed \/ rl = "ended",
           UNCHANGED <<chanClosed, errChan, closed, eofReceived, buffer, loop, closer,
                       panic, rest, pos, count>>
    PROVE  Inv' /\ UNCHANGED <<Back, pos, count, chanClosed>>
  <1> DEFINE f == Head(dataChan)
  <1>1. /\ f \in Frame /\ f = dataChan[1] /\ f.lo = Front /\ f.lo = f.hi
        /\ f.lo \in Nat /\ f.hi \in Nat
    BY QueueFacts, FrameFacts
  <1>2. /\ ~(Size(buffer) > 0) /\ Front = pos
        /\ rd \notin {"idle", "save", "atMarker"} /\ rd' # "save"
    BY FrameFacts DEF Inv, TypeOK, Contiguous, Front
  <1>3. ~(Size(buffer)' > 0) /\ Front' = pos
    BY <1>2 DEF Size, Front
  <1>5. /\ Tail(dataChan) \in Seq(Frame)
        /\ Len(dataChan) \in Nat /\ Len(dataChan) >= 1
        /\ Len(Tail(dataChan)) = Len(dataChan) - 1
        /\ \A i \in 1..(Len(dataChan) - 1) : Tail(dataChan)[i] = dataChan[i + 1]
        /\ Tail(dataChan) = <<>> <=> Len(dataChan) = 1
    BY TailFacts DEF Inv, TypeOK
  <1>6. TypeOK'
    <2>1. dataChan' \in Seq(Frame) /\ Len(dataChan') <= Cap
      BY <1>5, ConstantsAssumption DEF Inv, TypeOK
    <2> QED
      BY <2>1, Zenon DEF Inv, TypeOK, loop
  <1>7. Back' = Back
    <2>1. CASE Len(dataChan) = 1
      BY <1>1, <1>2, <1>3, <1>5, <2>1 DEF Back
    <2>2. CASE Len(dataChan) # 1
      <3>1. Tail(dataChan)[Len(dataChan) - 1] = dataChan[Len(dataChan)]
        BY <1>5, <2>2
      <3> QED
        BY <1>5, <2>2, <3>1 DEF Back
    <2> QED
      BY <2>1, <2>2
  <1>8. Contiguous'
    <2>1. \A i \in 1..Len(dataChan') : dataChan'[i].lo <= dataChan'[i].hi
      BY <1>5 DEF Inv, Contiguous
    <2>2. \A i \in 1..(Len(dataChan') - 1) : dataChan'[i + 1].lo = dataChan'[i].hi
      BY <1>5 DEF Inv, Contiguous
    <2>3. dataChan' # <<>> => dataChan'[1].lo = Front'
      <3> SUFFICES ASSUME dataChan' # <<>> PROVE dataChan'[1].lo = Front'
        OBVIOUS
      <3>1. Len(dataChan) >= 2 /\ dataChan'[1] = dataChan[2]
        BY <1>5
      <3>2. dataChan[2].lo = dataChan[1].hi
        BY <3>1, <1>5 DEF Inv, Contiguous
      <3> QED
        BY <3>1, <3>2, <1>1, <1>2, <1>3
    <2>9. \A i, j \in 1..Len(dataChan') : i < j => dataChan'[i].hi <= dataChan'[j].lo
      <3> SUFFICES ASSUME NEW i \in 1..Len(dataChan'), NEW j \in 1..Len(dataChan'), i < j
                   PROVE  dataChan'[i].hi <= dataChan'[j].lo
        OBVIOUS
      <3>1. i + 1 \in 1..Len(dataChan) /\ j + 1 \in 1..Len(dataChan) /\ i + 1 < j + 1
        BY <1>5
      <3>2. dataChan'[i] = dataChan[i + 1] /\ dataChan'[j] = dataChan[j + 1]
        BY <1>5
      <3> QED
        BY <3>1, <3>2 DEF Inv, Contiguous
    <2> QED
      BY <2>1, <2>2, <2>3, <2>9, <1>2, <1>3, <1>7 DEF Inv, Contiguous, Size, loop
  <1>9. ClosedOnce' /\ EofMeansEnded' /\ InOrder'
    BY <1>2 DEF Inv, ClosedOnce, EofMeansEnded, InOrder, loop
  <1>10. MarkerFirst'
    <2>1. MarkerOut
      BY <1>1, <1>5 DEF MarkerOut, IsMarker, Size
    <2> QED
      BY <2>1 DEF Inv, MarkerFirst, PanicNeedsRace, IsMarker, Size, loop
  <1> QED
    BY <1>6, <1>7, <1>8, <1>9, <1>10 DEF Inv

\* A step that leaves dataChan, the buffer and the positions alone keeps the
\* pieces of the stream where they are.
LEMMA QueueUntouched ==
    ASSUME Inv, UNCHANGED <<dataChan, buffer, rest, pos, count>>,
           rd # "save", rd' # "save"
    PROVE  /\ Front' = Front /\ Back' = Back
           /\ InOrder'
  <1>1. Front' = Front
    BY DEF Front, Size
  <1>2. Back' = Back
    BY <1>1 DEF Back
  <1> QED
    BY <1>1, <1>2 DEF Inv, InOrder
-----------------------------------------------------------------------------
(* One lemma per action: it keeps the invariant and is a step of the pipe  *)
(* or leaves the pipe alone.                                               *)

\* Checking closed changes nothing of the pipe.
LEMMA WriteDataCheckStep ==
    ASSUME Inv, NEW n \in 0..MaxFrame, WriteDataCheck(n)
    PROVE  Inv' /\ UNCHANGED <<Back, pos, count, chanClosed>>
  <1> USE ConstantsAssumption DEF Inv, WriteDataCheck, chan, reader
  <1>1. n \in Nat /\ wire \in Nat /\ wire + n \in Nat
    BY DEF TypeOK
  <1>2. Slice(wire, wire + n) \in Frame
    BY <1>1 DEF Slice, Frame
  <1>3. TypeOK'
    <2>1. wire' \in Nat /\ markers' \in Nat
      BY <1>1 DEF TypeOK
    <2>2. inflight' \in Frame /\ rl' \in {"idle", "send", "ended", "failed"}
      BY <1>2 DEF TypeOK
    <2>3. late' \in BOOLEAN /\ eofReceived' \in BOOLEAN
      BY Zenon DEF TypeOK
    <2> QED
      BY <2>1, <2>2, <2>3, Zenon DEF TypeOK
  <1>4. Front' = Front /\ Back' = Back /\ InOrder'
    BY DEF Front, Back, Size, InOrder
  <1>5. Contiguous'
    <2>1. CASE closed
      BY <1>4, <2>1 DEF Contiguous, Size
    <2>2. CASE ~closed
      <3>1. inflight' = Slice(wire, wire + n) /\ rl' = "send" /\ wire = Back
        BY <2>2 DEF Contiguous
      <3>2. inflight'.lo = Back' /\ inflight'.hi = wire' /\ inflight'.lo <= inflight'.hi
        BY <1>1, <1>4, <3>1 DEF Slice
      <3> QED
        BY <1>4, <3>1, <3>2 DEF Contiguous, Size
    <2> QED
      BY <2>1, <2>2
  <1>6. ClosedOnce' /\ EofMeansEnded'
    BY DEF ClosedOnce, EofMeansEnded
  <1>7. MarkerFirst'
    <2>1. MarkerOut' <=> MarkerOut
      BY DEF MarkerOut, IsMarker, Size
    <2>2. markers \in Nat /\ (MarkerOut => markers > 0)
      BY DEF TypeOK, MarkerFirst
    <2>3. MarkerOut' => markers' > 0
      BY <2>1, <2>2
    <2>4. rl' = "send" /\ IsMarker(inflight') => markers' > 0
      BY <1>1, <2>2 DEF MarkerFirst, IsMarker, Size, Slice, TypeOK
    <2>5. MarkerOut' /\ rl' = "send" => late'
      BY <2>1, <2>2, Zenon DEF MarkerFirst
    <2>6. PanicNeedsRace'
      BY Zenon DEF MarkerFirst, PanicNeedsRace
    <2> QED
      BY <2>3, <2>4, <2>5, <2>6 DEF MarkerFirst, IsMarker, Size
  <1> QED
    BY <1>3, <1>4, <1>5, <1>6, <1>7

\* The send puts the frame into the pipe, or kills the process.
LEMMA WriteDataSendStep ==
    ASSUME Inv, WriteDataSend
    PROVE  Inv' /\ (P!Put \/ UNCHANGED <<Back, pos, count, chanClosed>>)
  <1> USE DEF Inv
  <1>1. CASE chanClosed /\ panic' = "send on closed channel" /\ UNCHANGED <<dataChan, rl>>
    <2> USE DEF WriteDataSend, reader
    <2>1. UNCHANGED <<Front, Back>> /\ InOrder'
      BY <1>1 DEF Front, Back, Size, InOrder
    <2>2. TypeOK'
      BY <1>1, Zenon DEF TypeOK, Panics
    <2>3. Contiguous'
      BY <1>1, <2>1 DEF Contiguous, Size
    <2>4. ClosedOnce' /\ EofMeansEnded'
      BY <1>1 DEF ClosedOnce, EofMeansEnded
    <2>5. MarkerFirst'
      <3>1. closed /\ (MarkerOut' <=> MarkerOut)
        BY <1>1 DEF ClosedOnce, MarkerOut, IsMarker, Size
      <3>2. PanicNeedsRace'
        BY <1>1, <3>1, Zenon DEF MarkerFirst, MarkerOut, PanicNeedsRace
      <3> QED
        BY <1>1, <3>1, <3>2 DEF MarkerFirst, IsMarker, Size
    <2> QED
      BY <1>1, <2>1, <2>2, <2>3, <2>4, <2>5
  <1>2. CASE /\ ~chanClosed /\ HasRoom
             /\ dataChan' = Append(dataChan, inflight) /\ rl' = "idle" /\ UNCHANGED panic
    <2>1. /\ UNCHANGED <<chanClosed, errChan, closed, eofReceived, buffer, reader,
                         inflight, wire, markers, late, closer, panic>>
          /\ rl = "send" /\ inflight \in Frame /\ inflight.lo \in Nat /\ inflight.hi \in Nat
          /\ inflight.lo <= inflight.hi
          /\ inflight.lo = Back /\ inflight.hi = wire
          /\ Back \in Nat /\ Front \in Nat /\ Len(dataChan) \in Nat
      BY <1>2, QueueFacts, FrameFacts DEF WriteDataSend, TypeOK, Contiguous
    <2>2. /\ dataChan' \in Seq(Frame)
          /\ Len(dataChan') = Len(dataChan) + 1
          /\ dataChan' # <<>>
          /\ dataChan'[Len(dataChan) + 1] = inflight
          /\ \A i \in 1..Len(dataChan) : dataChan'[i] = dataChan[i]
      BY <1>2, <2>1, AppendFacts DEF TypeOK
    <2>3. Front' = Front /\ Back' = wire /\ InOrder'
      BY <2>1, <2>2 DEF Front, Back, Size, InOrder, reader
    <2>4. TypeOK'
      <3>1. Len(dataChan') <= Cap
        BY <1>2, <2>1, <2>2, ConstantsAssumption DEF HasRoom
      <3> QED
        BY <1>2, <2>1, <2>2, <3>1, Zenon DEF TypeOK, reader
    <2>5. Contiguous'
      <3>1. \A i \in 1..Len(dataChan') : dataChan'[i].lo <= dataChan'[i].hi
        BY <2>1, <2>2 DEF Contiguous
      <3>2. \A i \in 1..(Len(dataChan') - 1) : dataChan'[i + 1].lo = dataChan'[i].hi
        <4> SUFFICES ASSUME NEW i \in 1..Len(dataChan)
                     PROVE  dataChan'[i + 1].lo = dataChan'[i].hi
          BY <2>1, <2>2
        <4>1. CASE i = Len(dataChan)
          BY <2>1, <2>2, <4>1, QueueFacts
        <4>2. CASE i # Len(dataChan)
          BY <2>1, <2>2, <4>2 DEF Contiguous
        <4> QED
          BY <4>1, <4>2
      <3>3. \A i, j \in 1..Len(dataChan') : i < j => dataChan'[i].hi <= dataChan'[j].lo
        <4> SUFFICES ASSUME NEW i \in 1..Len(dataChan'), NEW j \in 1..Len(dataChan'), i < j
                     PROVE  dataChan'[i].hi <= dataChan'[j].lo
          OBVIOUS
        <4>1. CASE j = Len(dataChan) + 1
          <5>1. i \in 1..Len(dataChan) /\ dataChan'[i] = dataChan[i] /\ dataChan'[j] = inflight
            BY <2>1, <2>2, <4>1
          <5>2. /\ dataChan[i] \in Frame /\ dataChan[Len(dataChan)] \in Frame
                /\ Back = dataChan[Len(dataChan)].hi
            BY <5>1, <2>1, QueueFacts DEF TypeOK
          <5>3. CASE i = Len(dataChan)
            BY <5>1, <5>2, <5>3, <2>1
          <5>4. CASE i # Len(dataChan)
            <6>1. /\ dataChan[i].hi <= dataChan[Len(dataChan)].lo
                  /\ dataChan[Len(dataChan)].lo <= dataChan[Len(dataChan)].hi
              BY <5>1, <5>4, <2>1 DEF Contiguous
            <6> QED
              BY <5>1, <5>2, <6>1, <2>1, FrameFacts
          <5> QED
            BY <5>3, <5>4
        <4>2. CASE j # Len(dataChan) + 1
          <5>1. i \in 1..Len(dataChan) /\ j \in 1..Len(dataChan)
            BY <2>1, <2>2, <4>2
          <5>2. dataChan'[i] = dataChan[i] /\ dataChan'[j] = dataChan[j]
            BY <2>2, <5>1
          <5> QED
            BY <5>1, <5>2 DEF Contiguous
        <4> QED
          BY <4>1, <4>2
      <3>4. dataChan'[1].lo = Front'
        <4>1. CASE dataChan = <<>>
          BY <2>1, <2>2, <2>3, <4>1, QueueFacts
        <4>2. CASE dataChan # <<>>
          BY <2>1, <2>2, <2>3, <4>2, QueueFacts
        <4> QED
          BY <4>1, <4>2
      <3> QED
        BY <1>2, <2>1, <2>3, <3>1, <3>2, <3>3, <3>4 DEF Contiguous, Size, reader
    <2>6. ClosedOnce' /\ EofMeansEnded'
      BY <1>2, <2>1 DEF ClosedOnce, EofMeansEnded, reader
    <2>7. MarkerFirst'
      <3>1. MarkerOut' => MarkerOut \/ IsMarker(inflight)
        <4> SUFFICES ASSUME NEW i \in 1..Len(dataChan'), IsMarker(dataChan'[i])
                     PROVE  MarkerOut \/ IsMarker(inflight)
          BY <2>1 DEF MarkerOut, reader
        <4> QED
          BY <2>1, <2>2 DEF MarkerOut
      <3> QED
        BY <1>2, <2>1, <3>1 DEF MarkerFirst, PanicNeedsRace
    <2>8. P!Put \/ UNCHANGED <<Back, pos, count, chanClosed>>
      BY <1>2, <2>1, <2>3 DEF P!Put, reader
    <2> QED
      BY <2>3, <2>4, <2>5, <2>6, <2>7, <2>8
  <1> QED
    BY <1>1, <1>2 DEF WriteDataSend

\* Reporting an error changes nothing of the pipe.
LEMMA WriteErrorStep ==
    ASSUME Inv, NEW e \in ReadErrors, WriteError(e)
    PROVE  Inv' /\ UNCHANGED <<Back, pos, count, chanClosed>>
  <1> USE DEF Inv, WriteError, reader
  <1>1. UNCHANGED <<Front, Back>> /\ InOrder'
    BY DEF Front, Back, Size, InOrder
  <1>2. TypeOK'
    <2>1. errChan' \in {"empty"} \cup ReadErrors /\ rl' \in {"idle", "send", "ended", "failed"}
      BY DEF TypeOK
    <2> QED
      BY <2>1, Zenon DEF TypeOK
  <1>3. Contiguous'
    BY <1>1 DEF Contiguous, Size
  <1>4. ClosedOnce' /\ EofMeansEnded'
    BY DEF ClosedOnce, EofMeansEnded, TypeOK
  <1>5. MarkerFirst'
    BY DEF MarkerFirst, MarkerOut, PanicNeedsRace, IsMarker, Size
  <1> QED
    BY <1>1, <1>2, <1>3, <1>4, <1>5

\* Setting closed changes nothing of the pipe.
LEMMA CloseMarkStep ==
    ASSUME Inv, CloseMark
    PROVE  Inv' /\ UNCHANGED <<Back, pos, count, chanClosed>>
  <1> USE DEF Inv, CloseMark, WasClosed, reader, loop, chan
  <1>1. UNCHANGED <<Front, Back>> /\ InOrder'
    BY DEF Front, Back, Size, InOrder
  <1>2. TypeOK'
    BY Zenon DEF TypeOK
  <1>3. Contiguous'
    BY <1>1 DEF Contiguous, Size
  <1>4. ClosedOnce' /\ EofMeansEnded'
    BY DEF ClosedOnce, EofMeansEnded
  <1>5. MarkerFirst'
    BY DEF MarkerFirst, MarkerOut, PanicNeedsRace, IsMarker, Size
  <1> QED
    BY <1>1, <1>2, <1>3, <1>4, <1>5

\* Closing dataChan shuts the pipe.
LEMMA CloseChanStep ==
    ASSUME Inv, CloseChan
    PROVE  Inv' /\ P!Shut
  <1> USE DEF Inv, CloseChan, reader, loop
  <1>1. UNCHANGED <<Front, Back>> /\ InOrder'
    BY DEF Front, Back, Size, InOrder
  <1>2. chanClosed' = TRUE /\ UNCHANGED panic /\ ~chanClosed /\ closed
    BY DEF ClosedOnce
  <1>3. TypeOK'
    BY <1>2, Zenon DEF TypeOK
  <1>4. Contiguous'
    BY <1>1 DEF Contiguous, Size
  <1>5. ClosedOnce' /\ EofMeansEnded'
    BY <1>2 DEF ClosedOnce, EofMeansEnded
  <1>6. MarkerFirst'
    BY <1>2 DEF MarkerFirst, MarkerOut, PanicNeedsRace, IsMarker, Size
  <1>7. P!Shut
    BY <1>1, <1>2 DEF P!Shut
  <1> QED
    BY <1>1, <1>3, <1>4, <1>5, <1>6, <1>7

\* Read takes from the buffer, or goes on to dataChan.
LEMMA ReadStartStep ==
    ASSUME Inv, ReadStart
    PROVE  Inv' /\ (P!Take \/ UNCHANGED <<Back, pos, count, chanClosed>>)
  <1> USE DEF Inv
  <1>1. CASE Size(buffer) > 0
    <2>1. PICK n \in Copied(buffer) :
             CopyOut(buffer, n) /\ buffer' = Remainder(buffer, n)
      BY <1>1 DEF ReadStart, HasBuffered
    <2>2. UNCHANGED <<rd, rest, chan, closed, eofReceived, loop, closer, panic>> /\ rd = "idle"
      BY <1>1 DEF ReadStart, HasBuffered
    <2>3. /\ buffer \in Frame /\ buffer.lo \in Nat /\ buffer.hi \in Nat /\ buffer.lo < buffer.hi
          /\ buffer.lo = pos /\ Front = buffer.hi
      BY <1>1, <2>2, FrameFacts DEF TypeOK, Contiguous, Front
    <2>4. /\ n \in Nat /\ n >= 1 /\ n <= buffer.hi - buffer.lo
          /\ buffer' \in Frame /\ buffer'.lo = buffer.lo + n /\ buffer'.hi = buffer.hi
          /\ pos' = buffer.lo + n /\ count' = count + n /\ ret' = "data"
      BY <2>1, <2>3, CopiedFacts DEF CopyOut
    <2>5. Front' = Front /\ Back' = Back
      <3>1. Front' = buffer.hi
        BY <2>2, <2>3, <2>4 DEF Front, Size
      <3> QED
        BY <2>2, <2>3, <3>1 DEF Back, chan
    <2>6. pos' \in Nat /\ count' \in Nat /\ pos' = count'
      BY <2>3, <2>4 DEF InOrder, TypeOK
    <2>7. TypeOK'
      BY <2>2, <2>4, <2>6, Zenon DEF TypeOK, chan, loop
    <2>8. Contiguous'
      BY <2>2, <2>3, <2>4, <2>5 DEF Contiguous, Size, chan, loop
    <2>9. ClosedOnce' /\ EofMeansEnded' /\ InOrder'
      BY <2>2, <2>4, <2>6 DEF ClosedOnce, EofMeansEnded, InOrder, chan, loop
    <2>10. MarkerFirst'
      BY <2>2 DEF MarkerFirst, MarkerOut, PanicNeedsRace, IsMarker, Size, chan, loop
    <2>11. P!Take
      <3>1. buffer.hi <= Back
        <4>1. CASE dataChan = <<>>
          BY <2>3, <4>1, QueueFacts
        <4>2. CASE Len(dataChan) = 1 /\ dataChan # <<>>
          BY <2>3, <4>2, QueueFacts, FrameFacts
        <4>3. CASE Len(dataChan) # 1 /\ dataChan # <<>>
          <5>1. /\ Len(dataChan) \in Nat /\ Len(dataChan) > 1
                /\ dataChan[1] \in Frame /\ dataChan[Len(dataChan)] \in Frame
            <6>1. dataChan \in Seq(Frame)
              BY DEF TypeOK
            <6>2. Len(dataChan) \in Nat /\ Len(dataChan) >= 1
              BY <4>3, <6>1, TailFacts
            <6>3. Len(dataChan) > 1
              BY <4>3, <6>2, AboveOne
            <6>4. 1 \in 1..Len(dataChan) /\ Len(dataChan) \in 1..Len(dataChan)
              BY <6>2
            <6> QED
              BY <6>1, <6>2, <6>3, <6>4, ElementOfSeq
          <5>2. /\ dataChan[1].lo = Front /\ dataChan[1].lo <= dataChan[1].hi
                /\ dataChan[1].hi <= dataChan[Len(dataChan)].lo
                /\ dataChan[Len(dataChan)].lo <= dataChan[Len(dataChan)].hi
                /\ Back = dataChan[Len(dataChan)].hi
            BY <4>3, <5>1 DEF Contiguous, Back
          <5> QED
            BY <2>3, <5>1, <5>2, FrameFacts
        <4> QED
          BY <4>1, <4>2, <4>3
      <3>2. /\ count \in Nat /\ Back \in Nat /\ count' > count
            /\ pos' = pos + (count' - count) /\ pos' <= Back
        BY <2>3, <2>4, <3>1, QueueFacts DEF TypeOK
      <3> QED
        BY <2>2, <2>5, <2>6, <3>2 DEF P!Take, chan
    <2> QED
      BY <2>7, <2>8, <2>9, <2>10, <2>11
  <1>2. CASE ~(Size(buffer) > 0)
    <2>1. /\ rd = "idle" /\ rd' = IF closed THEN "drain" ELSE "try"
          /\ UNCHANGED <<rest, ret, pos, count, buffer, chan, closed, eofReceived, loop,
                         closer, panic>>
      BY <1>2 DEF ReadStart, HasBuffered
    <2>2. UNCHANGED <<Front, Back>> /\ InOrder'
      BY <2>1, QueueUntouched DEF chan
    <2>3. TypeOK'
      BY <2>1, Zenon DEF TypeOK, chan, loop
    <2>4. Contiguous'
      BY <1>2, <2>1, <2>2 DEF Contiguous, Size, chan, loop
    <2>5. ClosedOnce' /\ EofMeansEnded'
      BY <2>1 DEF ClosedOnce, EofMeansEnded, chan, loop
    <2>6. MarkerFirst'
      BY <2>1 DEF MarkerFirst, MarkerOut, PanicNeedsRace, IsMarker, Size, chan, loop
    <2> QED
      BY <2>1, <2>2, <2>3, <2>4, <2>5, <2>6 DEF chan
  <1> QED
    BY <1>1, <1>2

\* Read returns without touching dataChan, the buffer or the positions.
LEMMA ReturnStep ==
    ASSUME Inv, rd \in {"drain", "pastMarker", "try", "wait"},
           \/ rd' = "wait" /\ ret' = ret
           \/ rd' = "idle" /\ ret' \in {"eof", "err"},
           ret' = "eof" => closed \/ rl = "ended", errChan' \in {errChan, "empty"},
           UNCHANGED <<dataChan, chanClosed, closed, eofReceived, buffer, loop, closer,
                       panic, rest, pos, count>>
    PROVE  Inv' /\ UNCHANGED <<Back, pos, count, chanClosed>>
  <1> USE DEF Inv, loop
  <1>1. UNCHANGED <<Front, Back>> /\ InOrder'
    BY QueueUntouched
  <1>2. TypeOK'
    BY Zenon DEF TypeOK
  <1>3. Contiguous'
    BY <1>1 DEF Contiguous, Size
  <1>4. ClosedOnce' /\ EofMeansEnded'
    BY DEF ClosedOnce, EofMeansEnded
  <1>5. MarkerFirst'
    BY DEF MarkerFirst, MarkerOut, PanicNeedsRace, IsMarker, Size
  <1> QED
    BY <1>1, <1>2, <1>3, <1>4, <1>5

\* The selects of a closed reader.
LEMMA ReadDrainStep ==
    ASSUME Inv, ReadDrain
    PROVE  Inv' /\ (P!Take \/ UNCHANGED <<Back, pos, count, chanClosed>>)
  <1>1. rd \in {"drain", "pastMarker"} /\ closed
    BY DEF ReadDrain, Inv, EofMeansEnded
  <1>2. CASE dataChan = <<>>
    BY <1>1, <1>2, ReturnStep DEF ReadDrain, Return
  <1>3. CASE dataChan # <<>> /\ ~IsMarker(Head(dataChan))
    BY <1>1, <1>3, CopyStep DEF ReadDrain
  <1>4. CASE dataChan # <<>> /\ IsMarker(Head(dataChan))
    BY <1>1, <1>4, MarkerStep DEF ReadDrain, Return
  <1> QED
    BY <1>2, <1>3, <1>4

\* Receiving from dataChan in either select of an open reader.
LEMMA ReceiveFrameStep ==
    ASSUME Inv, rd \in {"try", "wait"}, ReceiveFrame,
           UNCHANGED <<chanClosed, errChan, closed, eofReceived, buffer, loop, closer, panic>>
    PROVE  Inv' /\ (P!Take \/ UNCHANGED <<Back, pos, count, chanClosed>>)
  <1>1. (chanClosed => closed) /\ (ret = "eof" => closed \/ rl = "ended")
    BY DEF Inv, ClosedOnce, EofMeansEnded
  <1>2. CASE dataChan = <<>>
    BY <1>1, <1>2, ReturnStep DEF ReceiveFrame, Return
  <1>3. CASE dataChan # <<>> /\ ~IsMarker(Head(dataChan))
    BY <1>1, <1>3, CopyStep DEF ReceiveFrame
  <1>4. CASE dataChan # <<>> /\ IsMarker(Head(dataChan))
    BY <1>1, <1>4, MarkerStep DEF ReceiveFrame
  <1> QED
    BY <1>2, <1>3, <1>4

\* The first select of an open reader.
LEMMA ReadTryStep ==
    ASSUME Inv, ReadTry
    PROVE  Inv' /\ (P!Take \/ UNCHANGED <<Back, pos, count, chanClosed>>)
  <1>1. CASE ReceiveFrame
    BY <1>1, ReceiveFrameStep DEF ReadTry
  <1>2. CASE rd' = "wait" /\ UNCHANGED <<dataChan, rest, ret, pos, count>>
    <2>1. ret = "eof" => closed \/ rl = "ended"
      BY DEF Inv, EofMeansEnded
    <2> QED
      BY <1>2, <2>1, ReturnStep DEF ReadTry
  <1> QED
    BY <1>1, <1>2 DEF ReadTry

\* Returning the reported error changes nothing of the pipe.
LEMMA ReadWaitErrorStep ==
    ASSUME Inv, ReadWaitError
    PROVE  Inv' /\ UNCHANGED <<Back, pos, count, chanClosed>>
  <1>1. errChan \in ReadErrors /\ (errChan = "eof" => rl = "ended")
    BY DEF Inv, TypeOK, EofMeansEnded, ReadWaitError
  <1> QED
    BY <1>1, ReturnStep DEF ReadWaitError, Return, ReadErrors

\* The reader closes dataChan at the EOF marker, unless Close is at it.
LEMMA ReadCloseAtMarkerStep ==
    ASSUME Inv, ReadCloseAtMarker
    PROVE  Inv' /\ (P!Shut \/ UNCHANGED <<Back, pos, count, chanClosed>>)
  <1> USE DEF Inv, ReadCloseAtMarker, MayClose, Return, loop
  <1>1. UNCHANGED <<Front, Back>> /\ InOrder'
    BY QueueUntouched
  <1>2. UNCHANGED panic /\ closed' = TRUE /\ (~closed => chanClosed' = TRUE /\ ~chanClosed)
    BY Zenon DEF ClosedOnce, TypeOK
  <1>3. closed => UNCHANGED chanClosed
    OBVIOUS
  <1>4. TypeOK'
    BY <1>2, <1>3, Zenon DEF TypeOK
  <1>5. Contiguous'
    BY <1>1, <1>2 DEF Contiguous, Size
  <1>6. ClosedOnce' /\ EofMeansEnded'
    BY <1>2, <1>3 DEF ClosedOnce, EofMeansEnded
  <1>7. MarkerFirst'
    BY <1>2 DEF MarkerFirst, MarkerOut, PanicNeedsRace, IsMarker, Size
  <1>8. P!Shut \/ UNCHANGED <<Back, pos, count, chanClosed>>
    BY <1>1, <1>2, <1>3 DEF P!Shut
  <1> QED
    BY <1>1, <1>4, <1>5, <1>6, <1>7, <1>8

\* Saving the rest of a frame moves no byte.
LEMMA ReadSaveRestStep ==
    ASSUME Inv, ReadSaveRest
    PROVE  Inv' /\ UNCHANGED <<Back, pos, count, chanClosed>>
  <1> USE DEF Inv, ReadSaveRest, loop, chan
  <1>1. Front' = Front
    BY FrameFacts DEF Front, Size, TypeOK, Contiguous
  <1>2. Back' = Back /\ InOrder'
    BY <1>1 DEF Back, InOrder
  <1>3. TypeOK'
    BY Zenon DEF TypeOK
  <1>4. Contiguous'
    BY <1>1, <1>2 DEF Contiguous, Size
  <1>5. ClosedOnce' /\ EofMeansEnded'
    BY DEF ClosedOnce, EofMeansEnded
  <1>6. MarkerFirst'
    BY DEF MarkerFirst, MarkerOut, PanicNeedsRace, IsMarker, Size
  <1> QED
    BY <1>2, <1>3, <1>4, <1>5, <1>6
-----------------------------------------------------------------------------
\* Every step keeps the invariant and is a step of the pipe or a stutter.
LEMMA NextStep == Inv /\ [Next]_vars => Inv' /\ [P!Next]_(P!vars)
  <1> SUFFICES ASSUME Inv, [Next]_vars PROVE Inv' /\ [P!Next]_(P!vars)
    OBVIOUS
  <1> USE DEF P!Next, P!vars
  <1>1. CASE \E n \in 0..MaxFrame : WriteDataCheck(n)
    BY <1>1, WriteDataCheckStep
  <1>2. CASE WriteDataSend
    BY <1>2, WriteDataSendStep
  <1>3. CASE \E e \in ReadErrors : WriteError(e)
    BY <1>3, WriteErrorStep
  <1>4. CASE CloseMark
    BY <1>4, CloseMarkStep
  <1>5. CASE CloseChan
    BY <1>5, CloseChanStep
  <1>6. CASE ReadStart
    BY <1>6, ReadStartStep
  <1>7. CASE ReadDrain
    BY <1>7, ReadDrainStep
  <1>8. CASE ReadTry
    BY <1>8, ReadTryStep
  <1>9. CASE ReadWaitData
    BY <1>9, ReceiveFrameStep DEF ReadWaitData
  <1>10. CASE ReadWaitError
    BY <1>10, ReadWaitErrorStep
  <1>11. CASE ReadCloseAtMarker
    BY <1>11, ReadCloseAtMarkerStep
  <1>12. CASE ReadSaveRest
    BY <1>12, ReadSaveRestStep
  <1>13. CASE UNCHANGED vars
    <2> USE <1>13 DEF vars, chan, reader, loop
    <2>1. UNCHANGED <<Front, Back>>
      BY DEF Front, Back, Size
    <2>2. TypeOK' /\ InOrder'
      <3>1. TypeOK' <=> TypeOK
        BY DEF TypeOK
      <3> QED
        BY <3>1 DEF Inv, InOrder
    <2>3. Contiguous' /\ ClosedOnce' /\ EofMeansEnded'
      BY <2>1 DEF Inv, Contiguous, ClosedOnce, EofMeansEnded, Size
    <2>4. MarkerFirst'
      BY DEF Inv, MarkerFirst, MarkerOut, PanicNeedsRace, IsMarker, Size
    <2> QED
      BY <2>1, <2>2, <2>3, <2>4 DEF Inv
  <1> QED
    BY <1>1, <1>2, <1>3, <1>4, <1>5, <1>6, <1>7, <1>8, <1>9, <1>10, <1>11, <1>12, <1>13
    DEF Next

(***************************************************************************)
(* In every behaviour of the reader, for every capacity of dataChan and    *)
(* every frame and read size, its state has the declared types and         *)
(* dataChan never holds more than Cap frames.                              *)
(***************************************************************************)
THEOREM TypeCorrect == Spec => []TypeOK
  <1>1. Inv => TypeOK
    BY DEF Inv
  <1> QED
    BY InitInv, NextStep, <1>1, PTL DEF Spec

(***************************************************************************)
(* Read hands out the bytes of the stream in order and each once, whatever *)
(* the interleaving with WriteData, WriteError and Close.                  *)
(***************************************************************************)
THEOREM BytesInOrder == Spec => []InOrder
  <1>1. Inv => InOrder
    BY DEF Inv
  <1> QED
    BY InitInv, NextStep, <1>1, PTL DEF Spec

(***************************************************************************)
(* The race between Close and a Read at the EOF marker never closes        *)
(* dataChan twice.                                                         *)
(***************************************************************************)
THEOREM ChannelClosedOnce == Spec => []NoDoubleClose
  <1>1. Inv => NoDoubleClose
    BY DEF Inv, ClosedOnce, NoDoubleClose
  <1> QED
    BY InitInv, NextStep, <1>1, PTL DEF Spec

(***************************************************************************)
(* The send on a closed channel that can kill the process needs a local    *)
(* Close or a frame after the EOF marker.                                  *)
(***************************************************************************)
THEOREM PanicOnlyByRace == Spec => []PanicNeedsRace
  <1>1. Inv => PanicNeedsRace
    BY DEF Inv, MarkerFirst
  <1> QED
    BY InitInv, NextStep, <1>1, PTL DEF Spec

(***************************************************************************)
(* Read reports EOF only after the peer's EOF marker, a local Close or a   *)
(* clean end of the connection, never after a failure of it.               *)
(***************************************************************************)
THEOREM EofOnlyWhenEnded == Spec => []EofJustified
  <1>1. Inv => EofJustified
    BY Zenon DEF Inv, EofMeansEnded, MarkerFirst, MarkerOut, EofJustified
  <1> QED
    BY InitInv, NextStep, <1>1, PTL DEF Spec

(***************************************************************************)
(* The reader implements the abstract pipe.                                *)
(***************************************************************************)
THEOREM Refinement == Spec => ImplementsPipe
  <1>1. Init => P!Init
    BY DEF Init, P!Init, Back, Front, Slice, Size
  <1> QED
    BY InitInv, NextStep, <1>1, PTL DEF Spec, ImplementsPipe, P!Spec
=============================================================================
