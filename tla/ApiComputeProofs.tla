-------------------------- MODULE ApiComputeProofs --------------------------
(***************************************************************************)
(* Proofs about ApiCompute, for any handlers and any amount of output.     *)
(***************************************************************************)
EXTENDS ApiCompute, SequenceTheorems, TLAPS

(***************************************************************************)
(* The inductive invariant, in parts.  Each is named for the state it is   *)
(* about, and has a lemma that says which steps keep it and why.           *)
(***************************************************************************)
Endings == [err : BOOLEAN, code : {0, 1, -1}]

Scalars ==
    /\ case \in Cases /\ pc \in {"call", "buffer", "add", "monitor", "done"}
    /\ proc \in {"none", "running", "exited"} /\ {code, exit} \subseteq {None, 0, 1, -1}
    /\ link \in {"none", "up", "down"} /\ mon \in {"off", "start", "wait", "write", "end"}
    /\ unseen \subseteq {"finished", "exit", "status"} /\ cut \in Std \cup {None}
    /\ status \in {"running", "completed", "failed", "cancelled", "torn"}

\* Only a command that has exited has an exit code or leaves heirs.
Exited ==
    /\ result \in Endings \cup {None} /\ heirs \in BOOLEAN
    /\ proc = "exited" <=> code # None
    /\ pc = "call" => proc = "none"
    /\ heirs => proc = "exited" /\ kind = "local"

Progress ==
    /\ fw \in [Std -> {"off", "read", "buf", "log", "rest", "end"}]
    /\ rd \in [Streams -> {"off", "read", "end"}]
    /\ emitted \in [Std -> Nat] /\ taken \in [Std -> Nat]
    /\ \A s \in Std : emitted[s] <= case.chunks[s] /\ taken[s] <= emitted[s]

\* A chunk has been written by the command.
Chunk == Std \X Nat
Among(c, e) == c[2] <= e[c[1]]
Known(c) == Among(c, emitted)

Contents ==
    /\ hand \in [Streams -> Chunk \cup {None}] /\ queue \in [Streams -> Seq(Chunk)]
    /\ buf \in [Streams -> Seq(Chunk) \cup {None}]
    /\ \A s \in Streams :
         /\ hand[s] # None => Known(hand[s])
         /\ \A i \in 1..Len(queue[s]) : Known(queue[s][i])
         /\ buf[s] # None => \A i \in 1..Len(buf[s]) : Known(buf[s][i])

\* Where a handler is tells what it does; Cleanup holds runsMu.
Cleaning == {"client", "complete", "streams", "handle", "buffers"}
Looking == {"get", "seeFinished", "seeExit"}

Handling ==
    /\ at \in [Reqs -> Places] /\ op \in [Reqs -> Ops \cup {None}] /\ mu \in Reqs \cup {None}
    /\ \A r \in Reqs :
         /\ at[r] = "idle" <=> op[r] = None
         /\ at[r] \in Looking => op[r] = "get"
         /\ op[r] = "get" => at[r] \in Looking \cup {"end"}
         /\ at[r] \in {"closePipes", "asked", "mark"} => op[r] = "cancel"
         /\ at[r] \in Cleaning <=> mu = r
         /\ at[r] \in {"handle", "buffers"} => ~pipeR

\* The monitor stores what it has learnt of a result that is there, and an
\* end without an error and with code 0 is that of the process.
Verdicts == {"completed", "failed"}
Recorded ==
    /\ pc # "done" => mon = "off"
    /\ mon = "write" \/ finished \/ exit # None \/ status \in Verdicts => result # None
    /\ exit # None => exit = result.code
    /\ status \in Verdicts => status = Verdict(result)
    /\ result # None /\ result.code = 0 /\ ~case.conda => ~result.err /\ code = 0

\* What a handler has read of a run that has ended stays true.
Shaped(a) == a = [status |-> a.status, finished |-> a.finished, exit |-> a.exit,
                  of |-> a.of, seen |-> a.seen]
Told ==
    /\ ans = [r \in Reqs |-> ans[r]]
    /\ \A r \in Reqs : /\ op[r] \in {None, "get"} => Shaped(ans[r]) /\ AnswerTrue(ans[r])

\* Output of a local run that nobody cancels or deletes: each chunk taken is
\* in the buffer, or with the buffering goroutine, or with the forwarder.
InHands(s) == IF hand[s] = None THEN 0 ELSE 1
InForward(s) == IF fw[s] = "buf" THEN 1 ELSE 0
Accounted(s) ==
    /\ taken[s] = Len(Buffered(s)) + InHands(s) + InForward(s)
    /\ buf[s] = None => rd[s] = "off" /\ hand[s] = None
    /\ pc \in {"call", "buffer"} => buf[s] = None

\* Its pipes are closed when it has exited and they are drained.
Stops ==
    /\ outOpen \/ (proc = "exited" /\ ~heirs /\ \A s \in Std : Drained(s))
    /\ result # None => ~outOpen
    /\ \A s \in Std : bufW[s] \/ fw[s] = "end"
    /\ pc = "call" => proc = "none" /\ \A s \in Std : fw[s] = "off" /\ bufW[s]

Counted ==
    kind = "local" /\ Uncancelled => Stops /\ (pipeR => \A s \in Std : Accounted(s))

Inv == Scalars /\ Exited /\ Progress /\ Contents /\ Handling /\ Recorded /\ Told /\ Counted

\* The initial state satisfies the inductive invariant.
LEMMA InitInv == Init => Inv
  <1> SUFFICES ASSUME Init PROVE Inv
    OBVIOUS
  <1>1. Scalars
    BY DEF Init, Scalars
  <1>8. Exited
    BY DEF Init, Exited
  <1>2. Progress
    BY ApiAssumption DEF Init, Progress, Std
  <1>3. Contents
    BY DEF Init, Contents
  <1>4. Handling
    BY ApiAssumption DEF Init, Handling, Places, Looking, Cleaning, Ops
  <1>5. Recorded
    BY DEF Init, Recorded, Verdicts
  <1>6. Told
    BY ApiAssumption DEF Init, Told, Shaped, AnswerTrue, NoAnswer
  <1>7. Counted
    BY DEF Init, Counted, Stops, Accounted, Buffered, InHands, InForward, Std, Streams
  <1> QED
    BY <1>1, <1>2, <1>3, <1>4, <1>5, <1>6, <1>7, <1>8 DEF Inv
-----------------------------------------------------------------------------
(* The steps, by who takes them.                                           *)

CommandStep == (\E s \in Std : Emit(s)) \/ Exit \/ HeirsExit \/ Wait \/ StatusEvent \/ LinkFails \/ LogClose
CarryStep == (\E s \in Std : ForwardStep(s)) \/ (\E s \in Streams : BufferStep(s))
LookStep(r) ==
    \/ \E o \in case.ops[r] : Lookup(r, o)
    \/ Get(r) \/ \E s \in Streams : Stream(r, s)
CallStep(r) == CheckStatus(r) \/ CheckHandle(r) \/ CancelAsk(r) \/ StdinBegin(r) \/ StdinEnd(r)
CancelStep(r) == CancelLocal(r) \/ CancelPipes(r) \/ CancelAnswered(r) \/ CancelMark(r)

\* Every step is one of these.
LEMMA Steps ==
    ASSUME Next
    PROVE  \/ ExecuteStep \/ CommandStep \/ CarryStep \/ MonitorStep
           \/ \E r \in Reqs : LookStep(r) \/ CallStep(r) \/ CancelStep(r) \/ DeleteStep(r)
    BY DEF Next, CommandStep, CarryStep, LookStep, CallStep, CancelStep, HandlerStep, BufferStep

\* What a server reports.
LEMMA ReportsTyped ==
    /\ Canceled \in Endings
    /\ Inv /\ proc = "exited" => Reports \subseteq Endings
  <1>1. Canceled \in Endings
    BY DEF Canceled, Ended, Endings
  <1>2. ASSUME Inv, proc = "exited" PROVE Reports \subseteq Endings
    <2>1. code \in {0, 1, -1}
      BY <1>2 DEF Inv, Scalars, Exited
    <2>2. Reports \subseteq {Ended(code > 0, code), Ended(FALSE, 0), Canceled, Ended(TRUE, 0)}
      BY Zenon DEF Reports
    <2>3. Ended(FALSE, 0) \in Endings /\ Ended(TRUE, 0) \in Endings
      BY DEF Ended, Endings
    <2>4. Ended(code > 0, code) \in Endings
      <3>1. (code > 0) \in BOOLEAN
        OBVIOUS
      <3> QED
        BY <2>1, <3>1 DEF Ended, Endings
    <2> QED
      BY <1>1, <2>2, <2>3, <2>4
  <1> QED
    BY <1>1, <1>2

\* How a process ends.
LEMMA EndsFacts ==
    ASSUME Inv, NEW c \in {-1, 0, 1}, Ends(c)
    PROVE  /\ proc' = "exited" /\ code' = c /\ c # None
           /\ heirs' \in BOOLEAN /\ (heirs' => kind = "local")
  <1>1. case.heirs \in BOOLEAN /\ (case.heirs => kind = "local")
    BY ApiAssumption DEF Inv, Scalars, kind
  <1>2. heirs' = FALSE \/ heirs' = case.heirs
    BY DEF Ends
  <1>3. c # None
    BY ApiAssumption
  <1> QED
    BY <1>1, <1>2, <1>3 DEF Ends

LEMMA CodesFacts == ASSUME Inv PROVE case.codes \subseteq {-1, 0, 1}
    BY ApiAssumption DEF Inv, Scalars

LEMMA ScalarsStay ==
    ASSUME Inv, UNCHANGED <<case, pc, code, exit, mon, unseen, status>>,
           proc' \in {"none", "running", "exited"}, link' \in {"none", "up", "down"},
           cut' \in Std \cup {None}
    PROVE  Scalars'
    BY DEF Inv, Scalars

\* The scalar variables keep their types.
LEMMA ScalarsKept == ASSUME Inv, Next PROVE Scalars'
  <1> USE DEF Inv, Scalars
  <1>1. CASE ExecuteStep
    BY <1>1 DEF ExecuteStep, Execute, StartBuffering, AddRun, MonitorRunCompletion, Runs, command,
                remote, forwarders, fields
  <1>2. CASE CommandStep
    <2>1. CASE Exit
      <3>1. PICK c \in {-1, 0, 1} : Ends(c)
        BY <2>1, CodesFacts DEF Exit
      <3> QED
        BY <2>1, <3>1 DEF Exit, Ends, Runs, remote, forwarders, fields
    <2>2. CASE (\E s \in Std : Emit(s)) \/ HeirsExit \/ Wait \/ StatusEvent \/ LinkFails \/ LogClose
      BY <2>2, ScalarsStay DEF Emit, HeirsExit, Wait, StatusEvent, LinkFails, LogClose, Runs,
                               command, remote, forwarders, fields
    <2> QED
      BY <1>2, <2>1, <2>2 DEF CommandStep
  <1>3. CASE CarryStep
    <2>1. UNCHANGED <<case, pc, command, link, fields, mon>>
      BY <1>3 DEF CarryStep, ForwardStep, ForwardRead, ForwardBuffer, ForwardLogPart, ForwardLog,
                  ForwardEnd, BufferStep, BufferRead, BufferWrite, BufferEnd, Runs, remote
    <2>2. cut' \in Std \cup {None}
      BY <1>3 DEF CarryStep, ForwardStep, ForwardRead, ForwardBuffer, ForwardLogPart, ForwardLog,
                  ForwardEnd, BufferStep, BufferRead, BufferWrite, BufferEnd, forwarders
    <2> QED
      BY <2>1, <2>2, ScalarsStay DEF command, fields
  <1>4. CASE MonitorStep
    <2>1. CASE MonitorStart \/ MonitorDone
      BY <1>4, <2>1 DEF MonitorStart, MonitorDone, command, remote, forwarders, fields
    <2>2. ASSUME NEW f \in {"finished", "exit", "status"}, MonitorWrite(f) PROVE Scalars'
      <3>1. result.code \in {0, 1, -1}
        BY <2>2 DEF MonitorWrite, Recorded, Exited, Endings
      <3>2. status' \in {"running", "completed", "failed", "cancelled", "torn"}
        BY <2>2 DEF MonitorWrite, Stored, Verdict
      <3> QED
        BY <2>2, <3>1, <3>2 DEF MonitorWrite, Runs, command, remote, forwarders
    <2> QED
      BY <1>4, <2>1, <2>2 DEF MonitorStep
  <1>5. ASSUME NEW r \in Reqs, LookStep(r) \/ CallStep(r) PROVE Scalars'
    BY <1>5, ScalarsStay
       DEF LookStep, Lookup, Get, Stream, CallStep, CheckStatus, CheckHandle, CancelAsk,
           StdinBegin, StdinEnd, Runs, command, remote, forwarders, fields
  <1>6. ASSUME NEW r \in Reqs, CancelStep(r) PROVE Scalars'
    <2>1. CASE CancelLocal(r)
      BY <2>1 DEF CancelLocal, Ends, Runs, remote, forwarders, fields
    <2>2. CASE CancelAnswered(r)
      BY <2>2 DEF CancelAnswered, Ends, Runs, remote, forwarders, fields
    <2>3. CASE CancelPipes(r)
      BY <2>3 DEF CancelPipes, Runs, command, remote, fields
    <2>4. CASE CancelMark(r)
      <3>1. status' \in {"cancelled", "torn"}
        BY <2>4 DEF CancelMark, Stored
      <3> QED
        BY <2>4, <3>1 DEF CancelMark, Runs, command, remote, forwarders
    <2> QED
      BY <1>6, <2>1, <2>2, <2>3, <2>4 DEF CancelStep
  <1>7. ASSUME NEW r \in Reqs, DeleteStep(r) PROVE Scalars'
    BY <1>7, ScalarsStay DEF DeleteStep, RemoveRun, Cleanup, Runs, command, remote, forwarders, fields
  <1> QED
    BY <1>1, <1>2, <1>3, <1>4, <1>5, <1>6, <1>7, Steps

LEMMA ExitedStays ==
    ASSUME Inv, UNCHANGED <<case, pc, proc, code, heirs>>, result' \in Endings \cup {None}
    PROVE  Exited'
    BY DEF Inv, Exited, kind

LEMMA ExitedEnds ==
    ASSUME Inv, Next, NEW c \in {-1, 0, 1}, Ends(c), proc = "running",
           UNCHANGED <<case, pc, result>>
    PROVE  Exited'
  <1>1. /\ proc' = "exited" /\ code' = c /\ c # None
        /\ heirs' \in BOOLEAN /\ (heirs' => kind = "local")
    BY EndsFacts
  <1>2. pc # "call"
    BY DEF Inv, Exited
  <1> QED
    BY <1>1, <1>2 DEF Inv, Exited, kind

\* A process exits once.
LEMMA ExitedKept == ASSUME Inv, Next PROVE Exited'
  <1> USE DEF Inv
  <1>0. result \in Endings \cup {None}
    BY DEF Exited
  <1>1. CASE ExecuteStep
    <2>1. CASE Execute
      <3>1. ~heirs /\ code = None
        BY <2>1 DEF Execute, Exited
      <3> QED
        BY <2>1, <3>1 DEF Execute, Runs, Exited, kind
    <2>2. CASE StartBuffering \/ AddRun \/ MonitorRunCompletion
      BY <2>2 DEF StartBuffering, AddRun, MonitorRunCompletion, Runs, command, Exited, kind
    <2> QED
      BY <1>1, <2>1, <2>2 DEF ExecuteStep
  <1>2. CASE CommandStep
    <2>1. CASE Exit
      <3>1. PICK c \in {-1, 0, 1} : Ends(c)
        BY <2>1, CodesFacts DEF Exit
      <3> QED
        BY <2>1, <3>1, ExitedEnds DEF Exit, Runs
    <2>2. CASE HeirsExit
      BY <2>2 DEF HeirsExit, Runs, Exited, kind
    <2>3. CASE Wait
      <3>1. code \in {0, 1, -1}
        BY <2>3 DEF Wait, Exited, Scalars
      <3>2. (code # 0) \in BOOLEAN /\ (-1 # 0) \in BOOLEAN
        OBVIOUS
      <3>3. Plain(code) \in Endings /\ Plain(-1) \in Endings
        BY <3>1, <3>2 DEF Plain, Ended, Endings
      <3>4. result' \in Endings
        BY <2>3, <3>3 DEF Wait
      <3> QED
        BY <2>3, <3>4, ExitedStays DEF Wait, Runs
    <2>4. CASE StatusEvent
      BY <2>4, ReportsTyped, ExitedStays DEF StatusEvent, Runs
    <2>5. CASE (\E s \in Std : Emit(s)) \/ LinkFails \/ LogClose
      BY <1>0, <2>5, ExitedStays DEF Emit, LinkFails, LogClose, Runs, command
    <2> QED
      BY <1>2, <2>1, <2>2, <2>3, <2>4, <2>5 DEF CommandStep
  <1>3. CASE CarryStep \/ MonitorStep
    BY <1>0, <1>3, ExitedStays
       DEF CarryStep, ForwardStep, ForwardRead, ForwardBuffer, ForwardLogPart, ForwardLog, ForwardEnd,
           BufferStep, BufferRead, BufferWrite, BufferEnd, MonitorStep, MonitorStart, MonitorDone,
           MonitorWrite, Runs, command
  <1>5. ASSUME NEW r \in Reqs, LookStep(r) \/ CallStep(r) PROVE Exited'
    BY <1>0, <1>5, ExitedStays
       DEF LookStep, Lookup, Get, Stream, CallStep, CheckStatus, CheckHandle, CancelAsk,
           StdinBegin, StdinEnd, Runs, command
  <1>6. ASSUME NEW r \in Reqs, CancelStep(r) PROVE Exited'
    <2>1. UNCHANGED <<case, pc, result>>
      BY <1>6 DEF CancelStep, CancelLocal, CancelPipes, CancelAnswered, CancelMark, Runs, command
    <2>2. UNCHANGED <<proc, code, heirs>> \/ (proc = "running" /\ Ends(-1))
      BY <1>6, Zenon DEF CancelStep, CancelLocal, CancelPipes, CancelAnswered, CancelMark, command
    <2> QED
      BY <1>0, <2>1, <2>2, ExitedStays, ExitedEnds
  <1>7. ASSUME NEW r \in Reqs, DeleteStep(r) PROVE Exited'
    BY <1>0, <1>7, ReportsTyped, ExitedStays DEF DeleteStep, RemoveRun, Cleanup, Runs, command
  <1> QED
    BY <1>1, <1>2, <1>3, <1>5, <1>6, <1>7, Steps

\* No stream has more chunks than its command may write, or than it has
\* written.
LEMMA ProgressKept == ASSUME Inv, Next PROVE Progress'
  <1> USE DEF Inv, Progress
  <1>1. CASE ExecuteStep
    BY <1>1 DEF ExecuteStep, Execute, StartBuffering, AddRun, MonitorRunCompletion, Runs, command,
                readers, forwarders
  <1>2. CASE CommandStep
    <2>1. ASSUME NEW s \in Std, Emit(s) PROVE Progress'
      BY <2>1, ApiAssumption DEF Scalars, Emit, Runs, forwarders, readers
    <2>2. CASE Exit \/ HeirsExit \/ Wait \/ StatusEvent \/ LinkFails \/ LogClose
      BY <2>2 DEF Exit, HeirsExit, Wait, StatusEvent, LinkFails, LogClose, Runs, command, forwarders, readers
    <2> QED
      BY <1>2, <2>1, <2>2 DEF CommandStep
  <1>3. ASSUME NEW s \in Std, ForwardStep(s) PROVE Progress'
    BY <1>3 DEF ForwardStep, ForwardRead, ForwardBuffer, ForwardLogPart, ForwardLog, ForwardEnd, Forward, Runs,
                command, readers
  <1>4. ASSUME NEW s \in Streams, BufferStep(s) PROVE Progress'
    BY <1>4 DEF BufferStep, BufferRead, BufferWrite, BufferEnd, Runs, command, forwarders
  <1>5. CASE MonitorStep
    BY <1>5 DEF MonitorStep, MonitorStart, MonitorDone, MonitorWrite, Runs, command, forwarders,
                readers
  <1>6. ASSUME NEW r \in Reqs, LookStep(r) \/ CallStep(r) PROVE Progress'
    BY <1>6 DEF LookStep, Lookup, Get, Stream, CallStep, CheckStatus, CheckHandle, CancelAsk,
                StdinBegin, StdinEnd, Runs, command, forwarders, readers
  <1>7. ASSUME NEW r \in Reqs, CancelStep(r) PROVE Progress'
    BY <1>7 DEF CancelStep, CancelLocal, CancelPipes, CancelAnswered, CancelMark, Runs, command,
                forwarders, readers
  <1>8. ASSUME NEW r \in Reqs, DeleteStep(r) PROVE Progress'
    BY <1>8 DEF DeleteStep, RemoveRun, Cleanup, Runs, command, forwarders, readers
  <1> QED
    BY <1>1, <1>2, <1>3, <1>4, <1>5, <1>6, <1>7, <1>8, Steps DEF CarryStep

\* What is known stays known, and so does what leaves the buffers, the
\* queues and the hands alone.
LEMMA ContentsStay ==
    ASSUME Inv, Progress', \A s \in Std : emitted[s] <= emitted'[s], UNCHANGED <<hand, queue, buf>>
    PROVE  Contents'
  <1>1. \A c \in Chunk : Known(c) => Known(c)'
    BY DEF Inv, Progress, Chunk, Known, Among
  <1> QED
    BY <1>1 DEF Inv, Contents

\* Whatever is on its way to a buffer, or in it, has been written.
LEMMA ContentsKept == ASSUME Inv, Next PROVE Contents'
  <1> USE DEF Inv, Contents
  <1>0. Progress'
    BY ProgressKept
  <1>1. CASE ExecuteStep
    <2>1. CASE StartBuffering
      <3>1. buf' = [s \in Streams |-> <<>>] /\ UNCHANGED <<hand, queue, emitted>>
        BY <2>1 DEF StartBuffering, command, remote
      <3>2. \A s \in Streams : buf'[s] \in Seq(Chunk) /\ Len(buf'[s]) = 0
        BY <3>1
      <3> QED
        BY <3>1, <3>2 DEF Known, Among
    <2>2. CASE Execute \/ AddRun \/ MonitorRunCompletion
      BY <2>2 DEF Execute, AddRun, MonitorRunCompletion, command, remote, readers, Known, Among
    <2> QED
      BY <1>1, <2>1, <2>2 DEF ExecuteStep
  <1>2. CASE CommandStep
    <2>1. ASSUME NEW s \in Std, Emit(s) PROVE Contents'
      <3> DEFINE c == <<s, emitted[s] + 1>>
      <3>1. \A t \in Std : emitted[t] \in Nat /\ emitted'[t] \in Nat /\ emitted[t] <= emitted'[t]
        BY <1>0, <2>1 DEF Emit, Progress
      <3>2. \A d \in Chunk : Known(d) => Among(d, emitted')
        BY <3>1 DEF Chunk, Known, Among
      <3>3. c \in Chunk /\ Among(c, emitted')
        BY <2>1, <3>1 DEF Emit, Progress, Chunk, Among
      <3>4. UNCHANGED <<hand, buf>>
        BY <2>1 DEF Emit, readers
      <3>5. queue' = [t \in Streams |-> IF kind = "remote" /\ link = "up" /\ t \in {s, "log"}
                                         THEN Append(queue[t], c) ELSE queue[t]]
        BY <2>1 DEF Emit, Std, Streams
      <3>6. ASSUME NEW q \in Seq(Chunk), \A i \in 1..Len(q) : Among(q[i], emitted')
            PROVE  Append(q, c) \in Seq(Chunk) /\ \A i \in 1..Len(Append(q, c)) : Among(Append(q, c)[i], emitted')
        <4> HIDE DEF c
        <4> QED
          BY <3>3, <3>6
      <3>7. ASSUME NEW t \in Streams
            PROVE  queue'[t] \in Seq(Chunk) /\ \A i \in 1..Len(queue'[t]) : Among(queue'[t][i], emitted')
        <4>1. \A i \in 1..Len(queue[t]) : Among(queue[t][i], emitted')
          BY <3>2 DEF Known
        <4> QED
          BY <3>5, <3>6, <4>1
      <3>8. queue' \in [Streams -> Seq(Chunk)]
        BY <3>5, <3>7
      <3>9. ASSUME NEW t \in Streams
            PROVE  /\ hand[t] # None => Among(hand[t], emitted')
                   /\ buf[t] # None => \A i \in 1..Len(buf[t]) : Among(buf[t][i], emitted')
        BY <3>2 DEF Known
      <3> QED
        BY <3>4, <3>7, <3>8, <3>9 DEF Known
    <2>2. CASE Exit \/ HeirsExit \/ Wait \/ StatusEvent \/ LinkFails \/ LogClose
      BY <2>2 DEF Exit, HeirsExit, Wait, StatusEvent, LinkFails, LogClose, Runs, command, remote, readers, Known, Among
    <2> QED
      BY <1>2, <2>1, <2>2 DEF CommandStep
  <1>3. ASSUME NEW s \in Std, ForwardStep(s) PROVE Contents'
    <2>1. InHand(s) \in Chunk /\ (fw[s] \in {"buf", "log", "rest"} => Known(InHand(s)))
      BY DEF InHand, Chunk, Known, Among, Progress
    <2>2. CASE ForwardLog(s)
      BY <2>1, <2>2 DEF ForwardLog, Forward, Runs, command, remote, Known, Among, Std, Streams
    <2>3. CASE ForwardLogPart(s)
      BY <2>3 DEF ForwardLogPart, Runs, command, remote, readers, Known, Among
    <2> QED
      BY <1>3, <2>1, <2>2, <2>3 DEF ForwardStep, ForwardRead, ForwardBuffer, ForwardEnd, Forward, Runs,
                command, remote, readers, Known, Among, Std, Streams
  <1>4. ASSUME NEW s \in Streams, BufferStep(s) PROVE Contents'
    <2>1. CASE BufferRead(s)
      BY <1>4, <2>1 DEF BufferRead, Runs, command, Known, Among
    <2>2. CASE BufferWrite(s)
      BY <1>4, <2>2 DEF BufferWrite, Runs, command, remote, Known, Among
    <2>3. CASE BufferEnd(s)
      BY <1>4, <2>3 DEF BufferEnd, Runs, command, remote, Known, Among
    <2> QED
      BY <1>4, <2>1, <2>2, <2>3 DEF BufferStep
  <1>5. CASE MonitorStep
    BY <1>5 DEF MonitorStep, MonitorStart, MonitorDone, MonitorWrite, Runs, command, remote,
                readers, Known, Among
  <1>6. ASSUME NEW r \in Reqs, LookStep(r) \/ CallStep(r) PROVE Contents'
    BY <1>6 DEF LookStep, Lookup, Get, Stream, CallStep, CheckStatus, CheckHandle, CancelAsk,
                StdinBegin, StdinEnd, Runs, command, remote, readers, Known, Among
  <1>7. ASSUME NEW r \in Reqs, CancelStep(r) PROVE Contents'
    BY <1>7 DEF CancelStep, CancelLocal, CancelPipes, CancelAnswered, CancelMark, Runs, command,
                remote, readers, Known, Among
  <1>8. ASSUME NEW r \in Reqs, DeleteStep(r) PROVE Contents'
    BY <1>8 DEF DeleteStep, RemoveRun, Cleanup, Runs, command, remote, readers, Known, Among
  <1> QED
    BY <1>1, <1>2, <1>3, <1>4, <1>5, <1>6, <1>7, <1>8, Steps DEF CarryStep

\* The order in which a handler reads the fields.
LEMMA ReadsFacts ==
    /\ DOMAIN Reads = Looking
    /\ Reads["get"] = "seeFinished" /\ Reads["seeFinished"] = "seeExit" /\ Reads["seeExit"] = "end"
    BY DEF Reads, Looking

\* Handlers do one thing each, and one at a time runs Cleanup.
LEMMA HandlingKept == ASSUME Inv, Next PROVE Handling'
  <1> USE DEF Inv, Handling
  <1>1. CASE ExecuteStep \/ CommandStep \/ CarryStep \/ MonitorStep
    <2>1. UNCHANGED <<at, op, mu, pipeR>>
      BY <1>1 DEF ExecuteStep, Execute, StartBuffering, AddRun, MonitorRunCompletion,
                  CommandStep, Emit, Exit, HeirsExit, Wait, StatusEvent, LinkFails, LogClose,
                  CarryStep, ForwardStep, ForwardRead, ForwardBuffer, ForwardLogPart, ForwardLog, ForwardEnd,
                  BufferStep, BufferRead, BufferWrite, BufferEnd,
                  MonitorStep, MonitorStart, MonitorDone, MonitorWrite, handlers, manager, readers
    <2> QED
      BY <2>1
  <1>2. ASSUME NEW r \in Reqs, LookStep(r) PROVE Handling'
    <2>1. ASSUME NEW o \in case.ops[r], Lookup(r, o) PROVE Handling'
      <3>1. o \in Ops
        BY ApiAssumption DEF Scalars
      <3> QED
        <4>1. /\ at[r] = "idle" /\ op' = [op EXCEPT ![r] = o]
              /\ at' = [at EXCEPT ![r] = o] \/ at' = [at EXCEPT ![r] = "end"]
              /\ UNCHANGED <<mu, pipeR>>
          BY <2>1 DEF Lookup, Goto, readers, manager
        <4> QED
          BY <3>1, <4>1, ApiAssumption DEF Looking, Cleaning, Ops, Places
    <2>2. CASE Get(r)
      <3>1. at[r] \in Looking /\ at' = [at EXCEPT ![r] = Reads[at[r]]]
        BY <2>2, ReadsFacts DEF Get, Goto
      <3>2. Reads[at[r]] \in {"seeFinished", "seeExit", "end"}
        BY <3>1, ReadsFacts DEF Looking
      <3>3. UNCHANGED <<op, mu, pipeR>>
        BY <2>2 DEF Get, readers, manager
      <3> QED
        BY <3>1, <3>2, <3>3 DEF Looking, Cleaning, Places
    <2>3. ASSUME NEW s \in Streams, Stream(r, s) PROVE Handling'
      BY <2>3 DEF Stream, Answer, Goto, readers, manager, Looking, Cleaning, Places
    <2> QED
      BY <1>2, <2>1, <2>2, <2>3 DEF LookStep
  <1>3. ASSUME NEW r \in Reqs, CallStep(r) PROVE Handling'
    BY <1>3 DEF CallStep, CheckStatus, CheckHandle, CancelAsk, StdinBegin, StdinEnd, Answer, Goto,
                readers, manager, Looking, Cleaning, Places
  <1>4. ASSUME NEW r \in Reqs, CancelStep(r) PROVE Handling'
    BY <1>4 DEF CancelStep, CancelLocal, CancelPipes, CancelAnswered, CancelMark, Answer, Goto,
                readers, manager, Looking, Cleaning, Places
  <1>5. ASSUME NEW r \in Reqs, DeleteStep(r) PROVE Handling'
    <2>1. CASE RemoveRun(r)
      BY <2>1, ApiAssumption DEF RemoveRun, CleanupSteps, Answer, Goto, readers, Looking, Cleaning, Places
    <2>2. ASSUME NEW i \in 1..5, Cleanup(r, i) PROVE Handling'
      <3>1. at[r] \in Cleaning /\ mu = r /\ UNCHANGED op
        BY <2>2 DEF Cleanup, CleanupSteps, Cleaning
      <3>2. \E p \in Cleaning \cup {"end"} :
               /\ at' = [at EXCEPT ![r] = p]
               /\ p = "end" <=> at[r] = "buffers"
               /\ p = "handle" => at[r] = "streams"
               /\ p = "buffers" => at[r] = "handle"
        <4>1. \/ at[r] = "client" /\ at' = [at EXCEPT ![r] = "complete"]
              \/ at[r] = "complete" /\ at' = [at EXCEPT ![r] = "streams"]
              \/ at[r] = "streams" /\ at' = [at EXCEPT ![r] = "handle"]
              \/ at[r] = "handle" /\ at' = [at EXCEPT ![r] = "buffers"]
              \/ at[r] = "buffers" /\ at' = [at EXCEPT ![r] = "end"]
          <5>1. CASE i = 1
            BY <2>2, <5>1 DEF Cleanup, CleanupSteps, Goto
          <5>2. CASE i = 2
            BY <2>2, <5>2 DEF Cleanup, CleanupSteps, Goto
          <5>3. CASE i = 3
            BY <2>2, <5>3 DEF Cleanup, CleanupSteps, Goto
          <5>4. CASE i = 4
            BY <2>2, <5>4 DEF Cleanup, CleanupSteps, Goto
          <5>5. CASE i = 5
            BY <2>2, <5>5 DEF Cleanup, CleanupSteps, Goto
          <5> QED
            BY <5>1, <5>2, <5>3, <5>4, <5>5
        <4> QED
          BY <4>1 DEF Cleaning
      <3>3. (at[r] = "streams" => ~pipeR') /\ (~pipeR => ~pipeR')
        BY <2>2, Zenon DEF Cleanup
      <3>4. mu' = IF at[r] = "buffers" THEN None ELSE mu
        BY <2>2 DEF Cleanup
      <3> QED
        BY <3>1, <3>2, <3>3, <3>4, ApiAssumption DEF Looking, Cleaning, Places
    <2> QED
      BY <1>5, <2>1, <2>2 DEF DeleteStep
  <1> QED
    BY <1>1, <1>2, <1>3, <1>4, <1>5, Steps

\* A result, once there, and an exit code stay what they are.
LEMMA ResultStays ==
    ASSUME Inv, Next
    PROVE  case' = case /\ (result # None => result' = result) /\ (code # None => code' = code)
  <1> USE DEF Inv
  <1>1. CASE ExecuteStep
    BY <1>1 DEF ExecuteStep, Execute, StartBuffering, AddRun, MonitorRunCompletion, Runs, command
  <1>2. CASE CommandStep
    BY <1>2 DEF CommandStep, Emit, Exit, HeirsExit, Wait, StatusEvent, LinkFails, LogClose, Ends,
                Runs, command, Exited
  <1>3. CASE CarryStep
    BY <1>3 DEF CarryStep, ForwardStep, ForwardRead, ForwardBuffer, ForwardLogPart, ForwardLog,
                ForwardEnd, BufferStep, BufferRead, BufferWrite, BufferEnd, Runs, command
  <1>4. CASE MonitorStep
    BY <1>4 DEF MonitorStep, MonitorStart, MonitorDone, MonitorWrite, Runs, command
  <1>5. ASSUME NEW r \in Reqs, LookStep(r) \/ CallStep(r)
        PROVE  case' = case /\ result' = result /\ code' = code
    BY <1>5 DEF LookStep, Lookup, Get, Stream, CallStep, CheckStatus, CheckHandle, CancelAsk,
                StdinBegin, StdinEnd, Runs, command
  <1>6. ASSUME NEW r \in Reqs, CancelStep(r)
        PROVE  case' = case /\ result' = result /\ (code # None => code' = code)
    BY <1>6 DEF CancelStep, CancelLocal, CancelPipes, CancelAnswered, CancelMark, Ends, Runs, command,
                Exited
  <1>7. ASSUME NEW r \in Reqs, DeleteStep(r)
        PROVE  case' = case /\ (result # None => result' = result) /\ code' = code
    BY <1>7 DEF DeleteStep, RemoveRun, Cleanup, Runs, command
  <1> QED
    BY <1>1, <1>2, <1>3, <1>4, <1>5, <1>6, <1>7, Steps

\* A result with code 0 that a run without conda gets is that of the process.
LEMMA ResultTrue ==
    ASSUME Inv, Next, result = None, result' # None, result'.code = 0, ~case.conda
    PROVE  ~result'.err /\ code' = 0
  <1>1. CASE Wait
    <2>1. code' = code /\ (result' = Plain(code) \/ result' = Plain(-1))
      BY <1>1 DEF Wait
    <2>2. /\ Plain(code).code = code /\ (Plain(code).err <=> code # 0)
          /\ Plain(-1).code = -1
      BY DEF Plain, Ended
    <2> QED
      BY <2>1, <2>2
  <1>2. CASE StatusEvent
    <2>1. result' \in {Ended(code > 0, code), Canceled} /\ code' = code
      BY <1>2 DEF StatusEvent, Reports
    <2>2. Ended(code > 0, code).code = code /\ (Ended(code > 0, code).err <=> code > 0)
      BY DEF Ended
    <2>3. Canceled.code = -1
      BY DEF Canceled, Ended
    <2> QED
      BY <2>1, <2>2, <2>3
  <1>3. CASE ExecuteStep \/ CarryStep \/ MonitorStep \/ CommandStep
    <2>1. CASE (\E s \in Std : Emit(s)) \/ Exit \/ HeirsExit \/ LinkFails \/ LogClose
      BY <2>1 DEF Emit, Exit, HeirsExit, LinkFails, LogClose, command
    <2>2. CASE ExecuteStep \/ CarryStep \/ MonitorStep
      BY <2>2 DEF ExecuteStep, Execute, StartBuffering, AddRun, MonitorRunCompletion,
                  CarryStep, ForwardStep, ForwardRead, ForwardBuffer, ForwardLogPart, ForwardLog,
                  ForwardEnd, BufferStep, BufferRead, BufferWrite, BufferEnd,
                  MonitorStep, MonitorStart, MonitorDone, MonitorWrite, command
    <2> QED
      BY <1>1, <1>2, <1>3, <2>1, <2>2 DEF CommandStep
  <1>4. ASSUME NEW r \in Reqs, LookStep(r) \/ CallStep(r) \/ CancelStep(r) PROVE result' = result
    BY <1>4 DEF LookStep, Lookup, Get, Stream, CallStep, CheckStatus, CheckHandle, CancelAsk,
                StdinBegin, StdinEnd, CancelStep, CancelLocal, CancelPipes, CancelAnswered,
                CancelMark, command
  <1>5. ASSUME NEW r \in Reqs, DeleteStep(r) PROVE result' \in {result, Canceled}
    BY <1>5 DEF DeleteStep, RemoveRun, Cleanup, command
  <1>6. Canceled.code = -1
    BY DEF Canceled, Ended
  <1> QED
    BY <1>1, <1>2, <1>3, <1>4, <1>5, <1>6, Steps

\* What stays recorded when the monitor does not write.
LEMMA RecordedStays ==
    ASSUME Inv, Next, UNCHANGED <<finished, exit>>, mon' = "write" => mon = "write" \/ result # None,
           status' \in Verdicts => status' = status, pc' # "done" => mon' = "off"
    PROVE  Recorded'
  <1> USE DEF Inv, Recorded
  <1>1. CASE result = None
    BY <1>1, ResultTrue, ResultStays
  <1>2. CASE result # None
    <2>1. case' = case /\ result' = result
      BY <1>2, ResultStays
    <2>2. result.code = 0 /\ ~case.conda => code' = code
      BY <1>2, ResultStays, ApiAssumption
    <2> QED
      BY <1>2, <2>1, <2>2
  <1> QED
    BY <1>1, <1>2

\* What the monitor stores is so, in whatever order it is seen.
LEMMA RecordedKept == ASSUME Inv, Next PROVE Recorded'
  <1> USE DEF Inv, Recorded
  <1>1. CASE ExecuteStep
    BY <1>1, RecordedStays DEF ExecuteStep, Execute, StartBuffering, AddRun, MonitorRunCompletion, fields
  <1>2. CASE CommandStep \/ CarryStep
    <2>1. UNCHANGED <<finished, exit, status, mon, pc>>
      BY <1>2 DEF CommandStep, Emit, Exit, HeirsExit, Wait, StatusEvent, LinkFails, LogClose,
                  CarryStep, ForwardStep, ForwardRead, ForwardBuffer, ForwardLogPart, ForwardLog,
                  ForwardEnd, BufferStep, BufferRead, BufferWrite, BufferEnd, fields
    <2> QED
      BY <2>1, RecordedStays
  <1>3. CASE MonitorStep
    <2>1. CASE MonitorStart \/ MonitorDone
      BY <2>1, RecordedStays DEF MonitorStart, MonitorDone, fields
    <2>2. ASSUME NEW f \in {"finished", "exit", "status"}, MonitorWrite(f) PROVE Recorded'
      <3>1. UNCHANGED <<case, pc, code, result>> /\ mon = "write" /\ pc = "done" /\ result # None
        BY <2>2 DEF MonitorWrite, Runs, command
      <3>2. exit' \in {exit, result.code}
        BY <2>2 DEF MonitorWrite
      <3>3. status' \in Verdicts => status' \in {status, Verdict(result)}
        BY <2>2 DEF MonitorWrite, Stored, Verdicts
      <3>4. mon' \in {"write", "end"}
        BY <2>2 DEF MonitorWrite
      <3>5. Verdict(result)' = Verdict(result)
        BY <3>1 DEF Verdict
      <3> QED
        BY <3>1, <3>2, <3>3, <3>4, <3>5
    <2> QED
      BY <1>3, <2>1, <2>2 DEF MonitorStep
  <1>4. ASSUME NEW r \in Reqs, LookStep(r) \/ CallStep(r) \/ CancelStep(r) \/ DeleteStep(r)
        PROVE  Recorded'
    <2>1. UNCHANGED <<finished, exit, mon, pc>>
      BY <1>4 DEF LookStep, Lookup, Get, Stream, CallStep, CheckStatus, CheckHandle, CancelAsk,
                StdinBegin, StdinEnd, CancelStep, CancelLocal, CancelPipes, CancelAnswered, CancelMark,
                DeleteStep, RemoveRun, Cleanup, fields
    <2>2. status' = status \/ status' \in {"cancelled", "torn"}
      BY <1>4 DEF LookStep, Lookup, Get, Stream, CallStep, CheckStatus, CheckHandle, CancelAsk,
                StdinBegin, StdinEnd, CancelStep, CancelLocal, CancelPipes, CancelAnswered, CancelMark,
                DeleteStep, RemoveRun, Cleanup, Stored, fields
    <2> QED
      BY <2>1, <2>2, RecordedStays DEF Verdicts
  <1> QED
    BY <1>1, <1>2, <1>3, <1>4, Steps

\* What has been told is true of every later state.
LEMMA AnswerStays ==
    ASSUME Inv, Next, NEW a, AnswerTrue(a)
    PROVE  AnswerTrue(a)'
  <1>1. CASE result = None
    <2>1. a.status \notin Verdicts /\ ~a.finished /\ a.exit = None
      BY <1>1 DEF AnswerTrue, Verdicts
    <2> QED
      BY <2>1 DEF AnswerTrue, Verdicts
  <1>2. CASE result # None
    <2>1. case' = case /\ result' = result /\ (code # None => code' = code)
      BY <1>2, ResultStays
    <2>2. code = 0 => code' = 0
      BY <2>1, ApiAssumption
    <2> QED
      BY <1>2, <2>1, <2>2 DEF AnswerTrue
  <1> QED
    BY <1>1, <1>2

\* What is recorded may be told.
LEMMA RecordedTrue ==
    ASSUME Inv
    PROVE  /\ status \in Verdicts \/ finished \/ exit # None => result # None
           /\ exit # None => exit = result.code
           /\ status = "completed" => result = Ended(FALSE, 0) /\ (case.conda \/ code = 0)
           /\ status = "failed" => result # Ended(FALSE, 0) /\ (case.conda \/ result.code # 0)
  <1>1. result # None => result = [err |-> result.err, code |-> result.code] /\ result.err \in BOOLEAN
    BY DEF Inv, Exited, Endings
  <1>2. result # None => (result = Ended(FALSE, 0) <=> ~result.err /\ result.code = 0)
    BY <1>1 DEF Ended
  <1>3. status = "completed" => result # None /\ ~result.err /\ result.code = 0
    BY DEF Inv, Recorded, Verdicts, Verdict
  <1>4. status = "failed" => result # None /\ ~(~result.err /\ result.code = 0)
    BY DEF Inv, Recorded, Verdicts, Verdict
  <1> QED
    BY <1>2, <1>3, <1>4 DEF Inv, Recorded, Verdicts

\* A handler that looks at the run changes what it has been told, and no other.
LEMMA ToldStays == ASSUME Inv, Next, UNCHANGED <<ans, op>> PROVE Told'
  <1>1. \A a : AnswerTrue(a) => AnswerTrue(a)'
    BY AnswerStays
  <1> QED
    BY <1>1 DEF Inv, Told, Shaped

\* What an assignment to a field of one answer makes of the answers.
Answers(r, a) == [q \in Reqs |-> IF q = r THEN a ELSE ans[q]]

LEMMA SetStatus ==
    ASSUME NEW r \in Reqs, ans = [q \in Reqs |-> ans[q]], Shaped(ans[r]), NEW x,
           ans' = [ans EXCEPT ![r].status = x]
    PROVE  ans' = Answers(r, [status |-> x, finished |-> ans[r].finished,
                              exit |-> ans[r].exit, of |-> ans[r].of, seen |-> ans[r].seen])
    BY DEF Shaped, Answers

\* The same for the end time, ...
LEMMA SetFinished ==
    ASSUME NEW r \in Reqs, ans = [q \in Reqs |-> ans[q]], Shaped(ans[r]), NEW x,
           ans' = [ans EXCEPT ![r].finished = x]
    PROVE  ans' = Answers(r, [status |-> ans[r].status, finished |-> x,
                              exit |-> ans[r].exit, of |-> ans[r].of, seen |-> ans[r].seen])
    BY DEF Shaped, Answers

\* ... and the exit code.
LEMMA SetExit ==
    ASSUME NEW r \in Reqs, ans = [q \in Reqs |-> ans[q]], Shaped(ans[r]), NEW x,
           ans' = [ans EXCEPT ![r].exit = x]
    PROVE  ans' = Answers(r, [status |-> ans[r].status, finished |-> ans[r].finished,
                              exit |-> x, of |-> ans[r].of, seen |-> ans[r].seen])
    BY DEF Shaped, Answers

\* Each field of an answer is true by itself, so the order of the reads and of
\* the writes does not matter.
LEMMA ToldKept == ASSUME Inv, Next PROVE Told'
  <1> USE DEF Inv, Told
  <1>1. CASE ExecuteStep \/ CommandStep \/ CarryStep \/ MonitorStep
    <2>1. UNCHANGED <<op, ans>>
      BY <1>1 DEF ExecuteStep, Execute, StartBuffering, AddRun, MonitorRunCompletion,
                  CommandStep, Emit, Exit, HeirsExit, Wait, StatusEvent, LinkFails, LogClose,
                  CarryStep, ForwardStep, ForwardRead, ForwardBuffer, ForwardLogPart, ForwardLog,
                  ForwardEnd, BufferStep, BufferRead, BufferWrite, BufferEnd,
                  MonitorStep, MonitorStart, MonitorDone, MonitorWrite, handlers
    <2> QED
      BY <2>1, ToldStays
  <1>2. ASSUME NEW r \in Reqs, CallStep(r) \/ CancelStep(r) \/ DeleteStep(r) PROVE Told'
    <2>1. UNCHANGED <<op, ans>>
      BY <1>2 DEF CallStep, CheckStatus, CheckHandle, CancelAsk, StdinBegin, StdinEnd,
                  CancelStep, CancelLocal, CancelPipes, CancelAnswered, CancelMark,
                  DeleteStep, RemoveRun, Cleanup
    <2> QED
      BY <2>1, ToldStays
  <1>3. ASSUME NEW r \in Reqs, LookStep(r) PROVE Told'
    <2>1. UNCHANGED <<case, code, result>>
      BY <1>3 DEF LookStep, Lookup, Get, Stream, Runs, command
    <2>2. \A a : AnswerTrue(a) => AnswerTrue(a)'
      BY AnswerStays
    <2>3. ASSUME NEW o \in case.ops[r], Lookup(r, o) PROVE Told'
      <3>1. ans' = ans /\ op[r] = None /\ op' = [op EXCEPT ![r] = o]
        BY <2>3 DEF Lookup, Handling
      <3> QED
        BY <2>2, <3>1 DEF Handling, Shaped
    <2>4. CASE Get(r)
      <3> DEFINE a == ans[r]
      <3>0. UNCHANGED op /\ op[r] = "get" /\ Shaped(a) /\ AnswerTrue(a) /\ ans = [q \in Reqs |-> ans[q]]
        BY <2>4, ReadsFacts DEF Get, Handling
      <3>1. CASE at[r] = "get"
        <4>1. PICK st \in StatusSeen : ans' = [ans EXCEPT ![r].status = st]
          BY <2>4, <3>1, Zenon DEF Get
        <4>2. ans' = Answers(r, [status |-> st, finished |-> a.finished, exit |-> a.exit,
                                 of |-> a.of, seen |-> a.seen])
          BY <3>0, <4>1, SetStatus
        <4>3. st = status \/ st = "torn"
          BY DEF StatusSeen
        <4>4. AnswerTrue([status |-> st, finished |-> a.finished, exit |-> a.exit,
                          of |-> a.of, seen |-> a.seen])
          BY <3>0, <4>3, RecordedTrue DEF AnswerTrue, Verdicts
        <4> QED
          BY <2>2, <3>0, <4>2, <4>4 DEF Answers, Shaped
      <3>2. CASE at[r] = "seeFinished"
        <4>1. ans' = [ans EXCEPT ![r].finished = finished]
          BY <2>4, <3>2, Zenon DEF Get
        <4>2. ans' = Answers(r, [status |-> a.status, finished |-> finished, exit |-> a.exit,
                                 of |-> a.of, seen |-> a.seen])
          BY <3>0, <4>1, SetFinished
        <4>3. AnswerTrue([status |-> a.status, finished |-> finished, exit |-> a.exit,
                          of |-> a.of, seen |-> a.seen])
          BY <3>0, RecordedTrue DEF AnswerTrue, Verdicts
        <4> QED
          BY <2>2, <3>0, <4>2, <4>3 DEF Answers, Shaped
      <3>3. CASE at[r] = "seeExit"
        <4>1. ans' = [ans EXCEPT ![r].exit = exit]
          BY <2>4, <3>3, Zenon DEF Get
        <4>2. ans' = Answers(r, [status |-> a.status, finished |-> a.finished, exit |-> exit,
                                 of |-> a.of, seen |-> a.seen])
          BY <3>0, <4>1, SetExit
        <4>3. AnswerTrue([status |-> a.status, finished |-> a.finished, exit |-> exit,
                          of |-> a.of, seen |-> a.seen])
          BY <3>0, RecordedTrue DEF AnswerTrue, Verdicts
        <4> QED
          BY <2>2, <3>0, <4>2, <4>3 DEF Answers, Shaped
      <3> QED
        BY <2>4, <3>1, <3>2, <3>3, ReadsFacts DEF Get, Looking
    <2>5. ASSUME NEW s \in Streams, Stream(r, s) PROVE Told'
      <3>1. ans' = [q \in Reqs |-> ans'[q]] /\ \A q \in Reqs \ {r} : ans'[q] = ans[q]
        BY <2>5, Zenon DEF Stream
      <3>2. UNCHANGED op /\ op[r] \notin {None, "get"}
        BY <2>5 DEF Stream, Handling, Looking
      <3> QED
        BY <2>2, <3>1, <3>2 DEF Shaped
    <2> QED
      BY <1>3, <2>3, <2>4, <2>5 DEF LookStep
  <1> QED
    BY <1>1, <1>2, <1>3, Steps

\* Each chunk of a local run is where it should be.
LEMMA CountedStays ==
    ASSUME Inv,
           UNCHANGED <<case, proc, heirs, emitted, outOpen, result, taken, fw, bufW, rd, hand, buf, pc>>,
           pipeR' => pipeR, Uncancelled' => Uncancelled
    PROVE  Counted'
    BY DEF Inv, Counted, Stops, Accounted, Buffered, InHands, InForward, Drained, kind

\* A command of a local run that nobody cancels stops by itself.
LEMMA CountedCommand == ASSUME Inv, CommandStep PROVE Counted'
  <1> USE DEF Inv, Counted, Stops, kind
  <1>1. Uncancelled' <=> Uncancelled
    BY DEF CommandStep, Emit, Exit, HeirsExit, Wait, StatusEvent, LinkFails, LogClose, handlers, Uncancelled
  <1>2. UNCHANGED <<case, pc, taken, fw, bufW, rd, hand, buf, pipeR>>
    BY DEF CommandStep, Emit, Exit, HeirsExit, Wait, StatusEvent, LinkFails, LogClose, Runs, forwarders, readers
  <1>3. \A s \in Std : Accounted(s) => Accounted(s)'
    BY <1>2 DEF Accounted, Buffered, InHands, InForward
  <1>4. ASSUME NEW s \in Std, Emit(s) PROVE Counted'
    BY <1>1, <1>2, <1>3, <1>4 DEF Emit
  <1>5. CASE Exit
    BY <1>1, <1>2, <1>3, <1>5 DEF Exit, Ends, Drained
  <1>9. CASE HeirsExit
    BY <1>1, <1>2, <1>3, <1>9 DEF HeirsExit, Drained
  <1>6. CASE Wait
    <2>1. ASSUME outOpen, NEW s \in Std PROVE ~heirs /\ Drained(s)
      <3>1. Copied(s)
        BY <1>6 DEF Wait
      <3> QED
        BY <2>1, <3>1, Zenon DEF Copied
    <2>2. outOpen => ~heirs /\ \A s \in Std : Drained(s)
      BY <2>1 DEF Std
    <2> QED
      BY <1>1, <1>2, <1>3, <1>6, <2>2 DEF Wait, Drained
  <1>7. CASE StatusEvent
    BY <1>2, <1>7 DEF StatusEvent
  <1>8. CASE LinkFails \/ LogClose
    BY <1>1, <1>8, CountedStays DEF LinkFails, LogClose, Runs, command, forwarders, readers
  <1> QED
    BY <1>4, <1>5, <1>6, <1>7, <1>8, <1>9 DEF CommandStep

\* A step of a forwarder or a buffering goroutine moves a chunk of one
\* stream from hand to hand.
LEMMA CountedMoves ==
    ASSUME Inv, UNCHANGED <<case, pc, proc, heirs, emitted, outOpen, result, pipeR, op>>, NEW s \in Streams,
           kind = "local" /\ Uncancelled /\ s \in Std =>
             /\ Drained(s) => Drained(s)'
             /\ bufW'[s] \/ fw'[s] = "end"
             /\ pc = "call" => fw'[s] = "off" /\ bufW'[s]
             /\ pipeR /\ Accounted(s) => Accounted(s)',
           \A t \in Std \ {s} : /\ taken'[t] = taken[t] /\ fw'[t] = fw[t] /\ bufW'[t] = bufW[t]
                                /\ rd'[t] = rd[t] /\ hand'[t] = hand[t] /\ buf'[t] = buf[t]
    PROVE  Counted'
  <1> USE DEF Inv, Counted, kind
  <1>1. Uncancelled' <=> Uncancelled
    BY DEF Uncancelled
  <1>2. \A t \in Std \ {s} : /\ Drained(t)' <=> Drained(t)
                             /\ Accounted(t)' <=> Accounted(t)
    BY DEF Drained, Accounted, Buffered, InHands, InForward
  <1>3. kind = "local" /\ Uncancelled => Stops'
    BY <1>2 DEF Stops
  <1>4. kind = "local" /\ Uncancelled /\ pipeR => \A t \in Std : Accounted(t)'
    BY <1>2
  <1> QED
    BY <1>1, <1>3, <1>4

\* Forwarders and buffering goroutines lose no chunk.
LEMMA CountedCarry == ASSUME Inv, CarryStep PROVE Counted'
  <1> USE DEF Inv
  <1>1. UNCHANGED <<case, pc, proc, heirs, emitted, outOpen, result, pipeR, op>>
    BY DEF CarryStep, ForwardStep, ForwardRead, ForwardBuffer, ForwardLogPart, ForwardLog, ForwardEnd,
           BufferStep, BufferRead, BufferWrite, BufferEnd, Runs, command, readers, handlers
  <1>2. /\ None \notin Chunk /\ None \notin Seq(Chunk)
        /\ \A s \in Std : s \in Streams /\ s # "log" /\ taken[s] \in Nat /\ emitted[s] \in Nat
    BY ApiAssumption DEF Chunk, Std, Streams, Progress
  <1>0. \A s \in Std : Len(Buffered(s)) \in Nat
    BY <1>2 DEF Buffered, Contents
  <1>3. \A s \in Std : kind = "local" /\ Uncancelled =>
          /\ bufW[s] \/ fw[s] = "end"
          /\ pc = "call" => fw[s] = "off"
          /\ ~outOpen => Drained(s)
    BY DEF Counted, Stops
  <1>4. ASSUME NEW s \in Std, ForwardStep(s) PROVE Counted'
    <2>1. \A t \in Std \ {s} : /\ taken'[t] = taken[t] /\ fw'[t] = fw[t] /\ bufW'[t] = bufW[t]
                               /\ rd'[t] = rd[t] /\ hand'[t] = hand[t] /\ buf'[t] = buf[t]
      <3>1. CASE ForwardRead(s)
        BY <1>2, <3>1 DEF ForwardRead, Forward, readers, Progress
      <3>2. CASE ForwardBuffer(s)
        BY <1>2, <3>2 DEF ForwardBuffer, Forward, Progress, Contents
      <3>3. CASE ForwardLog(s)
        BY <1>2, <3>3 DEF ForwardLog, Forward, Progress, Contents
      <3>4. CASE ForwardEnd(s)
        BY <1>2, <3>4 DEF ForwardEnd, Forward, readers, Progress
      <3>5. CASE ForwardLogPart(s)
        BY <1>2, <3>5 DEF ForwardLogPart, Forward, readers, Progress
      <3> QED
        BY <1>4, <3>1, <3>2, <3>3, <3>4, <3>5 DEF ForwardStep
    <2>2. ASSUME kind = "local", Uncancelled
          PROVE  /\ Drained(s) => Drained(s)'
                 /\ bufW'[s] \/ fw'[s] = "end"
                 /\ pc # "call"
                 /\ pipeR /\ Accounted(s) => Accounted(s)'
      <3>1. CASE ForwardRead(s)
        <4>1. fw[s] = "read" /\ fw'[s] = "buf" /\ taken[s] < emitted[s] /\ taken'[s] = taken[s] + 1
              /\ UNCHANGED <<bufW, rd, hand, buf>>
          BY <3>1 DEF ForwardRead, Forward, readers, Progress
        <4>2. Buffered(s)' = Buffered(s) /\ InHands(s)' = InHands(s) /\ InForward(s) = 0 /\ InForward(s)' = 1
          BY <4>1 DEF Buffered, InHands, InForward
        <4>3. InHands(s) \in Nat
          BY DEF InHands
        <4>4. ~Drained(s)
          BY <1>2, <4>1 DEF Drained
        <4> QED
          BY <1>1, <1>2, <1>0, <1>3, <2>2, <4>1, <4>2, <4>3, <4>4 DEF Accounted
      <3>2. CASE ForwardBuffer(s)
        <4>1. fw[s] = "buf" /\ fw'[s] = "log" /\ UNCHANGED <<taken, bufW, rd, buf>>
          BY <3>2 DEF ForwardBuffer, Forward, Progress
        <4>2. pipeR => rd[s] = "read" /\ hand[s] = None /\ hand'[s] = InHand(s)
          BY <1>2, <1>3, <2>2, <3>2, <4>1 DEF ForwardBuffer, Gone, Contents
        <4>3. InHand(s) # None
          BY <1>2 DEF InHand, Chunk, Progress
        <4> QED
          <5>1. Buffered(s)' = Buffered(s) /\ InForward(s) = 1 /\ InForward(s)' = 0
            BY <4>1 DEF Buffered, InForward
          <5>2. pipeR => InHands(s) = 0 /\ InHands(s)' = 1
            BY <4>2, <4>3 DEF InHands
          <5>3. Drained(s)' <=> Drained(s)
            BY <1>1, <4>1 DEF Drained
          <5> QED
            BY <1>1, <1>2, <1>0, <1>3, <2>2, <4>1, <4>2, <5>1, <5>2, <5>3 DEF Accounted
      <3>3. CASE ForwardLog(s)
        <4>1. fw[s] \in {"log", "rest"} /\ fw'[s] = "read" /\ hand'[s] = hand[s] /\ UNCHANGED <<taken, bufW, rd, buf>>
          BY <1>2, <3>3 DEF ForwardLog, Forward, Progress, Contents
        <4> QED
          BY <1>1, <1>2, <1>0, <1>3, <2>2, <4>1 DEF Drained, Accounted, Buffered, InHands, InForward
      <3>4. CASE ForwardEnd(s)
        <4>1. fw[s] = "read" /\ fw'[s] = "end" /\ UNCHANGED <<taken, rd, hand, buf>>
          BY <3>4 DEF ForwardEnd, Forward, readers, Progress
        <4> QED
          BY <1>1, <1>2, <1>0, <1>3, <2>2, <4>1 DEF Drained, Accounted, Buffered, InHands, InForward
      <3>5. CASE ForwardLogPart(s)
        <4>1. fw[s] = "log" /\ fw'[s] = "rest" /\ UNCHANGED <<taken, bufW, rd, hand, buf>>
          BY <3>5 DEF ForwardLogPart, Forward, readers, Progress
        <4> QED
          BY <1>1, <1>2, <1>0, <1>3, <2>2, <4>1 DEF Drained, Accounted, Buffered, InHands, InForward
      <3> QED
        BY <1>4, <3>1, <3>2, <3>3, <3>4, <3>5 DEF ForwardStep
    <2> QED
      BY <1>1, <1>2, <2>1, <2>2, CountedMoves
  <1>5. ASSUME NEW s \in Streams, BufferStep(s) PROVE Counted'
    <2>1. CASE kind = "local"
      <3>1. UNCHANGED <<taken, fw, bufW>>
        BY <1>5 DEF BufferStep, BufferRead, BufferWrite, BufferEnd, forwarders
      <3>2. \A t \in Std \ {s} : rd'[t] = rd[t] /\ hand'[t] = hand[t] /\ buf'[t] = buf[t]
        BY <1>2, <1>5 DEF BufferStep, BufferRead, BufferWrite, BufferEnd, Progress, Contents
      <3>3. ASSUME Uncancelled, s \in Std
            PROVE  pipeR /\ Accounted(s) => Accounted(s)'
        <4>1. CASE BufferWrite(s)
          <5>1. hand[s] \in Chunk /\ hand'[s] = None /\ UNCHANGED rd
            BY <4>1 DEF BufferWrite, Contents
          <5>2. CASE buf[s] # None
            <6>1. buf'[s] = Append(buf[s], hand[s]) /\ buf[s] \in Seq(Chunk)
              BY <4>1, <5>2 DEF BufferWrite, Contents
            <6>2. buf'[s] \in Seq(Chunk) /\ Len(buf'[s]) = Len(buf[s]) + 1 /\ Len(buf[s]) \in Nat
              BY <5>1, <6>1
            <6> QED
              <7>1. buf'[s] # None /\ hand[s] # None
                BY <1>2, <5>1, <6>2
              <7> QED
                <8>1. InHands(s) = 1 /\ InHands(s)' = 0 /\ InForward(s)' = InForward(s)
                  BY <3>1, <5>1, <7>1 DEF InHands, InForward
                <8>2. Len(Buffered(s))' = Len(Buffered(s)) + 1
                  BY <5>2, <6>2, <7>1 DEF Buffered
                <8>3. InForward(s) \in Nat /\ Len(Buffered(s)) \in Nat /\ taken[s] \in Nat
                  BY <1>2, <1>0, <3>3 DEF InForward
                <8> QED
                  BY <1>1, <3>1, <5>1, <5>2, <7>1, <8>1, <8>2, <8>3 DEF Accounted
          <5>3. CASE buf[s] = None
            <6>1. hand[s] # None
              BY <1>2, <5>1
            <6> QED
              BY <5>3, <6>1 DEF Accounted
          <5> QED
            BY <5>2, <5>3
        <4>2. CASE BufferEnd(s)
          <5>1. rd[s] = "read" /\ UNCHANGED <<hand, buf>>
            BY <4>2 DEF BufferEnd
          <5> QED
            BY <1>1, <3>1, <5>1 DEF Accounted, Buffered, InHands, InForward
        <4> QED
          BY <1>5, <2>1, <4>1, <4>2 DEF BufferStep, BufferRead, Runs
      <3> QED
        BY <1>1, <1>3, <2>1, <3>1, <3>2, <3>3, CountedMoves DEF Drained
    <2>2. CASE kind # "local"
      BY <1>1, <2>2 DEF Counted, kind
    <2> QED
      BY <2>1, <2>2
  <1> QED
    BY <1>4, <1>5 DEF CarryStep

\* Nor does anybody else, unless the run is cancelled or deleted.
LEMMA CountedKept == ASSUME Inv, Next PROVE Counted'
  <1> USE DEF Inv
  <1>1. CASE ExecuteStep
    <2>1. Uncancelled' <=> Uncancelled
      BY <1>1 DEF ExecuteStep, Execute, StartBuffering, AddRun, MonitorRunCompletion, handlers, Uncancelled
    <2>2. CASE Execute
      BY <2>1, <2>2 DEF Execute, Runs, readers, Counted, Stops, kind, Accounted, Buffered, InHands, InForward, Drained
    <2>3. CASE StartBuffering
      <3>1. \A s \in Std : buf'[s] = <<>> /\ Len(buf'[s]) = 0 /\ buf'[s] # None
        <4>1. None \notin Seq(Chunk) /\ <<>> \in Seq(Chunk)
          BY ApiAssumption DEF Chunk
        <4>2. \A s \in Std : buf'[s] = <<>>
          BY <2>3 DEF StartBuffering, Std, Streams
        <4>3. Len(<<>>) = 0 /\ <<>> # None
          BY <4>1
        <4> QED
          BY <4>2, <4>3, Zenon
      <3>2. pc = "buffer" /\ pc' = "add" /\ UNCHANGED <<case, command, forwarders, hand, pipeR>>
        BY <2>3 DEF StartBuffering, Runs
      <3>3. ASSUME NEW s \in Std, Accounted(s), pipeR PROVE Accounted(s)'
        <4>1. Len(Buffered(s)) = 0 /\ buf[s] = None /\ hand[s] = None
          BY <3>2, <3>3 DEF Accounted, Buffered
        <4>2. Len(Buffered(s))' = 0 /\ InHands(s)' = InHands(s) /\ InForward(s)' = InForward(s)
          BY <3>1, <3>2 DEF Buffered, InHands, InForward, forwarders
        <4> QED
          BY <3>1, <3>2, <3>3, <4>1, <4>2 DEF Accounted, forwarders
      <3> QED
        BY <2>1, <3>2, <3>3 DEF Counted, Stops, Drained, kind, command, forwarders
    <2>4. CASE AddRun \/ MonitorRunCompletion
      BY <2>1, <2>4 DEF AddRun, MonitorRunCompletion, Runs, command, forwarders, readers, Counted,
                        Stops, kind, Accounted, Buffered, InHands, InForward, Drained
    <2> QED
      BY <1>1, <2>2, <2>3, <2>4 DEF ExecuteStep
  <1>2. CASE CommandStep
    BY <1>2, CountedCommand
  <1>4. CASE MonitorStep
    BY <1>4, CountedStays DEF MonitorStep, MonitorStart, MonitorDone, MonitorWrite, Runs, command,
                forwarders, readers, handlers, Uncancelled
  <1>5. ASSUME NEW r \in Reqs, LookStep(r) \/ CallStep(r) PROVE Counted'
    <2>1. Uncancelled' => Uncancelled
      BY <1>5, ApiAssumption DEF LookStep, Lookup, Get, Stream, CallStep, CheckStatus, CheckHandle,
                CancelAsk, StdinBegin, StdinEnd, Uncancelled, Handling, Ops
    <2>2. UNCHANGED <<case, pc, command, forwarders, readers>>
      BY <1>5 DEF LookStep, Lookup, Get, Stream, CallStep, CheckStatus, CheckHandle, CancelAsk,
                  StdinBegin, StdinEnd, Runs
    <2> QED
      BY <2>1, <2>2, CountedStays DEF command, forwarders, readers
  <1>6. ASSUME NEW r \in Reqs, CancelStep(r) PROVE Counted'
    <2>1. ~Uncancelled'
      BY <1>6 DEF CancelStep, CancelLocal, CancelPipes, CancelAnswered, CancelMark, Handling, Uncancelled
    <2> QED
      BY <2>1 DEF Counted
  <1>7. ASSUME NEW r \in Reqs, DeleteStep(r) PROVE Counted'
    <2>1. CASE RemoveRun(r)
      BY <2>1, CountedStays DEF RemoveRun, Runs, command, forwarders, readers, Uncancelled
    <2>2. ASSUME NEW i \in 1..5, Cleanup(r, i) PROVE Counted'
      <3>1. UNCHANGED <<case, pc, proc, heirs, emitted, outOpen, forwarders, rd, hand, op>>
        BY <2>2 DEF Cleanup, Runs
      <3>2. kind = "local" => result' = result
        BY <2>2 DEF Cleanup
      <3>3. pipeR' => pipeR
        BY <2>2, Zenon DEF Cleanup
      <3>4. pipeR => buf' = buf
        BY <2>2 DEF Cleanup, Handling
      <3> QED
        BY <3>1, <3>2, <3>3, <3>4 DEF Counted, Stops, kind, Uncancelled, forwarders,
                                      Accounted, Buffered, InHands, InForward, Drained
    <2> QED
      BY <1>7, <2>1, <2>2 DEF DeleteStep
  <1> QED
    BY <1>1, <1>2, <1>4, <1>5, <1>6, <1>7, CountedCarry, Steps
-----------------------------------------------------------------------------
\* A step that changes nothing preserves the invariant.
LEMMA StutterInv == ASSUME Inv, UNCHANGED vars PROVE Inv'
  <1> USE DEF Inv, vars, command, forwarders, remote, readers, fields, manager, handlers
  <1>1. Scalars' /\ Progress' /\ Recorded'
    BY DEF Scalars, Progress, Recorded, Verdict
  <1>6. Exited'
    BY DEF Exited, kind
  <1>2. Contents'
    BY DEF Contents, Known, Among
  <1>3. Handling'
    BY DEF Handling
  <1>4. Told'
    BY DEF Told, Shaped, AnswerTrue
  <1>5. Counted'
    BY DEF Counted, Stops, kind, Uncancelled, Accounted, Buffered, InHands, InForward, Drained
  <1> QED
    BY <1>1, <1>2, <1>3, <1>4, <1>5, <1>6

\* The invariant holds in every reachable state.
LEMMA Invariance == Spec => []Inv
  <1>1. ASSUME Inv, Next PROVE Inv'
    BY <1>1, ScalarsKept, ExitedKept, ProgressKept, ContentsKept, HandlingKept, RecordedKept, ToldKept,
       CountedKept DEF Inv
  <1>2. Inv /\ [Next]_vars => Inv'
    BY <1>1, StutterInv
  <1> QED
    BY InitInv, <1>2, PTL DEF Spec

(***************************************************************************)
(* All state keeps its type, whatever handlers do to the run at once;      *)
(* nothing is in a buffer that the command has not written.                *)
(***************************************************************************)
THEOREM ApiComputeTypeCorrect == Spec => []TypeOK
  <1>1. Inv => TypeOK
    <2> SUFFICES ASSUME Inv PROVE TypeOK
      OBVIOUS
    <2>1. \A s \in Std : emitted[s] \in 0..case.chunks[s] /\ taken[s] \in 0..emitted[s]
      BY ApiAssumption DEF Inv, Scalars, Progress
    <2>2. \A s \in Streams : /\ hand[s] # None => hand[s] \in Std \X Nat
                             /\ buf[s] # None => \A i \in 1..Len(buf[s]) :
                                buf[s][i] \in Std \X Nat /\ buf[s][i][2] <= emitted[buf[s][i][1]]
      BY DEF Inv, Contents, Chunk, Known, Among
    <2>3. mu # None => at[mu] \in {"client", "complete", "streams", "handle", "buffers"}
      BY DEF Inv, Handling, Cleaning
    <2> QED
      BY <2>1, <2>2, <2>3 DEF Inv, Scalars, Exited, Endings, Progress, Handling, TypeOK
  <1> QED
    BY Invariance, <1>1, PTL

(***************************************************************************)
(* Whatever signs of the end GetComputeRun shows, they are those of the    *)
(* run's end, though nothing locks the fields; and a local run is not      *)
(* shown as completed before all but two chunks of each stream are in its  *)
(* buffers.                                                                *)
(***************************************************************************)
THEOREM EndShownTruly == Spec => []EndShown
  <1>1. Inv => AnswersTrue
    BY DEF Inv, Told, AnswersTrue
  <1>2. Inv => LagBounded
    <2> SUFFICES ASSUME Inv, kind = "local", status = "completed", pipeR, Uncancelled,
                        NEW s \in Std, buf[s] # None
                 PROVE  emitted[s] - Len(buf[s]) <= 2
      BY DEF LagBounded
    <2>1. proc = "exited" /\ taken[s] = emitted[s]
      BY DEF Inv, Recorded, Verdicts, Counted, Stops, Drained
    <2>2. taken[s] = Len(buf[s]) + InHands(s) + InForward(s)
      BY DEF Inv, Counted, Accounted, Buffered
    <2>3. Len(buf[s]) \in Nat /\ InHands(s) \in 0..1 /\ InForward(s) \in 0..1
      BY DEF Inv, Contents, InHands, InForward, Std, Streams
    <2> QED
      BY <2>1, <2>2, <2>3
  <1>3. Inv => EndShown
    BY <1>1, <1>2 DEF EndShown
  <1> QED
    BY Invariance, <1>3, PTL
-----------------------------------------------------------------------------
(***************************************************************************)
(* The output on its way.  What a buffer holds, what its goroutine has in  *)
(* hand and what the remote server has sent is one line of chunks, until   *)
(* the buffers are dropped.                                                *)
(***************************************************************************)
Held(s) == IF hand[s] = None THEN <<>> ELSE <<hand[s]>>
Line(s) == Buffered(s) \o Held(s) \o queue[s]

Early == pc \in {"call", "buffer"}
Kept == Early \/ buf["log"] # None

\* Buffers and readers are there from StartBuffering on, and no handler finds
\* the run before AddRun; only Cleanup drops the buffers, after it has closed
\* the streams and, for a remote run, the connection.
Buffering ==
    /\ \A s \in Streams : /\ Early => buf[s] = None /\ hand[s] = None /\ rd[s] = "off"
                          /\ ~Early => (buf[s] = None <=> buf["log"] = None)
                          /\ hand[s] # None => rd[s] = "read"
                          /\ rd[s] = "off" => Early
    /\ ~Kept => ~pipeR
    /\ inTable \/ ~pipeR => pc \in {"monitor", "done"}
    /\ \A r \in Reqs : at[r] \notin {"idle", "end"} => pc \in {"monitor", "done"}

\* Where the command runs.
Running ==
    /\ pc = "call" => proc = "none" /\ \A s \in Std : emitted[s] = 0 /\ fw[s] = "off"
    /\ bufW \in [Std -> BOOLEAN]
    /\ \A s \in Std : fw[s] \in {"buf", "log", "rest"} => taken[s] >= 1
    /\ kind = "local" => \A s \in Streams : queue[s] = <<>>
    /\ kind = "remote" =>
         /\ link = "none" <=> pc = "call"
         /\ \A s \in Streams : pc = "call" => queue[s] = <<>>
         /\ \A s \in Std : fw[s] = "off"
         /\ ~pipeR => link = "down"
         /\ \A r \in Reqs : at[r] \in {"complete", "streams"} => link = "down"

\* How many chunks of stream t have been put in the line of s.
OnHand(s, t) == IF fw[t] = "buf" \/ (fw[t] \in {"log", "rest"} /\ s = "log") THEN 1 ELSE 0
Fed(s, t) == IF kind = "remote" THEN emitted[t] ELSE taken[t] - OnHand(s, t)

\* Nothing has been kept from it.
Open(s) ==
    IF kind = "remote" THEN link # "down"
    ELSE IF s = "log" THEN logW \/ Uncancelled ELSE pipeR /\ (bufW[s] \/ Uncancelled)

\* The line of a buffer of its own is numbered through.
Numbered(q, s) == \A i \in 1..Len(q) : q[i] = <<s, i>>
OwnLine(s) == Numbered(Line(s), s) /\ (Open(s) => Len(Line(s)) = Fed(s, s))
OwnLines == Kept => \A s \in Std : OwnLine(s)

\* That of the log has each chunk after its predecessors.
Once(q) == \A i \in 1..Len(q) : q[i][2] >= 1 /\ \A j \in 1..(i - 1) : q[j] # q[i]
Preceded(q) ==
    \A i \in 1..Len(q) : \A n \in 1..(q[i][2] - 1) : \E j \in 1..(i - 1) : q[j] = <<q[i][1], n>>
Mixed(q) == Once(q) /\ Preceded(q)
Within(q, s, n) == \E j \in 1..Len(q) : q[j] = <<s, n>>
Reached(q, s, n) == \A m \in Nat : Within(q, s, m) <=> m \in 1..n
LogComplete == \A s \in Std : Reached(Line("log"), s, Fed("log", s))
LogLine == Kept => Mixed(Line("log")) /\ (Open("log") => LogComplete)

\* What ends a reader.
Ending ==
    /\ kind = "local" =>
         /\ \A s \in Std : /\ fw[s] = "end" => ~outOpen
                           /\ Uncancelled /\ ~logW => fw[s] = "end"
         /\ Uncancelled /\ pipeR /\ rd["log"] = "end" => ~logW
         /\ \A s \in Std : Uncancelled /\ pipeR /\ rd[s] = "end" => ~bufW[s]
    /\ kind = "remote" /\ link # "down" =>
         \A s \in Streams : rd[s] = "end" => proc = "exited" /\ queue[s] = <<>>

\* What handlers have shown.
Shown ==
    \A r \in Reqs :
        /\ Shaped(ans[r])
        /\ ans[r].of # None => ans[r].of \in Streams /\ ans[r].seen \in Seq(Chunk) /\ ~Early
        /\ \A s \in Streams, q \in Seq(Chunk) :
             ans[r].of = s /\ ans[r].seen = q /\ s # None =>
             Ordered(s, q) /\ (buf[s] = None \/ IsPrefix(q, buf[s]))

Carried == Buffering /\ Running /\ OwnLines /\ LogLine /\ Ending /\ EntriesWhole /\ Shown

\* Chunks are not None, and what is buffered, held and queued is a sequence.
LEMMA Chunks ==
    ASSUME Inv
    PROVE  /\ None \notin Chunk /\ None \notin Seq(Chunk)
           /\ \A s \in Streams : /\ queue[s] \in Seq(Chunk) /\ hand[s] \in Chunk \cup {None}
                                 /\ buf[s] \in Seq(Chunk) \cup {None}
                                 /\ Buffered(s) \in Seq(Chunk) /\ Held(s) \in Seq(Chunk)
                                 /\ Line(s) \in Seq(Chunk)
  <1>1. None \notin Chunk /\ None \notin Seq(Chunk)
    BY ApiAssumption DEF Chunk
  <1>2. ASSUME NEW s \in Streams
        PROVE  /\ queue[s] \in Seq(Chunk) /\ hand[s] \in Chunk \cup {None}
               /\ buf[s] \in Seq(Chunk) \cup {None}
               /\ Buffered(s) \in Seq(Chunk) /\ Held(s) \in Seq(Chunk)
    BY <1>2 DEF Inv, Contents, Buffered, Held
  <1>3. ASSUME NEW s \in Streams
        PROVE  Line(s) \in Seq(Chunk)
    BY <1>2, <1>3 DEF Line
  <1> QED
    BY <1>1, <1>2, <1>3

\* The places of a line in three parts, and when two sequences are equal.
LEMMA ThreeParts ==
    ASSUME NEW S, NEW b \in Seq(S), NEW h \in Seq(S), NEW q \in Seq(S)
    PROVE  /\ b \o h \o q \in Seq(S) /\ Len(b \o h \o q) = Len(b) + Len(h) + Len(q)
           /\ \A i \in 1..Len(b \o h \o q) :
                (b \o h \o q)[i] = IF i <= Len(b) THEN b[i]
                                   ELSE IF i <= Len(b) + Len(h) THEN h[i - Len(b)]
                                   ELSE q[i - (Len(b) + Len(h))]
  <1>1. b \o h \in Seq(S) /\ Len(b \o h) = Len(b) + Len(h)
    OBVIOUS
  <1>2. PICK p \in Seq(S) : p = b \o h
    BY <1>1
  <1>3. Len(p \o q) = Len(p) + Len(q) /\ p \o q \in Seq(S)
    OBVIOUS
  <1>4. \A i \in 1..Len(p) + Len(q) : (p \o q)[i] = IF i <= Len(p) THEN p[i] ELSE q[i - Len(p)]
    OBVIOUS
  <1>5. \A i \in 1..Len(b) + Len(h) : p[i] = IF i <= Len(b) THEN b[i] ELSE h[i - Len(b)]
    BY <1>2
  <1>6. Len(b) \in Nat /\ Len(h) \in Nat /\ Len(q) \in Nat /\ Len(p) = Len(b) + Len(h)
    BY <1>1, <1>2
  <1> QED
    BY <1>2, <1>3, <1>4, <1>5, <1>6

LEMMA EqualSeqs ==
    ASSUME NEW S, NEW p \in Seq(S), NEW q \in Seq(S), Len(p) = Len(q),
           \A i \in 1..Len(p) : p[i] = q[i]
    PROVE  p = q
  OBVIOUS

\* A chunk that goes from one part of a line to the next, or to its end.
LEMMA ConcatWritten ==
    ASSUME NEW S, NEW b \in Seq(S), NEW q \in Seq(S), NEW c \in S
    PROVE  Append(b, c) \o <<>> \o q = b \o <<c>> \o q
  <1>0. Append(b, c) \in Seq(S) /\ <<>> \in Seq(S) /\ <<c>> \in Seq(S)
    OBVIOUS
  <1>1. PICK d \in Seq(S) : d = Append(b, c)
    BY <1>0
  <1>2. PICK e \in Seq(S) : e = <<>>
    BY <1>0
  <1>3. PICK h \in Seq(S) : h = <<c>>
    BY <1>0
  <1>4. PICK u \in Seq(S) : u = d \o e \o q
    BY ThreeParts
  <1>5. PICK v \in Seq(S) : v = b \o h \o q
    BY ThreeParts
  <1>6. /\ Len(d) = Len(b) + 1 /\ Len(e) = 0 /\ Len(h) = 1 /\ h[1] = c /\ Len(b) \in Nat /\ Len(q) \in Nat
        /\ \A i \in 1..Len(b) + 1 : d[i] = IF i <= Len(b) THEN b[i] ELSE c
    BY <1>1, <1>2, <1>3
  <1>7. /\ Len(u) = Len(d) + Len(e) + Len(q)
        /\ \A i \in 1..Len(u) : u[i] = IF i <= Len(d) THEN d[i] ELSE IF i <= Len(d) + Len(e)
                                 THEN e[i - Len(d)] ELSE q[i - (Len(d) + Len(e))]
    BY <1>4, ThreeParts
  <1>8. /\ Len(v) = Len(b) + Len(h) + Len(q)
        /\ \A i \in 1..Len(v) : v[i] = IF i <= Len(b) THEN b[i] ELSE IF i <= Len(b) + Len(h)
                                 THEN h[i - Len(b)] ELSE q[i - (Len(b) + Len(h))]
    BY <1>5, ThreeParts
  <1>9. Len(u) = Len(v)
    BY <1>6, <1>7, <1>8
  <1>10. ASSUME NEW i \in 1..Len(u) PROVE u[i] = v[i]
    <2>1. CASE i <= Len(b)
      <3>1. u[i] = d[i] /\ d[i] = b[i]
        BY <1>6, <1>7, <2>1
      <3>2. v[i] = b[i]
        BY <1>8, <1>9, <2>1
      <3> QED
        BY <3>1, <3>2
    <2>2. CASE i = Len(b) + 1
      BY <1>6, <1>7, <1>8, <1>9, <2>2
    <2>3. CASE i > Len(b) + 1
      <3>1. u[i] = q[i - (Len(b) + 1)]
        BY <1>6, <1>7, <2>3
      <3>2. v[i] = q[i - (Len(b) + 1)]
        BY <1>6, <1>8, <1>9, <2>3
      <3> QED
        BY <3>1, <3>2
    <2> QED
      BY <1>6, <2>1, <2>2, <2>3
  <1>11. u = v
    BY <1>9, <1>10, EqualSeqs
  <1> QED
    BY <1>1, <1>2, <1>3, <1>4, <1>5, <1>11

LEMMA ConcatRead ==
    ASSUME NEW S, NEW b \in Seq(S), NEW q \in Seq(S), q # <<>>
    PROVE  b \o <<Head(q)>> \o Tail(q) = b \o <<>> \o q
  <1>1. Head(q) = q[1] /\ q[1] \in S /\ Len(q) \in Nat \ {0}
    OBVIOUS
  <1>0. /\ <<Head(q)>> \in Seq(S) /\ Len(<<Head(q)>>) = 1 /\ <<Head(q)>>[1] = q[1]
        /\ Tail(q) \in Seq(S) /\ Len(Tail(q)) = Len(q) - 1
        /\ \A i \in 1..Len(Tail(q)) : Tail(q)[i] = q[i + 1]
        /\ <<>> \in Seq(S) /\ Len(<<>>) = 0
    BY <1>1
  <1>2. PICK h \in Seq(S) : h = <<Head(q)>> /\ Len(h) = 1 /\ h[1] = q[1]
    BY <1>0
  <1>3. PICK t \in Seq(S) : t = Tail(q) /\ Len(t) = Len(q) - 1 /\ \A i \in 1..Len(t) : t[i] = q[i + 1]
    BY <1>0
  <1>4. PICK e \in Seq(S) : e = <<>> /\ Len(e) = 0
    BY <1>0
  <1>5. PICK u \in Seq(S) : u = b \o h \o t
    BY ThreeParts
  <1>6. PICK v \in Seq(S) : v = b \o e \o q
    BY ThreeParts
  <1>7. /\ Len(u) = Len(b) + Len(h) + Len(t)
        /\ \A i \in 1..Len(u) : u[i] = IF i <= Len(b) THEN b[i] ELSE IF i <= Len(b) + Len(h)
                                 THEN h[i - Len(b)] ELSE t[i - (Len(b) + Len(h))]
    BY <1>5, ThreeParts
  <1>8. /\ Len(v) = Len(b) + Len(e) + Len(q)
        /\ \A i \in 1..Len(v) : v[i] = IF i <= Len(b) THEN b[i] ELSE IF i <= Len(b) + Len(e)
                                 THEN e[i - Len(b)] ELSE q[i - (Len(b) + Len(e))]
    BY <1>6, ThreeParts
  <1>9. Len(u) = Len(v) /\ Len(b) \in Nat /\ Len(u) = Len(b) + Len(q)
    BY <1>1, <1>2, <1>3, <1>4, <1>7, <1>8
  <1>10. ASSUME NEW i \in 1..Len(u) PROVE u[i] = v[i]
    <2>1. CASE i <= Len(b)
      BY <1>7, <1>8, <1>9, <2>1
    <2>2. CASE i = Len(b) + 1
      <3>1. u[i] = h[1]
        BY <1>2, <1>7, <1>9, <2>2
      <3>2. v[i] = q[1]
        BY <1>4, <1>8, <1>9, <2>2
      <3> QED
        BY <1>2, <3>1, <3>2
    <2>3. CASE i > Len(b) + 1
      <3>1. u[i] = t[i - (Len(b) + 1)]
        BY <1>2, <1>7, <1>9, <2>3
      <3>2. i - (Len(b) + 1) \in 1..Len(t) /\ i - (Len(b) + 1) + 1 = i - Len(b)
        BY <1>1, <1>3, <1>9, <2>3
      <3>3. t[i - (Len(b) + 1)] = q[i - Len(b)]
        BY <1>3, <3>2
      <3>4. v[i] = q[i - Len(b)]
        BY <1>4, <1>8, <1>9, <2>3
      <3> QED
        BY <3>1, <3>3, <3>4
    <2> QED
      BY <1>9, <2>1, <2>2, <2>3
  <1>11. u = v
    BY <1>9, <1>10, EqualSeqs
  <1> QED
    BY <1>2, <1>3, <1>4, <1>5, <1>6, <1>11

LEMMA ConcatSent ==
    ASSUME NEW S, NEW b \in Seq(S), NEW h \in Seq(S), NEW q \in Seq(S), NEW c \in S
    PROVE  b \o h \o Append(q, c) = Append(b \o h \o q, c)
  <1>0. /\ b \o h \in Seq(S) /\ Append(q, c) \in Seq(S)
        /\ \A x, y \in Seq(S) : x \o y \in Seq(S) /\ Append(x, c) \in Seq(S)
    OBVIOUS
  <1>1. PICK p \in Seq(S) : p = b \o h
    BY <1>0
  <1>2. p \o Append(q, c) = Append(p \o q, c)
    <2>1. PICK d \in Seq(S) : d = Append(q, c)
      BY <1>0
    <2>2. PICK u \in Seq(S) : u = p \o d
      BY <1>0
    <2>3. PICK w \in Seq(S) : w = p \o q
      BY <1>0
    <2>4. PICK v \in Seq(S) : v = Append(w, c)
      BY <1>0
    <2>5. Len(p) \in Nat /\ Len(q) \in Nat /\ Len(d) = Len(q) + 1
          /\ \A i \in 1..Len(q) + 1 : d[i] = IF i <= Len(q) THEN q[i] ELSE c
      BY <2>1
    <2>6. Len(u) = Len(p) + Len(d)
          /\ \A i \in 1..Len(u) : u[i] = IF i <= Len(p) THEN p[i] ELSE d[i - Len(p)]
      BY <2>2
    <2>7. Len(w) = Len(p) + Len(q)
          /\ \A i \in 1..Len(w) : w[i] = IF i <= Len(p) THEN p[i] ELSE q[i - Len(p)]
      BY <2>3
    <2>8. Len(v) = Len(w) + 1
          /\ \A i \in 1..Len(v) : v[i] = IF i <= Len(w) THEN w[i] ELSE c
      BY <2>4
    <2>9. Len(u) = Len(v)
      BY <2>5, <2>6, <2>7, <2>8
    <2>10. ASSUME NEW i \in 1..Len(u) PROVE u[i] = v[i]
      <3>1. CASE i <= Len(p)
        <4>1. u[i] = p[i]
          BY <2>6, <3>1
        <4>2. v[i] = w[i] /\ w[i] = p[i]
          BY <2>5, <2>7, <2>8, <2>9, <3>1
        <4> QED
          BY <4>1, <4>2
      <3>2. CASE i > Len(p) /\ i <= Len(p) + Len(q)
        <4>1. i - Len(p) \in 1..Len(q)
          BY <2>5, <3>2
        <4>2. u[i] = d[i - Len(p)] /\ d[i - Len(p)] = q[i - Len(p)]
          BY <2>5, <2>6, <3>2, <4>1
        <4>3. v[i] = w[i] /\ w[i] = q[i - Len(p)]
          BY <2>5, <2>7, <2>8, <2>9, <3>2
        <4> QED
          BY <4>2, <4>3
      <3>3. CASE i = Len(p) + Len(q) + 1
        <4>1. i - Len(p) = Len(q) + 1
          BY <2>5, <3>3
        <4>2. u[i] = d[i - Len(p)]
          BY <2>5, <2>6, <3>3
        <4>3. d[Len(q) + 1] = c
          BY <2>5
        <4>4. i \in 1..Len(v) /\ ~(i <= Len(w))
          BY <2>5, <2>7, <2>9, <3>3
        <4>5. v[i] = c
          BY <2>8, <4>4
        <4> QED
          BY <4>1, <4>2, <4>3, <4>5
      <3>4. Len(u) = Len(p) + Len(q) + 1 /\ Len(p) \in Nat /\ Len(q) \in Nat
        BY <2>5, <2>6
      <3>5. i <= Len(p) \/ (i > Len(p) /\ i <= Len(p) + Len(q)) \/ i = Len(p) + Len(q) + 1
        BY <3>4
      <3> QED
        BY <3>1, <3>2, <3>3, <3>5, Zenon
    <2>11. u = v
      BY <2>9, <2>10, EqualSeqs
    <2> QED
      BY <2>1, <2>2, <2>3, <2>4, <2>11
  <1> QED
    BY <1>1, <1>2

LEMMA ConcatPut ==
    ASSUME NEW S, NEW b \in Seq(S), NEW c \in S
    PROVE  b \o <<c>> \o <<>> = Append(b \o <<>> \o <<>>, c)
  <1>1. \A p \in Seq(S) : p \o <<>> = p
    OBVIOUS
  <1>2. b \o <<c>> \in Seq(S) /\ b \o <<c>> = Append(b, c)
    OBVIOUS
  <1>3. b \o <<c>> \o <<>> = b \o <<c>> /\ b \o <<>> \o <<>> = b
    BY <1>1, <1>2
  <1> QED
    BY <1>2, <1>3

\* A chunk is put in the hand of the reader, when nothing else waits for it.
LEMMA LinePut ==
    ASSUME Inv, NEW s \in Streams, NEW c \in Chunk, hand[s] = None, queue[s] = <<>>,
           buf'[s] = buf[s], hand'[s] = c, queue'[s] = queue[s]
    PROVE  Line(s)' = Append(Line(s), c)
  <1>1. PICK b \in Seq(Chunk) : b = Buffered(s)
    BY Chunks
  <1>2. Held(s) = <<>> /\ Held(s)' = <<c>> /\ Buffered(s)' = b
    BY <1>1, Chunks DEF Held, Buffered
  <1>3. Line(s) = b \o <<>> \o <<>> /\ Line(s)' = b \o <<c>> \o <<>>
    BY <1>1, <1>2 DEF Line
  <1> QED
    BY <1>3, ConcatPut

\* A chunk is sent.
LEMMA LineSent ==
    ASSUME Inv, NEW s \in Streams, NEW c \in Chunk,
           buf'[s] = buf[s], hand'[s] = hand[s], queue'[s] = Append(queue[s], c)
    PROVE  Line(s)' = Append(Line(s), c)
  <1>1. PICK b \in Seq(Chunk) : b = Buffered(s)
    BY Chunks
  <1>2. PICK h \in Seq(Chunk) : h = Held(s)
    BY Chunks
  <1>3. PICK q \in Seq(Chunk) : q = queue[s]
    BY Chunks
  <1>4. Held(s)' = h /\ Buffered(s)' = b
    BY <1>1, <1>2 DEF Held, Buffered
  <1>5. Line(s) = b \o h \o q /\ Line(s)' = b \o h \o Append(q, c)
    BY <1>1, <1>2, <1>3, <1>4 DEF Line
  <1> QED
    BY <1>5, ConcatSent

\* What was sent is read.
LEMMA LineRead ==
    ASSUME Inv, NEW s \in Streams, hand[s] = None, queue[s] # <<>>,
           buf'[s] = buf[s], hand'[s] = Head(queue[s]), queue'[s] = Tail(queue[s])
    PROVE  Line(s)' = Line(s)
  <1>1. PICK b \in Seq(Chunk) : b = Buffered(s)
    BY Chunks
  <1>2. PICK q \in Seq(Chunk) : q = queue[s]
    BY Chunks
  <1>3. Head(q) \in Chunk /\ None \notin Chunk
    BY <1>2, Chunks
  <1>4. Held(s) = <<>> /\ Held(s)' = <<Head(q)>> /\ Buffered(s)' = b
    BY <1>1, <1>2, <1>3 DEF Held, Buffered
  <1>5. Line(s) = b \o <<>> \o q /\ Line(s)' = b \o <<Head(q)>> \o Tail(q)
    BY <1>1, <1>2, <1>4 DEF Line
  <1> QED
    BY <1>2, <1>5, ConcatRead

\* What was in hand is written to the buffer.
LEMMA LineWritten ==
    ASSUME Inv, NEW s \in Streams, hand[s] # None, buf[s] # None,
           buf'[s] = Append(buf[s], hand[s]), hand'[s] = None, queue'[s] = queue[s]
    PROVE  Line(s)' = Line(s)
  <1>1. PICK b \in Seq(Chunk) : b = buf[s]
    BY Chunks
  <1>2. PICK c \in Chunk : c = hand[s]
    BY Chunks
  <1>3. PICK q \in Seq(Chunk) : q = queue[s]
    BY Chunks
  <1>4. Append(b, c) \in Seq(Chunk) /\ None \notin Seq(Chunk)
    BY Chunks
  <1>5. Held(s) = <<c>> /\ Held(s)' = <<>> /\ Buffered(s) = b /\ Buffered(s)' = Append(b, c)
    BY <1>1, <1>2, <1>4 DEF Held, Buffered
  <1>6. Line(s) = b \o <<c>> \o q /\ Line(s)' = Append(b, c) \o <<>> \o q
    BY <1>3, <1>5 DEF Line
  <1> QED
    BY <1>6, ConcatWritten

LEMMA LineStays ==
    ASSUME NEW s \in Streams, buf'[s] = buf[s], hand'[s] = hand[s], queue'[s] = queue[s]
    PROVE  Line(s)' = Line(s)
  BY DEF Line, Held, Buffered

\* A numbered line stays so when the next chunk is appended, ...
LEMMA NumberedAppend ==
    ASSUME NEW q \in Seq(Chunk), NEW s \in Std, Numbered(q, s)
    PROVE  /\ Numbered(Append(q, <<s, Len(q) + 1>>), s)
           /\ Len(Append(q, <<s, Len(q) + 1>>)) = Len(q) + 1
  <1> DEFINE c == <<s, Len(q) + 1>>
             r == Append(q, c)
  <1>0. c \in Chunk
    BY DEF Chunk
  <1>1. Len(r) = Len(q) + 1 /\ (\A i \in 1..Len(q) : r[i] = q[i]) /\ r[Len(q) + 1] = c /\ Len(q) \in Nat
    BY <1>0
  <1> HIDE DEF r
  <1> QED
    BY <1>1 DEF Numbered, r

\* ... and a mixed one when the next chunk of a stream is.
LEMMA MixedAppend ==
    ASSUME NEW q \in Seq(Chunk), NEW s \in Std, NEW n \in Nat, Mixed(q), Reached(q, s, n)
    PROVE  /\ Mixed(Append(q, <<s, n + 1>>))
           /\ Reached(Append(q, <<s, n + 1>>), s, n + 1)
           /\ \A t \in Std \ {s}, m \in Nat : Reached(q, t, m) => Reached(Append(q, <<s, n + 1>>), t, m)
  <1> DEFINE c == <<s, n + 1>>
             r == Append(q, c)
             k == Len(q) + 1
  <1>0. c \in Chunk
    BY DEF Chunk
  <1>1. Len(r) = k /\ (\A i \in 1..Len(q) : r[i] = q[i]) /\ r[k] = c /\ Len(q) \in Nat
    BY <1>0
  <1> HIDE DEF r
  <1>2. ASSUME NEW t \in Std, NEW m \in Nat
        PROVE  Within(r, t, m) <=> Within(q, t, m) \/ <<t, m>> = c
    <2>1. ASSUME NEW j \in 1..k, r[j] = <<t, m>> PROVE Within(q, t, m) \/ <<t, m>> = c
      <3>1. CASE j \in 1..Len(q)
        BY <1>1, <2>1, <3>1 DEF Within
      <3>2. CASE j = k
        BY <1>1, <2>1, <3>2
      <3> QED
        BY <1>1, <3>1, <3>2
    <2>2. ASSUME NEW j \in 1..Len(q), q[j] = <<t, m>> PROVE Within(r, t, m)
      <3>1. j \in 1..Len(r) /\ r[j] = <<t, m>>
        BY <1>1, <2>2
      <3> QED
        BY <3>1 DEF Within
    <2>3. ASSUME <<t, m>> = c PROVE Within(r, t, m)
      <3>1. k \in 1..Len(r) /\ r[k] = <<t, m>>
        BY <1>1, <2>3
      <3> QED
        BY <3>1 DEF Within
    <2> QED
      BY <1>1, <2>1, <2>2, <2>3 DEF Within
  <1>3. \A m \in Nat : Within(q, s, m) <=> m \in 1..n
    BY DEF Reached
  <1>4. Mixed(r)
    <2>1. ASSUME NEW i \in 1..Len(q)
          PROVE  /\ r[i][2] >= 1
                 /\ \A j \in 1..(i - 1) : r[j] # r[i]
                 /\ \A m \in 1..(r[i][2] - 1) : \E j \in 1..(i - 1) : r[j] = <<r[i][1], m>>
      <3>1. r[i] = q[i] /\ \A j \in 1..(i - 1) : j \in 1..Len(q) /\ r[j] = q[j]
        BY <1>1
      <3>2. /\ q[i][2] >= 1
            /\ \A j \in 1..(i - 1) : q[j] # q[i]
            /\ \A m \in 1..(q[i][2] - 1) : \E j \in 1..(i - 1) : q[j] = <<q[i][1], m>>
        BY DEF Mixed, Once, Preceded
      <3> QED
        BY <3>1, <3>2
    <2>2. /\ r[k][2] >= 1
          /\ \A j \in 1..(k - 1) : r[j] # r[k]
          /\ \A m \in 1..(r[k][2] - 1) : \E j \in 1..(k - 1) : r[j] = <<r[k][1], m>>
      <3>1. r[k] = <<s, n + 1>> /\ r[k][1] = s /\ r[k][2] = n + 1 /\ k - 1 = Len(q)
        BY <1>1
      <3>2. ~Within(q, s, n + 1)
        BY <1>3
      <3>3. \A m \in 1..n : Within(q, s, m)
        BY <1>3
      <3>4. \A j \in 1..(k - 1) : r[j] # r[k]
        BY <1>1, <3>1, <3>2 DEF Within
      <3>5. ASSUME NEW m \in 1..n PROVE \E j \in 1..(k - 1) : r[j] = <<s, m>>
        <4>1. PICK j \in 1..Len(q) : q[j] = <<s, m>>
          BY <3>3 DEF Within
        <4> QED
          BY <1>1, <3>1, <4>1
      <3>6. \A m \in 1..(r[k][2] - 1) : m \in 1..n
        BY <3>1
      <3>7. n + 1 >= 1
        OBVIOUS
      <3> QED
        BY <3>1, <3>4, <3>5, <3>6, <3>7, Zenon
    <2>3. \A i \in 1..Len(r) : i \in 1..Len(q) \/ i = k
      BY <1>1
    <2> QED
      BY <2>1, <2>2, <2>3 DEF Mixed, Once, Preceded
  <1>5. Reached(r, s, n + 1)
    <2>1. \A m \in Nat : <<s, m>> = c <=> m = n + 1
      OBVIOUS
    <2>2. \A m \in Nat : m \in 1..(n + 1) <=> m \in 1..n \/ m = n + 1
      OBVIOUS
    <2> QED
      BY <1>2, <1>3, <2>1, <2>2 DEF Reached
  <1>6. ASSUME NEW t \in Std \ {s}, NEW m \in Nat, Reached(q, t, m)
        PROVE  Reached(r, t, m)
    <2>1. \A i \in Nat : <<t, i>> # c
      OBVIOUS
    <2> QED
      BY <1>2, <1>6, <2>1 DEF Reached
  <1> QED
    BY <1>4, <1>5, <1>6 DEF r
-----------------------------------------------------------------------------
(* What no step takes back: an end that is closed stays closed.            *)

LEMMA ClosedStays ==
    ASSUME Inv, Running, Next
    PROVE  /\ case' = case /\ (pipeR' => pipeR) /\ (logW' => logW)
           /\ \A s \in Std : bufW'[s] => bufW[s]
           /\ bufW' \in [Std -> BOOLEAN]
           /\ Uncancelled' => Uncancelled
           /\ kind = "remote" /\ link = "down" => link' = "down"
  <1> USE DEF Running
  <1>1. CASE ExecuteStep
    BY <1>1 DEF ExecuteStep, Execute, StartBuffering, AddRun, MonitorRunCompletion, Runs, command,
                readers, forwarders, remote, handlers, Uncancelled
  <1>2. CASE CommandStep
    BY <1>2 DEF CommandStep, Emit, Exit, HeirsExit, Wait, StatusEvent, LinkFails, LogClose, Runs, command,
                readers, forwarders, remote, handlers, Uncancelled
  <1>3. CASE CarryStep
    <2>1. UNCHANGED <<case, pipeR, logW, link, op>>
      BY <1>3 DEF CarryStep, ForwardStep, ForwardRead, ForwardBuffer, ForwardLogPart, ForwardLog, ForwardEnd,
                  BufferStep, BufferRead, BufferWrite, BufferEnd, Runs, readers, forwarders,
                  remote, handlers
    <2>2. bufW' = bufW \/ \E s \in Std : bufW' = [bufW EXCEPT ![s] = FALSE]
      BY <1>3 DEF CarryStep, ForwardStep, ForwardRead, ForwardBuffer, ForwardLogPart, ForwardLog, ForwardEnd,
                  BufferStep, BufferRead, BufferWrite, BufferEnd, forwarders
    <2> QED
      BY <2>1, <2>2 DEF Uncancelled
  <1>4. CASE MonitorStep
    BY <1>4 DEF MonitorStep, MonitorStart, MonitorDone, MonitorWrite, Runs, command,
                readers, forwarders, remote, handlers, Uncancelled
  <1>5. ASSUME NEW r \in Reqs, LookStep(r) \/ CallStep(r)
        PROVE  /\ UNCHANGED <<case, pipeR, logW, bufW, link>>
               /\ Uncancelled' => Uncancelled
    <2>1. UNCHANGED <<case, pipeR, logW, bufW, link>>
      BY <1>5 DEF LookStep, Lookup, Get, Stream, CallStep, CheckStatus, CheckHandle, CancelAsk,
                  StdinBegin, StdinEnd, Runs, readers, forwarders, remote
    <2>2. op' = op \/ \E o : op[r] = None /\ op' = [op EXCEPT ![r] = o]
      BY <1>5 DEF Inv, LookStep, Lookup, Get, Stream, CallStep, CheckStatus, CheckHandle,
                  CancelAsk, StdinBegin, StdinEnd, Handling
    <2>3. op \in [Reqs -> Ops \cup {None}] /\ None # "cancel"
      BY ApiAssumption DEF Inv, Handling, Ops
    <2>4. Uncancelled' => Uncancelled
      BY <2>2, <2>3 DEF Uncancelled
    <2> QED
      BY <2>1, <2>4
  <1>6. ASSUME NEW r \in Reqs, CancelStep(r)
        PROVE  /\ UNCHANGED <<case, pipeR, link, op>> /\ (logW' => logW)
               /\ bufW' = bufW \/ bufW' = [s \in Std |-> FALSE]
    BY <1>6 DEF CancelStep, CancelLocal, CancelPipes, CancelAnswered, CancelMark, Runs,
                readers, forwarders, remote
  <1>7. ASSUME NEW r \in Reqs, DeleteStep(r)
        PROVE  /\ UNCHANGED <<case, logW, bufW, op>> /\ (pipeR' => pipeR)
               /\ link = "down" => link' = "down"
    <2>1. CASE RemoveRun(r)
      BY <2>1 DEF RemoveRun, Runs, readers, forwarders, remote
    <2>2. ASSUME NEW i \in 1..5, Cleanup(r, i)
          PROVE  /\ UNCHANGED <<case, logW, bufW, op>> /\ (pipeR' => pipeR)
                 /\ link = "down" => link' = "down"
      <3>1. UNCHANGED <<case, logW, bufW, op>>
        BY <2>2 DEF Cleanup, Runs, forwarders
      <3>2. pipeR' => pipeR
        BY <2>2, Zenon DEF Cleanup
      <3>3. link = "down" => link' = "down"
        BY <2>2 DEF Cleanup
      <3> QED
        BY <3>1, <3>2, <3>3
    <2> QED
      BY <1>7, <2>1, <2>2 DEF DeleteStep
  <1>8. ASSUME NEW r \in Reqs, LookStep(r) \/ CallStep(r) \/ CancelStep(r) \/ DeleteStep(r)
        PROVE  /\ case' = case /\ (pipeR' => pipeR) /\ (logW' => logW)
               /\ \A s \in Std : bufW'[s] => bufW[s]
               /\ bufW' \in [Std -> BOOLEAN]
               /\ Uncancelled' => Uncancelled
               /\ kind = "remote" /\ link = "down" => link' = "down"
    BY <1>5, <1>6, <1>7, <1>8 DEF Uncancelled
  <1> QED
    BY <1>1, <1>2, <1>3, <1>4, <1>8, Steps

\* So what a line has missed it never gets back.
LEMMA OpenStays ==
    ASSUME Inv, Running, Next
    PROVE  /\ kind' = kind
           /\ \A s \in Streams : Open(s)' => Open(s)
  <1>1. kind' = kind
    BY ClosedStays DEF kind
  <1>2. ASSUME NEW s \in Streams PROVE Open(s)' => Open(s)
    <2>1. CASE kind = "remote"
      BY <1>1, <2>1, ClosedStays DEF Open
    <2>2. CASE kind # "remote" /\ s = "log"
      BY <1>1, <2>2, ClosedStays DEF Open
    <2>3. CASE kind # "remote" /\ s # "log"
      <3>1. s \in Std
        BY <2>3 DEF Streams
      <3> QED
        BY <1>1, <2>3, <3>1, ClosedStays DEF Open
    <2> QED
      BY <2>1, <2>2, <2>3
  <1> QED
    BY <1>1, <1>2

\* How much a line was fed is a number.
LEMMA FedNat ==
    ASSUME Inv, Running
    PROVE  \A s \in Streams, t \in Std : Fed(s, t) \in Nat
  BY DEF Inv, Progress, Running, Fed, OnHand

-----------------------------------------------------------------------------
(* The lines, by what a step does to them.                                 *)

\* Nothing moves, or moves within the lines.
Sources(s) == IF s = "log" THEN Std ELSE {s}
Still(s) == Line(s)' = Line(s) /\ \A t \in Sources(s) : Open(s)' => Fed(s, t)' = Fed(s, t)

\* The next chunk of stream t enters the line of s.
Enters(s, t) ==
    /\ Line(s)' = Append(Line(s), <<t, Fed(s, t) + 1>>) /\ Open(s)
    /\ Fed(s, t)' = Fed(s, t) + 1
    /\ \A u \in Sources(s) \ {t} : Fed(s, u)' = Fed(s, u)

\* A step does no more than that to any line.
OwnMoves == \A s \in Std : Still(s) \/ Enters(s, s)
LogMoves == Still("log") \/ \E t \in Std : Enters("log", t)
Moves == (Kept' => Kept) /\ (Kept /\ Kept' => OwnMoves /\ LogMoves)

LEMMA OwnLineMoves ==
    ASSUME Inv, Running, OwnLines, Kept, NEW s \in Std, Open(s)' => Open(s), Still(s) \/ Enters(s, s)
    PROVE  OwnLine(s)'
  <1>0. OwnLine(s) /\ Line(s) \in Seq(Chunk) /\ Fed(s, s) \in Nat
    BY Chunks, FedNat DEF OwnLines, Streams
  <1>1. CASE Still(s)
    BY <1>0, <1>1 DEF Still, Sources, OwnLine, Numbered, Std
  <1>2. CASE Enters(s, s)
    <2>1. PICK q \in Seq(Chunk) : q = Line(s)
      BY <1>0
    <2>2. Numbered(q, s) /\ Len(q) = Fed(s, s)
      BY <1>0, <1>2, <2>1 DEF OwnLine, Enters
    <2>3. Line(s)' = Append(q, <<s, Len(q) + 1>>) /\ Fed(s, s)' = Len(q) + 1
      BY <1>2, <2>1, <2>2 DEF Enters
    <2>4. Numbered(Append(q, <<s, Len(q) + 1>>), s) /\ Len(Append(q, <<s, Len(q) + 1>>)) = Len(q) + 1
      BY <2>2, NumberedAppend
    <2> QED
      BY <2>3, <2>4 DEF OwnLine, Numbered
  <1> QED
    BY <1>1, <1>2

LEMMA OwnLinesMove ==
    ASSUME Inv, Running, Next, OwnLines, Moves
    PROVE  OwnLines'
  <1>1. ASSUME Kept', NEW s \in Std PROVE OwnLine(s)'
    <2>1. Open(s)' => Open(s)
      BY OpenStays DEF Streams
    <2>2. Kept /\ (Still(s) \/ Enters(s, s))
      <3>1. Kept
        BY <1>1, Zenon DEF Moves
      <3>2. OwnMoves
        BY <1>1, <3>1, Zenon DEF Moves
      <3> QED
        BY <3>1, <3>2, Zenon DEF OwnMoves
    <2> QED
      BY <2>1, <2>2, OwnLineMoves
  <1> QED
    BY <1>1 DEF OwnLines

LEMMA MixedThen ==
    ASSUME NEW q, Line("log")' = q, Mixed(q)
    PROVE  Mixed(Line("log"))'
  <1>1. Once(Line("log"))'
    BY DEF Mixed, Once
  <1>2. Preceded(Line("log"))'
    BY DEF Mixed, Preceded
  <1> QED
    BY <1>1, <1>2 DEF Mixed

LEMMA LogLineMoves ==
    ASSUME Inv, Running, Next, LogLine, Moves
    PROVE  LogLine'
  <1>0. Line("log") \in Seq(Chunk) /\ (\A t \in Std : Fed("log", t) \in Nat)
        /\ (Open("log")' => Open("log"))
    BY Chunks, FedNat, OpenStays DEF Streams
  <1>1. ASSUME Kept', Kept, Still("log") PROVE Mixed(Line("log"))' /\ (Open("log")' => LogComplete')
    <2>1. Line("log")' = Line("log") /\ \A t \in Std : Open("log")' => Fed("log", t)' = Fed("log", t)
      BY <1>1 DEF Still, Sources
    <2>2. Mixed(Line("log")) /\ (Open("log") => LogComplete)
      BY <1>1 DEF LogLine
    <2>3. Mixed(Line("log"))'
      BY <2>1, <2>2 DEF Mixed, Once, Preceded
    <2>4. ASSUME Open("log")' PROVE LogComplete'
      <3>1. \A t \in Std : Reached(Line("log"), t, Fed("log", t))
        BY <1>0, <2>2, <2>4 DEF LogComplete
      <3>2. \A t \in Std : Reached(Line("log"), t, Fed("log", t))'
        BY <2>1, <2>4, <3>1 DEF Reached, Within
      <3> QED
        BY <3>2 DEF LogComplete
    <2> QED
      BY <2>3, <2>4
  <1>2. ASSUME Kept', Kept, NEW t \in Std, Enters("log", t)
        PROVE  Mixed(Line("log"))' /\ (Open("log")' => LogComplete')
    <2>1. PICK q \in Seq(Chunk) : q = Line("log")
      BY <1>0
    <2>2. PICK n \in Nat : n = Fed("log", t)
      BY <1>0
    <2>3. PICK r : r = Append(q, <<t, n + 1>>)
      OBVIOUS
    <2>4. Line("log")' = r /\ Open("log") /\ Fed("log", t)' = n + 1
          /\ \A u \in Std \ {t} : Fed("log", u)' = Fed("log", u)
      BY <1>2, <2>1, <2>2, <2>3 DEF Enters, Sources
    <2>5. Mixed(q) /\ \A u \in Std : Reached(q, u, Fed("log", u))
      BY <1>2, <2>1, <2>4 DEF LogLine, LogComplete
    <2>6. /\ Mixed(r) /\ Reached(r, t, n + 1)
          /\ \A u \in Std \ {t}, m \in Nat : Reached(q, u, m) => Reached(r, u, m)
      <3>1. Reached(q, t, n)
        BY <2>2, <2>5
      <3> QED
        BY <2>3, <2>5, <3>1, MixedAppend
    <2>7. ASSUME NEW u \in Std PROVE Reached(Line("log"), u, Fed("log", u))'
      <3>1. PICK m \in Nat : m = Fed("log", u)
        BY <1>0
      <3>2. CASE u = t
        BY <2>4, <2>6, <3>2 DEF Reached, Within
      <3>3. CASE u # t
        <4>1. Reached(r, u, m) /\ Fed("log", u)' = m
          BY <2>4, <2>5, <2>6, <3>1, <3>3
        <4> QED
          BY <2>4, <4>1 DEF Reached, Within
      <3> QED
        BY <3>2, <3>3
    <2>8. Mixed(Line("log"))'
      <3>1. Line("log")' = r /\ Mixed(r)
        BY <2>4, <2>6, Zenon
      <3> QED
        BY <3>1, MixedThen
    <2> QED
      BY <2>7, <2>8 DEF LogComplete
  <1> QED
    <2>1. Kept' => Kept /\ LogMoves
      BY Zenon DEF Moves
    <2> QED
      BY <1>1, <1>2, <2>1 DEF LogLine, LogMoves

\* A line whose parts and feeding stay.
LEMMA StillWhen ==
    ASSUME NEW s \in Streams, buf'[s] = buf[s], hand'[s] = hand[s], queue'[s] = queue[s],
           kind' = kind, kind = "remote" => emitted' = emitted,
           \A t \in Sources(s) : kind # "remote" => taken'[t] - OnHand(s, t)' = taken[t] - OnHand(s, t)
    PROVE  Still(s)
  BY LineStays DEF Still, Fed

\* Most steps leave all lines alone.
LEMMA MovesNot ==
    ASSUME Inv, Running, Next, UNCHANGED <<emitted, hand, queue, buf>>, Early' => Early,
           \A s \in Streams : \A t \in Sources(s) :
             kind # "remote" => taken'[t] - OnHand(s, t)' = taken[t] - OnHand(s, t)
    PROVE  Moves
  <1>1. kind' = kind
    BY OpenStays
  <1>2. \A s \in Streams : Still(s)
    BY <1>1, StillWhen
  <1>3. Kept' => Kept
    BY DEF Kept
  <1> QED
    BY <1>2, <1>3 DEF Moves, OwnMoves, LogMoves, Streams

LEMMA MovesExecute == ASSUME Inv, Carried, Next, ExecuteStep PROVE Moves
  <1> USE DEF Carried
  <1>1. CASE Execute
    <2>1. UNCHANGED <<emitted, hand, queue, buf, taken>> /\ Early
      BY <1>1 DEF Execute, readers, Early
    <2>2. \A s \in Streams : \A t \in Sources(s) :
            kind # "remote" => taken'[t] - OnHand(s, t)' = taken[t] - OnHand(s, t)
      <3>1. ASSUME NEW s \in Streams, NEW t \in Sources(s), kind # "remote"
            PROVE  OnHand(s, t) = 0 /\ OnHand(s, t)' = 0
        <4>1. t \in Std /\ pc = "call" /\ fw[t] = "off"
          BY <1>1, <3>1 DEF Execute, Running, Sources, Streams
        <4>2. kind = "local"
          BY <3>1, ApiAssumption DEF Inv, Scalars, kind
        <4>3. fw'[t] = "read"
          BY <1>1, <4>1, <4>2 DEF Execute
        <4> QED
          BY <4>1, <4>3 DEF OnHand
      <3> QED
        BY <2>1, <3>1
    <2> QED
      BY <2>1, <2>2, MovesNot
  <1>2. CASE StartBuffering
    <2>1. UNCHANGED <<emitted, hand, queue, taken, fw, case>> /\ Kept
          /\ \A s \in Streams : buf[s] = None /\ buf'[s] = <<>>
      BY <1>2 DEF StartBuffering, Runs, command, forwarders, remote, Buffering, Early, Kept
    <2>2. ASSUME NEW s \in Streams PROVE Still(s)
      <3>1. None \notin Seq(Chunk) /\ <<>> \in Seq(Chunk)
        BY Chunks
      <3>2. Line(s)' = Line(s)
        BY <2>1, <3>1 DEF Line, Held, Buffered
      <3> QED
        BY <2>1, <3>2 DEF Still, Fed, OnHand, kind
    <2> QED
      BY <2>1, <2>2 DEF Moves, OwnMoves, LogMoves, Streams
  <1>3. CASE AddRun \/ MonitorRunCompletion
    <2>1. UNCHANGED <<emitted, hand, queue, buf, taken, fw>> /\ (Early' => Early)
      BY <1>3 DEF AddRun, MonitorRunCompletion, command, forwarders, remote, readers, Early
    <2> QED
      BY <2>1, MovesNot DEF OnHand
  <1> QED
    BY <1>1, <1>2, <1>3 DEF ExecuteStep

\* What a remote command writes enters two lines as long as there is a
\* connection; afterwards neither line counts.
LEMMA MovesEmit == ASSUME Inv, Carried, Next, NEW s \in Std, Emit(s) PROVE Moves
  <1> DEFINE c == <<s, emitted[s] + 1>>
  <1> USE DEF Carried
  <1>0. UNCHANGED <<hand, buf, taken, fw, pc>> /\ kind' = kind /\ (\A t \in Streams : Open(t)' => Open(t))
    BY OpenStays DEF Emit, forwarders, readers
  <1>1. s \in Streams /\ s # "log" /\ c \in Chunk /\ (\A t \in Std : emitted[t] \in Nat)
        /\ emitted' = [emitted EXCEPT ![s] = @ + 1] /\ emitted \in [Std -> Nat]
        /\ queue \in [Streams -> Seq(Chunk)]
    BY DEF Emit, Inv, Progress, Contents, Chunk, Std, Streams
  <1>2. Kept' <=> Kept
    BY <1>0 DEF Kept, Early
  <1>3. CASE kind = "remote" /\ link = "up"
    <2>1. queue' = [queue EXCEPT ![s] = Append(@, c), !["log"] = Append(@, c)]
      BY <1>3 DEF Emit
    <2>2. queue'[s] = Append(queue[s], c) /\ queue'["log"] = Append(queue["log"], c)
          /\ \A t \in Std \ {s} : queue'[t] = queue[t]
      BY <1>1, <2>1 DEF Std, Streams
    <2>3. Open(s) /\ Open("log") /\ link = "up"
      BY <1>3 DEF Open
    <2>4. \A x \in Streams : /\ Fed(x, s) = emitted[s] /\ Fed(x, s)' = emitted[s] + 1
                            /\ \A t \in Std \ {s} : Fed(x, t)' = Fed(x, t)
      BY <1>0, <1>1, <1>3 DEF Fed
    <2>5. Enters(s, s)
      <3>1. Line(s)' = Append(Line(s), c)
        BY <1>0, <1>1, <2>2, LineSent
      <3> QED
        BY <1>1, <2>3, <2>4, <3>1 DEF Enters, Sources
    <2>6. Enters("log", s)
      <3>1. Line("log")' = Append(Line("log"), c)
        BY <1>0, <1>1, <2>2, LineSent DEF Streams
      <3> QED
        BY <1>1, <2>3, <2>4, <3>1 DEF Enters, Sources, Streams
    <2>7. ASSUME NEW t \in Std \ {s} PROVE Still(t)
      <3>1. Line(t)' = Line(t)
        BY <1>0, <2>2, LineStays DEF Streams
      <3> QED
        BY <2>4, <3>1 DEF Still, Sources, Std, Streams
    <2> QED
      BY <1>2, <2>5, <2>6, <2>7 DEF Moves, OwnMoves, LogMoves
  <1>4. CASE ~(kind = "remote" /\ link = "up")
    <2>1. queue' = queue
      BY <1>4 DEF Emit
    <2>2. ASSUME NEW x \in Streams PROVE Still(x)
      <3>1. Line(x)' = Line(x)
        BY <1>0, <2>1, LineStays
      <3>2. CASE kind = "remote"
        <4>1. link = "down"
          <5>1. pc # "call"
            BY DEF Emit, Inv, Exited
          <5> QED
            BY <1>4, <3>2, <5>1 DEF Running, Inv, Scalars
        <4> QED
          BY <1>0, <3>1, <3>2, <4>1 DEF Still, Open
      <3>3. CASE kind # "remote"
        BY <1>0, <3>1, <3>3 DEF Still, Fed, OnHand
      <3> QED
        BY <3>2, <3>3
    <2> QED
      BY <1>2, <2>2 DEF Moves, OwnMoves, LogMoves, Streams
  <1> QED
    BY <1>3, <1>4

LEMMA MovesCommand == ASSUME Inv, Carried, Next, CommandStep PROVE Moves
  <1>1. CASE Exit \/ HeirsExit \/ Wait \/ StatusEvent \/ LinkFails \/ LogClose
    <2>1. UNCHANGED <<emitted, hand, queue, buf, taken, fw, pc>>
      BY <1>1 DEF Exit, HeirsExit, Wait, StatusEvent, LinkFails, LogClose, command, forwarders, remote, readers
    <2> QED
      BY <2>1, MovesNot DEF OnHand, Early, Carried
  <1> QED
    BY <1>1, MovesEmit DEF CommandStep

\* A forwarder that hands a chunk on puts it where it belongs; when it finds
\* the pipe closed, the line has ended.
LEMMA MovesForward == ASSUME Inv, Carried, Next, NEW s \in Std, ForwardStep(s) PROVE Moves
  <1> USE DEF Carried
  <1>0. s \in Streams /\ s # "log" /\ None \notin Chunk /\ InHand(s) = <<s, taken[s]>>
        /\ fw \in [Std -> {"off", "read", "buf", "log", "rest", "end"}]
        /\ taken \in [Std -> Nat] /\ hand \in [Streams -> Chunk \cup {None}]
    BY Chunks DEF Inv, Progress, Contents, InHand, Std, Streams
  <1>1. UNCHANGED <<emitted, queue, buf, pc>> /\ kind' = kind /\ (Kept' <=> Kept)
        /\ (\A t \in Streams : Open(t)' => Open(t))
    <2>1. UNCHANGED <<emitted, queue, buf, pc>>
      BY DEF ForwardStep, ForwardRead, ForwardBuffer, ForwardLogPart, ForwardLog, ForwardEnd, command, remote, readers
    <2> QED
      BY <2>1, OpenStays DEF Kept, Early
  <1>2. kind = "local" \/ fw[s] = "off"
    BY ApiAssumption DEF Inv, Scalars, kind, Running
  <1>3. kind = "local" /\ kind # "remote"
    BY <1>2 DEF ForwardStep, ForwardRead, ForwardBuffer, ForwardLogPart, ForwardLog, ForwardEnd
  <1>4. \A x \in Streams : queue[x] = <<>>
    BY <1>3 DEF Running
  <1>5. CASE ForwardRead(s)
    <2>1. /\ fw[s] = "read" /\ fw' = [fw EXCEPT ![s] = "buf"] /\ hand' = hand
          /\ taken' = [taken EXCEPT ![s] = @ + 1]
      BY <1>5 DEF ForwardRead, Forward, readers
    <2>2. \A x \in Streams : \A t \in Sources(x) :
            kind # "remote" => taken'[t] - OnHand(x, t)' = taken[t] - OnHand(x, t)
      BY <1>0, <2>1 DEF OnHand, Sources, Streams
    <2> QED
      BY <1>1, <2>1, <2>2, MovesNot DEF Early
  <1>6. CASE ForwardEnd(s)
    <2>1. /\ fw[s] = "read" /\ fw' = [fw EXCEPT ![s] = "end"] /\ hand' = hand /\ taken' = taken
      BY <1>6 DEF ForwardEnd, Forward, readers
    <2>2. \A x \in Streams : \A t \in Sources(x) :
            kind # "remote" => taken'[t] - OnHand(x, t)' = taken[t] - OnHand(x, t)
      BY <1>0, <2>1 DEF OnHand, Sources, Streams
    <2> QED
      BY <1>1, <2>1, <2>2, MovesNot DEF Early
  <1>7. CASE ForwardBuffer(s)
    <2>1. /\ fw[s] = "buf" /\ fw' = [fw EXCEPT ![s] = "log"] /\ taken' = taken
          /\ \/ ~Gone(s) /\ hand[s] = None /\ hand' = [hand EXCEPT ![s] = InHand(s)]
             \/ Gone(s) /\ hand' = hand
      BY <1>7 DEF ForwardBuffer, Forward
    <2>2. \A x \in Streams \ {s} : hand'[x] = hand[x]
      BY <1>0, <2>1
    <2>3. \A x \in Streams \ {s} : \A t \in Sources(x) : OnHand(x, t)' = OnHand(x, t)
      BY <1>0, <2>1 DEF OnHand, Sources, Streams, Std
    <2>4. \A x \in Streams \ {s} : Still(x)
      BY <1>1, <2>1, <2>2, <2>3, StillWhen
    <2>5. Still(s) \/ Enters(s, s)
      <3>1. CASE Gone(s)
        <4>1. ~Open(s)
          <5>1. ~pipeR \/ ~bufW[s]
            BY <3>1 DEF Gone
          <5>2. ~bufW[s] => ~Uncancelled
            BY <1>3, <2>1 DEF Inv, Counted, Stops
          <5> QED
            BY <1>0, <1>3, <5>1, <5>2 DEF Open
        <4>2. hand' = hand
          BY <2>1, <3>1
        <4>3. Line(s)' = Line(s)
          BY <1>0, <1>1, <4>2, LineStays
        <4> QED
          BY <1>0, <1>1, <4>1, <4>3 DEF Still
      <3>2. CASE ~Gone(s)
        <4>1. hand[s] = None /\ hand'[s] = <<s, taken[s]>>
          BY <1>0, <2>1, <3>2
        <4>2. Line(s)' = Append(Line(s), <<s, taken[s]>>)
          <5>1. <<s, taken[s]>> \in Chunk
            BY <1>0 DEF Chunk
          <5> QED
            BY <1>0, <1>1, <1>4, <4>1, <5>1, LinePut
        <4>3. Fed(s, s) = taken[s] - 1 /\ Fed(s, s)' = taken[s] /\ taken[s] \in Nat
          BY <1>0, <1>1, <1>3, <2>1 DEF Fed, OnHand
        <4>4. Open(s)
          BY <1>0, <1>3, <3>2 DEF Open, Gone
        <4>5. Sources(s) \ {s} = {} /\ Fed(s, s) + 1 = taken[s]
          BY <1>0, <4>3 DEF Sources
        <4> QED
          BY <4>2, <4>3, <4>4, <4>5 DEF Enters
      <3> QED
        BY <3>1, <3>2
    <2> QED
      BY <1>0, <1>1, <2>4, <2>5 DEF Moves, OwnMoves, LogMoves, Streams
  <1>9. CASE ForwardLogPart(s)
    <2>1. /\ fw[s] = "log" /\ fw' = [fw EXCEPT ![s] = "rest"] /\ hand' = hand /\ taken' = taken
      BY <1>9 DEF ForwardLogPart, Forward, readers
    <2>2. \A x \in Streams : \A t \in Sources(x) :
            kind # "remote" => taken'[t] - OnHand(x, t)' = taken[t] - OnHand(x, t)
      BY <1>0, <2>1 DEF OnHand, Sources, Streams
    <2> QED
      BY <1>1, <2>1, <2>2, MovesNot DEF Early
  <1>8. CASE ForwardLog(s)
    <2>1. /\ fw[s] \in {"log", "rest"} /\ fw' = [fw EXCEPT ![s] = "read"] /\ taken' = taken
          /\ \/ logW /\ hand["log"] = None /\ hand' = [hand EXCEPT !["log"] = InHand(s)]
             \/ ~logW /\ hand' = hand
      BY <1>8 DEF ForwardLog, LogTakes, Forward
    <2>2. \A x \in Std : hand'[x] = hand[x]
      BY <1>0, <2>1 DEF Std, Streams
    <2>3. \A x \in Std : \A t \in Sources(x) : OnHand(x, t)' = OnHand(x, t)
      BY <1>0, <2>1 DEF OnHand, Sources, Std
    <2>4. \A x \in Std : Still(x)
      BY <1>1, <2>1, <2>2, <2>3, StillWhen DEF Streams
    <2>5. Still("log") \/ Enters("log", s)
      <3>1. CASE ~logW
        <4>1. ~Open("log")
          BY <1>3, <2>1, <3>1 DEF Open, Ending
        <4>2. hand' = hand
          BY <2>1, <3>1
        <4>3. Line("log")' = Line("log")
          BY <1>1, <4>2, LineStays DEF Streams
        <4> QED
          BY <1>1, <4>1, <4>3 DEF Still, Streams
      <3>2. CASE logW
        <4>1. hand["log"] = None /\ hand'["log"] = <<s, taken[s]>>
          BY <1>0, <2>1, <3>2 DEF Streams
        <4>2. Line("log")' = Append(Line("log"), <<s, taken[s]>>)
          <5>1. <<s, taken[s]>> \in Chunk
            BY <1>0 DEF Chunk
          <5> QED
            BY <1>0, <1>1, <1>4, <4>1, <5>1, LinePut DEF Streams
        <4>3. Fed("log", s) = taken[s] - 1 /\ Fed("log", s)' = taken[s] /\ taken[s] \in Nat
          BY <1>0, <1>1, <1>3, <2>1 DEF Fed, OnHand
        <4>4. Open("log")
          BY <1>3, <3>2 DEF Open
        <4>5. Fed("log", s) + 1 = taken[s]
          BY <4>3
        <4>6. \A t \in Sources("log") \ {s} : Fed("log", t)' = Fed("log", t)
          BY <1>0, <1>1, <1>3, <2>1 DEF Fed, OnHand, Sources
        <4> QED
          BY <4>2, <4>3, <4>4, <4>5, <4>6 DEF Enters
      <3> QED
        BY <3>1, <3>2
    <2> QED
      BY <1>0, <1>1, <2>4, <2>5 DEF Moves, OwnMoves, LogMoves
  <1> QED
    BY <1>5, <1>6, <1>7, <1>8, <1>9 DEF ForwardStep

\* A reader moves chunks within its line.
LEMMA MovesBuffer == ASSUME Inv, Carried, Next, NEW s \in Streams, BufferStep(s) PROVE Moves
  <1> USE DEF Carried
  <1>0. /\ None \notin Chunk /\ None \notin Seq(Chunk)
        /\ hand \in [Streams -> Chunk \cup {None}] /\ queue \in [Streams -> Seq(Chunk)]
        /\ buf \in [Streams -> Seq(Chunk) \cup {None}]
    BY Chunks DEF Inv, Contents
  <1>1. UNCHANGED <<emitted, taken, fw, pc>> /\ kind' = kind
    <2>1. UNCHANGED <<emitted, taken, fw, pc>>
      BY DEF BufferStep, BufferRead, BufferWrite, BufferEnd, command, forwarders
    <2> QED
      BY <2>1, OpenStays
  <1>2. \A x \in Streams : \A t \in Std : OnHand(x, t)' = OnHand(x, t) /\ Fed(x, t)' = Fed(x, t)
    BY <1>1 DEF OnHand, Fed
  <1>3. \A x \in Streams : Line(x)' = Line(x) => Still(x)
    BY <1>2 DEF Still, Sources, Streams
  <1>4. CASE BufferRead(s)
    <2>1. /\ hand[s] = None /\ queue[s] # <<>> /\ buf' = buf
          /\ hand' = [hand EXCEPT ![s] = Head(queue[s])] /\ queue' = [queue EXCEPT ![s] = Tail(@)]
      BY <1>4 DEF BufferRead
    <2>2. Line(s)' = Line(s)
      BY <1>0, <2>1, LineRead
    <2>3. \A x \in Streams \ {s} : Line(x)' = Line(x)
      BY <1>0, <2>1, LineStays
    <2> QED
      BY <1>1, <1>3, <2>1, <2>2, <2>3 DEF Moves, OwnMoves, LogMoves, Streams, Kept, Early
  <1>5. CASE BufferWrite(s)
    <2>1. /\ hand[s] # None /\ hand' = [hand EXCEPT ![s] = None] /\ queue' = queue
          /\ buf' = IF buf[s] = None THEN buf ELSE [buf EXCEPT ![s] = Append(@, hand[s])]
      BY <1>5 DEF BufferWrite, remote
    <2>2. ~Early
      BY <2>1 DEF Buffering
    <2>3. Kept <=> buf[s] # None
      BY <2>2 DEF Buffering, Kept
    <2>4. ASSUME buf[s] # None PROVE OwnMoves /\ LogMoves
      <3>1. buf'[s] = Append(buf[s], hand[s]) /\ hand'[s] = None
        BY <1>0, <2>1, <2>4
      <3>2. Line(s)' = Line(s)
        BY <2>1, <2>4, <3>1, LineWritten
      <3>3. \A x \in Streams \ {s} : Line(x)' = Line(x)
        BY <1>0, <2>1, <2>4, LineStays
      <3> QED
        BY <1>3, <3>2, <3>3 DEF OwnMoves, LogMoves, Streams
    <2>5. Kept' => Kept
      <3>1. buf[s] = None => buf' = buf
        BY <2>1
      <3> QED
        BY <1>1, <2>3, <3>1 DEF Kept, Early
    <2> QED
      BY <2>3, <2>4, <2>5 DEF Moves
  <1>6. CASE BufferEnd(s)
    <2>1. UNCHANGED <<hand, queue, buf>>
      BY <1>6 DEF BufferEnd, remote
    <2>2. \A x \in Streams : Line(x)' = Line(x)
      BY <2>1, LineStays
    <2> QED
      BY <1>1, <1>3, <2>1, <2>2 DEF Moves, OwnMoves, LogMoves, Streams, Kept, Early
  <1> QED
    BY <1>4, <1>5, <1>6 DEF BufferStep

\* Handlers and the monitor leave the lines alone, or drop them.
LEMMA MovesOthers ==
    ASSUME Inv, Carried, Next,
           MonitorStep \/ \E r \in Reqs : LookStep(r) \/ CallStep(r) \/ CancelStep(r) \/ DeleteStep(r)
    PROVE  Moves
  <1> USE DEF Carried
  <1>1. CASE MonitorStep
    <2>1. UNCHANGED <<emitted, hand, queue, buf, taken, fw, pc>>
      BY <1>1 DEF MonitorStep, MonitorStart, MonitorDone, MonitorWrite, command, forwarders,
                  remote, readers
    <2> QED
      BY <2>1, MovesNot DEF OnHand, Early
  <1>2. ASSUME NEW r \in Reqs, LookStep(r) \/ CallStep(r) \/ CancelStep(r) PROVE Moves
    <2>1. UNCHANGED <<emitted, hand, queue, buf, taken, fw, pc>>
      BY <1>2 DEF LookStep, Lookup, Get, Stream, CallStep, CheckStatus, CheckHandle, CancelAsk,
                  StdinBegin, StdinEnd, CancelStep, CancelLocal, CancelPipes, CancelAnswered,
                  CancelMark, command, forwarders, remote, readers
    <2> QED
      BY <2>1, MovesNot DEF OnHand, Early
  <1>3. ASSUME NEW r \in Reqs, DeleteStep(r) PROVE Moves
    <2>1. UNCHANGED <<emitted, hand, queue, taken, fw, pc>>
      BY <1>3 DEF DeleteStep, RemoveRun, Cleanup, command, forwarders, remote, readers
    <2>2. CASE buf' = buf
      BY <2>1, <2>2, MovesNot DEF OnHand, Early
    <2>3. CASE buf' # buf
      <3>1. buf' = [s \in Streams |-> None] /\ at[r] = "buffers"
        BY <1>3, <2>3 DEF DeleteStep, RemoveRun, Cleanup, readers
      <3>2. ~Early
        BY <3>1 DEF Buffering, Early
      <3>3. ~Kept'
        BY <2>1, <3>1, <3>2 DEF Kept, Early, Streams
      <3> QED
        BY <3>3 DEF Moves
    <2> QED
      BY <2>2, <2>3
  <1> QED
    BY <1>1, <1>2, <1>3

\* So all lines keep their order, and what is in them is what was fed.
LEMMA LinesKept == ASSUME Inv, Carried, Next PROVE OwnLines' /\ LogLine'
  <1>1. Moves
    BY MovesExecute, MovesCommand, MovesForward, MovesBuffer, MovesOthers, Steps DEF CarryStep
  <1> QED
    BY <1>1, OwnLinesMove, LogLineMoves DEF Carried

-----------------------------------------------------------------------------
(* Where the run is, and what has ended.                                   *)

LEMMA BufferingKept == ASSUME Inv, Carried, Next PROVE Buffering'
  <1> USE DEF Carried, Buffering, Early, Kept
  <1>0. /\ None \notin Chunk /\ None \notin Seq(Chunk) /\ "log" \in Streams
        /\ hand \in [Streams -> Chunk \cup {None}] /\ buf \in [Streams -> Seq(Chunk) \cup {None}]
        /\ rd \in [Streams -> {"off", "read", "end"}] /\ at \in [Reqs -> Places]
    BY Chunks DEF Inv, Contents, Progress, Handling, Streams
  <1>1. CASE Execute \/ AddRun \/ MonitorRunCompletion
    BY <1>1 DEF Execute, AddRun, MonitorRunCompletion, readers, manager, handlers
  <1>2. CASE StartBuffering
    <2>0. <<>> \in Seq(Chunk)
      OBVIOUS
    <2>1. <<>> # None
      BY <1>0, <2>0
    <2>2. /\ pc = "buffer" /\ pc' = "add" /\ buf' = [s \in Streams |-> <<>>]
          /\ rd' = [s \in Streams |-> "read"] /\ UNCHANGED <<hand, pipeR, inTable, at>>
      BY <1>2 DEF StartBuffering, manager, handlers
    <2> QED
      BY <1>0, <2>1, <2>2
  <1>3. CASE CommandStep \/ MonitorStep
    <2>1. UNCHANGED <<pc, buf, hand, rd, pipeR, inTable, at>>
      BY <1>3 DEF CommandStep, Emit, Exit, HeirsExit, Wait, StatusEvent, LinkFails, LogClose, MonitorStep,
                  MonitorStart, MonitorDone, MonitorWrite, readers, manager, handlers
    <2> QED
      BY <2>1
  <1>4. ASSUME NEW s \in Std, ForwardStep(s) PROVE Buffering'
    <2>1. UNCHANGED <<pc, buf, rd, pipeR, inTable, at>>
      BY <1>4 DEF ForwardStep, ForwardRead, ForwardBuffer, ForwardLogPart, ForwardLog, ForwardEnd, readers, manager,
                  handlers
    <2>2. hand' = hand \/ \E x \in Streams : rd[x] = "read" /\ hand' = [hand EXCEPT ![x] = InHand(s)]
      BY <1>4 DEF ForwardStep, ForwardRead, ForwardBuffer, ForwardLogPart, ForwardLog, ForwardEnd, LogTakes,
                  readers, Streams
    <2> QED
      BY <1>0, <2>1, <2>2
  <1>5. ASSUME NEW s \in Streams, BufferStep(s) PROVE Buffering'
    <2>1. UNCHANGED <<pc, pipeR, inTable, at>>
      BY <1>5 DEF BufferStep, BufferRead, BufferWrite, BufferEnd, manager, handlers
    <2>2. CASE BufferRead(s)
      BY <1>0, <2>1, <2>2 DEF BufferRead
    <2>3. CASE BufferWrite(s)
      <3>1. hand[s] # None /\ hand' = [hand EXCEPT ![s] = None] /\ rd' = rd
            /\ buf' = IF buf[s] = None THEN buf ELSE [buf EXCEPT ![s] = Append(@, hand[s])]
        BY <2>3 DEF BufferWrite
      <3>2. buf[s] # None => Append(buf[s], hand[s]) \in Seq(Chunk)
        BY <1>0, <3>1
      <3>3. \A x \in Streams : buf'[x] = None <=> buf[x] = None
        BY <1>0, <3>1, <3>2
      <3> QED
        BY <1>0, <2>1, <3>1, <3>3
    <2>4. CASE BufferEnd(s)
      BY <1>0, <2>1, <2>4 DEF BufferEnd
    <2> QED
      BY <1>5, <2>2, <2>3, <2>4 DEF BufferStep
  <1>6. ASSUME NEW r \in Reqs, LookStep(r) \/ CallStep(r) \/ CancelStep(r) PROVE Buffering'
    <2>1. UNCHANGED <<pc, buf, hand, rd, pipeR, inTable>>
      BY <1>6 DEF LookStep, Lookup, Get, Stream, CallStep, CheckStatus, CheckHandle, CancelAsk,
                  StdinBegin, StdinEnd, CancelStep, CancelLocal, CancelPipes, CancelAnswered,
                  CancelMark, readers, manager
    <2>2. \E p : at' = [at EXCEPT ![r] = p] /\ (p = "end" \/ inTable \/ at[r] \notin {"idle", "end"})
      BY <1>6, ReadsFacts DEF LookStep, Lookup, Get, Stream, CallStep, CheckStatus, CheckHandle, CancelAsk,
                  StdinBegin, StdinEnd, CancelStep, CancelLocal, CancelPipes, CancelAnswered,
                  CancelMark, Goto, Answer, Looking
    <2> QED
      BY <1>0, <2>1, <2>2
  <1>7. ASSUME NEW r \in Reqs, DeleteStep(r) PROVE Buffering'
    <2>1. UNCHANGED <<pc, hand, rd>>
      BY <1>7 DEF DeleteStep, RemoveRun, Cleanup, readers
    <2>2. at[r] \in Cleaning \cup {"delete"} /\ \E p : at' = [at EXCEPT ![r] = p]
      BY <1>7 DEF DeleteStep, RemoveRun, Cleanup, CleanupSteps, Cleaning, Goto, Answer
    <2>3. pc \in {"monitor", "done"}
      BY <2>2 DEF Cleaning
    <2>4. CASE UNCHANGED <<buf, pipeR>>
      BY <1>0, <2>1, <2>2, <2>3, <2>4
    <2>5. ASSUME NEW i \in 1..5, Cleanup(r, i) PROVE Buffering'
      <3>1. pipeR' => pipeR
        BY <2>5, Zenon DEF Cleanup
      <3>2. CASE at[r] = "buffers"
        <4>1. ~pipeR /\ buf' = [s \in Streams |-> None]
          BY <2>5, <3>2 DEF Cleanup, Inv, Handling
        <4> QED
          BY <1>0, <2>1, <2>2, <2>3, <3>1, <4>1
      <3>3. CASE at[r] # "buffers"
        <4>1. buf' = buf
          BY <2>5, <3>3 DEF Cleanup
        <4> QED
          BY <1>0, <2>1, <2>2, <2>3, <3>1, <4>1
      <3> QED
        BY <3>2, <3>3
    <2> QED
      BY <1>7, <2>4, <2>5 DEF DeleteStep, RemoveRun, readers
  <1> QED
    BY <1>1, <1>2, <1>3, <1>4, <1>5, <1>6, <1>7, Steps DEF ExecuteStep, CarryStep

LEMMA RunningKept == ASSUME Inv, Carried, Next PROVE Running'
  <1> USE DEF Carried, Running
  <1>0. /\ kind \in {"local", "remote"} /\ kind' = kind /\ bufW' \in [Std -> BOOLEAN]
        /\ fw \in [Std -> {"off", "read", "buf", "log", "rest", "end"}] /\ taken \in [Std -> Nat]
        /\ emitted \in [Std -> Nat] /\ queue \in [Streams -> Seq(Chunk)]
        /\ link \in {"none", "up", "down"}
    BY ApiAssumption, OpenStays, ClosedStays DEF Inv, Scalars, Progress, Contents, kind
  <1>1. CASE Execute
    BY <1>0, <1>1 DEF Execute, command, readers, handlers
  <1>2. CASE StartBuffering \/ AddRun \/ MonitorRunCompletion
    BY <1>0, <1>2 DEF StartBuffering, AddRun, MonitorRunCompletion, command, forwarders, remote,
                      readers, handlers
  <1>3. ASSUME NEW s \in Std, Emit(s) PROVE Running'
    <2>1. UNCHANGED <<pc, proc, taken, fw, link, pipeR, at>> /\ pc # "call"
          /\ (kind = "local" => queue' = queue)
      BY <1>0, <1>3 DEF Emit, forwarders, readers, handlers, Inv, Exited
    <2> QED
      BY <1>0, <2>1
  <1>4. CASE Exit \/ HeirsExit \/ Wait \/ StatusEvent \/ LinkFails \/ LogClose
    BY <1>0, <1>4 DEF Exit, Ends, HeirsExit, Wait, StatusEvent, LinkFails, LogClose, command, forwarders,
                      remote, readers, handlers
  <1>5. ASSUME NEW s \in Std, ForwardStep(s) PROVE Running'
    <2>1. UNCHANGED <<pc, proc, emitted, queue, link, pipeR, at>> /\ fw[s] # "off"
      BY <1>5 DEF ForwardStep, ForwardRead, ForwardBuffer, ForwardLogPart, ForwardLog, ForwardEnd, command, remote,
                  readers, handlers
    <2>2. kind = "local" /\ pc # "call"
      BY <1>0, <2>1
    <2>3. \/ fw' = [fw EXCEPT ![s] = "buf"] /\ taken' = [taken EXCEPT ![s] = @ + 1]
          \/ fw[s] = "buf" /\ fw' = [fw EXCEPT ![s] = "log"] /\ taken' = taken
          \/ fw[s] = "log" /\ fw' = [fw EXCEPT ![s] = "rest"] /\ taken' = taken
          \/ fw' = [fw EXCEPT ![s] = "read"] /\ taken' = taken
          \/ fw' = [fw EXCEPT ![s] = "end"] /\ taken' = taken
      BY <1>5 DEF ForwardStep, ForwardRead, ForwardBuffer, ForwardLogPart, ForwardLog, ForwardEnd, Forward
    <2>4. \A q \in Std : fw'[q] \in {"buf", "log", "rest"} => taken'[q] >= 1
      <3>1. \A q \in Std \ {s} : fw'[q] = fw[q] /\ taken'[q] = taken[q]
        BY <1>0, <2>3
      <3>2. fw'[s] \in {"buf", "log", "rest"} => taken'[s] >= 1
        BY <1>0, <2>3
      <3> QED
        BY <3>1, <3>2
    <2> QED
      BY <1>0, <2>1, <2>2, <2>4
  <1>6. ASSUME NEW s \in Streams, BufferStep(s) PROVE Running'
    <2>1. UNCHANGED <<pc, proc, emitted, taken, fw, link, pipeR, at>>
      BY <1>6 DEF BufferStep, BufferRead, BufferWrite, BufferEnd, command, forwarders, remote, handlers
    <2>2. queue' = queue \/ (kind = "remote" /\ queue[s] # <<>>)
      BY <1>6 DEF BufferStep, BufferRead, BufferWrite, BufferEnd, remote
    <2> QED
      BY <1>0, <2>1, <2>2
  <1>7. CASE MonitorStep
    BY <1>0, <1>7 DEF MonitorStep, MonitorStart, MonitorDone, MonitorWrite, command, forwarders,
                      remote, readers, handlers
  <1>8. ASSUME NEW r \in Reqs, LookStep(r) PROVE Running'
    <2>1. UNCHANGED <<pc, proc, emitted, taken, fw, queue, link, pipeR>>
      BY <1>8 DEF LookStep, Lookup, Get, Stream, command, forwarders, remote, readers
    <2>2. \E p \in Places : at' = [at EXCEPT ![r] = p] /\ p \notin {"complete", "streams"}
      <3>1. ASSUME NEW o \in case.ops[r], Lookup(r, o)
            PROVE  \E p \in Places : at' = [at EXCEPT ![r] = p] /\ p \notin {"complete", "streams"}
        <4>1. o \in Ops
          BY ApiAssumption DEF Inv, Scalars
        <4> QED
          BY <3>1, <4>1 DEF Lookup, Goto, Ops, Places
      <3>2. CASE Get(r)
        BY <3>2, ReadsFacts DEF Get, Goto, Looking, Places
      <3>3. ASSUME NEW s \in Streams, Stream(r, s)
            PROVE  \E p \in Places : at' = [at EXCEPT ![r] = p] /\ p \notin {"complete", "streams"}
        BY <3>3 DEF Stream, Answer, Goto, Places
      <3> QED
        BY <1>8, <3>1, <3>2, <3>3 DEF LookStep
    <2> QED
      BY <1>0, <2>1, <2>2 DEF Inv, Handling
  <1>9. ASSUME NEW r \in Reqs, CallStep(r) \/ CancelStep(r) PROVE Running'
    <2>1. UNCHANGED <<pc, emitted, taken, fw, queue, link, pipeR>> /\ at[r] \notin {"idle", "end"}
      BY <1>9 DEF CallStep, CheckStatus, CheckHandle, CancelAsk,
                  StdinBegin, StdinEnd, CancelStep, CancelLocal, CancelPipes, CancelAnswered,
                  CancelMark, command, forwarders, remote, readers
    <2>2. \E p \in Places : at' = [at EXCEPT ![r] = p] /\ p \notin {"complete", "streams"}
      BY <1>9 DEF CallStep, CheckStatus, CheckHandle, CancelAsk,
                  StdinBegin, StdinEnd, CancelStep, CancelLocal, CancelPipes, CancelAnswered,
                  CancelMark, Goto, Answer, Places
    <2>3. pc # "call"
      BY <2>1 DEF Buffering
    <2> QED
      BY <1>0, <2>1, <2>2, <2>3 DEF Inv, Handling
  <1>10. ASSUME NEW r \in Reqs, DeleteStep(r) PROVE Running'
    <2>1. UNCHANGED <<pc, emitted, taken, fw, queue>> /\ at[r] \in Cleaning \cup {"delete"}
      BY <1>10 DEF DeleteStep, RemoveRun, Cleanup, CleanupSteps, Cleaning, command, forwarders,
                   remote, readers
    <2>2. pc # "call"
      BY <2>1 DEF Buffering, Cleaning
    <2>3. CASE RemoveRun(r)
      BY <1>0, <2>1, <2>2, <2>3 DEF RemoveRun, CleanupSteps, Goto, Answer, remote, readers, Inv, Handling
    <2>4. ASSUME NEW i \in 1..5, Cleanup(r, i) PROVE Running'
      <3>0. \/ at[r] = "client" /\ at' = [at EXCEPT ![r] = "complete"]
            \/ at[r] = "complete" /\ at' = [at EXCEPT ![r] = "streams"]
            \/ at' = [at EXCEPT ![r] = "handle"]
            \/ at' = [at EXCEPT ![r] = "buffers"]
            \/ at' = [at EXCEPT ![r] = "end"]
        <4>1. CASE i = 1
          BY <2>4, <4>1 DEF Cleanup, CleanupSteps, Goto
        <4>2. CASE i = 2
          BY <2>4, <4>2 DEF Cleanup, CleanupSteps, Goto
        <4>3. CASE i = 3
          BY <2>4, <4>3 DEF Cleanup, CleanupSteps, Goto
        <4>4. CASE i = 4
          BY <2>4, <4>4 DEF Cleanup, CleanupSteps, Goto
        <4>5. CASE i = 5
          BY <2>4, <4>5 DEF Cleanup, CleanupSteps, Goto
        <4> QED
          BY <4>1, <4>2, <4>3, <4>4, <4>5
      <3>1. \/ at[r] = "client" /\ at' = [at EXCEPT ![r] = "complete"]
            \/ at[r] = "complete" /\ at' = [at EXCEPT ![r] = "streams"]
            \/ \E p : at' = [at EXCEPT ![r] = p] /\ p \notin {"complete", "streams"}
        BY <3>0
      <3>2. link' = IF at[r] = "client" /\ kind = "remote" THEN "down" ELSE link
        BY <2>4 DEF Cleanup
      <3>3. pipeR /\ at[r] # "streams" => pipeR'
        BY <2>4, Zenon DEF Cleanup
      <3> QED
        BY <1>0, <2>1, <2>2, <3>1, <3>2, <3>3 DEF Inv, Handling
    <2> QED
      BY <1>10, <2>3, <2>4 DEF DeleteStep
  <1> QED
    BY <1>1, <1>2, <1>3, <1>4, <1>5, <1>6, <1>7, <1>8, <1>9, <1>10, Steps
    DEF ExecuteStep, CommandStep, CarryStep

\* A reader that has ended has seen all there was, and a forwarder too.
LEMMA EndingKept == ASSUME Inv, Carried, Next PROVE Ending'
  <1> USE DEF Carried, Ending
  <1>0. /\ kind \in {"local", "remote"} /\ kind' = kind
        /\ fw \in [Std -> {"off", "read", "buf", "log", "rest", "end"}]
        /\ rd \in [Streams -> {"off", "read", "end"}]
        /\ bufW \in [Std -> BOOLEAN] /\ queue \in [Streams -> Seq(Chunk)]
        /\ link \in {"none", "up", "down"}
        /\ \A s \in Std : s \in Streams /\ s # "log"
        /\ "log" \in Streams
    BY ApiAssumption, OpenStays DEF Inv, Scalars, Progress, Contents, kind, Running, Std, Streams
  <1>1. /\ (pipeR' => pipeR) /\ (logW' => logW) /\ (\A s \in Std : bufW'[s] => bufW[s])
        /\ (Uncancelled' => Uncancelled) /\ (kind = "remote" /\ link = "down" => link' = "down")
    BY ClosedStays
  <1>2. CASE Execute
    <2>1. \A s \in Streams : rd[s] = "off"
      BY <1>2 DEF Execute, Buffering, Early
    <2> QED
      BY <1>0, <1>1, <1>2, <2>1 DEF Execute, Running, readers
  <1>3. CASE StartBuffering
    <2>1. rd' = [s \in Streams |-> "read"] /\ UNCHANGED <<fw, outOpen, logW, op>>
      BY <1>3 DEF StartBuffering, command, forwarders, handlers
    <2> QED
      BY <1>0, <1>1, <2>1
  <1>4. CASE AddRun \/ MonitorRunCompletion \/ MonitorStep
    <2>1. UNCHANGED <<proc, fw, outOpen, logW, bufW, pipeR, queue, link, rd, op>>
      BY <1>4 DEF AddRun, MonitorRunCompletion, MonitorStep, MonitorStart, MonitorDone, MonitorWrite,
                  command, forwarders, remote, readers, handlers
    <2> QED
      BY <1>0, <1>1, <2>1
  <1>5. ASSUME NEW s \in Std, Emit(s) PROVE Ending'
    <2>1. UNCHANGED <<proc, fw, outOpen, logW, bufW, pipeR, link, rd, op>>
          /\ (kind = "local" => queue' = queue) /\ (kind = "remote" => proc = "running")
      BY <1>0, <1>5 DEF Emit, forwarders, readers, handlers, Inv, Exited
    <2> QED
      BY <1>0, <1>1, <2>1
  <1>6. CASE Exit \/ HeirsExit \/ Wait \/ StatusEvent \/ LinkFails
    <2>1. UNCHANGED <<fw, logW, bufW, pipeR, queue, rd, op>> /\ (outOpen' => outOpen) /\ proc' \in {proc, "exited"}
          /\ (link' # "down" => link # "down")
      <3>1. CASE Exit
        <4>1. proc' = "exited"
          BY <3>1 DEF Exit, Ends
        <4> QED
          BY <3>1, <4>1 DEF Exit, forwarders, remote, readers, handlers
      <3>2. CASE HeirsExit \/ Wait \/ StatusEvent \/ LinkFails
        BY <3>2 DEF HeirsExit, Wait, StatusEvent, LinkFails, command, forwarders, remote, readers, handlers
      <3> QED
        BY <1>6, <3>1, <3>2
    <2> QED
      BY <1>0, <1>1, <2>1
  <1>7. CASE LogClose
    <2>1. /\ UNCHANGED <<proc, fw, outOpen, bufW, pipeR, queue, link, rd, op>> /\ ~logW'
          /\ \A s \in Std : fw[s] = "end"
      BY <1>7 DEF LogClose, AllForwarded, command, remote, readers, handlers
    <2> QED
      BY <1>0, <1>1, <2>1
  <1>8. ASSUME NEW s \in Std, ForwardStep(s) PROVE Ending'
    <2>1. /\ UNCHANGED <<proc, outOpen, logW, pipeR, queue, link, rd, op>>
          /\ fw[s] # "end"
          /\ \E p : fw' = [fw EXCEPT ![s] = p] /\ (p = "end" => ~outOpen)
      BY <1>8 DEF ForwardStep, ForwardRead, ForwardBuffer, ForwardLogPart, ForwardLog, ForwardEnd, Forward, command,
                  remote, readers, handlers
    <2> QED
      BY <1>0, <1>1, <2>1
  <1>9. ASSUME NEW s \in Streams, BufferStep(s) PROVE Ending'
    <2>1. UNCHANGED <<proc, fw, outOpen, logW, bufW, pipeR, link, op>>
      BY <1>9 DEF BufferStep, BufferRead, BufferWrite, BufferEnd, command, forwarders, remote, handlers
    <2>2. CASE BufferRead(s)
      BY <1>0, <1>1, <2>1, <2>2 DEF BufferRead
    <2>3. CASE BufferWrite(s)
      BY <1>0, <1>1, <2>1, <2>3 DEF BufferWrite, remote
    <2>4. CASE BufferEnd(s)
      <3>1. rd' = [rd EXCEPT ![s] = "end"] /\ queue' = queue /\ Over(s)
        BY <2>4 DEF BufferEnd, remote
      <3>2. kind = "local" /\ pipeR => (s = "log" => ~logW) /\ (s # "log" => ~bufW[s])
        BY <3>1 DEF Over
      <3>3. kind = "remote" /\ link # "down" => proc = "exited" /\ queue[s] = <<>>
        BY <1>0, <3>1 DEF Over, Running
      <3> QED
        BY <1>0, <1>1, <2>1, <3>1, <3>2, <3>3
    <2> QED
      BY <1>9, <2>2, <2>3, <2>4 DEF BufferStep
  <1>10. ASSUME NEW r \in Reqs, LookStep(r) \/ CallStep(r) PROVE Ending'
    <2>1. UNCHANGED <<proc, fw, outOpen, logW, bufW, pipeR, queue, link, rd>>
      BY <1>10 DEF LookStep, Lookup, Get, Stream, CallStep, CheckStatus, CheckHandle, CancelAsk,
                   StdinBegin, StdinEnd, command, forwarders, remote, readers
    <2> QED
      BY <1>0, <1>1, <2>1
  <1>11. ASSUME NEW r \in Reqs, CancelStep(r) PROVE Ending'
    <2>1. UNCHANGED <<fw, pipeR, queue, link, rd>> /\ ~Uncancelled' /\ proc' \in {proc, "exited"}
          /\ (outOpen' => outOpen)
      <3>1. UNCHANGED <<fw, pipeR, queue, link, rd, op>> /\ op[r] = "cancel"
        BY <1>11 DEF CancelStep, CancelLocal, CancelPipes, CancelAnswered, CancelMark, Inv, Handling,
                     forwarders, remote, readers
      <3>2. proc' \in {proc, "exited"} /\ (outOpen' => outOpen)
        <4>1. CASE CancelLocal(r)
          BY <4>1, Zenon DEF CancelLocal, Ends
        <4>2. CASE CancelAnswered(r)
          BY <4>2 DEF CancelAnswered, Ends
        <4>3. CASE CancelPipes(r) \/ CancelMark(r)
          BY <4>3 DEF CancelPipes, CancelMark, command
        <4> QED
          BY <1>11, <4>1, <4>2, <4>3 DEF CancelStep
      <3> QED
        BY <3>1, <3>2 DEF Uncancelled
    <2> QED
      BY <1>0, <1>1, <2>1
  <1>12. ASSUME NEW r \in Reqs, DeleteStep(r) PROVE Ending'
    <2>1. UNCHANGED <<proc, fw, outOpen, logW, bufW, queue, rd, op>>
      BY <1>12 DEF DeleteStep, RemoveRun, Cleanup, command, forwarders, remote, readers
    <2> QED
      BY <1>0, <1>1, <2>1
  <1> QED
    BY <1>2, <1>3, <1>4, <1>5, <1>6, <1>7, <1>8, <1>9, <1>10, <1>11, <1>12, Steps
    DEF ExecuteStep, CommandStep, CarryStep

\* An entry is half in the log only while its forwarder waits to write the
\* rest, and then no other forwarder writes.
LEMMA EntriesKept == ASSUME Inv, Carried, Next PROVE EntriesWhole'
  <1> USE DEF Carried, EntriesWhole
  <1>0. /\ (logW' \/ Uncancelled' => logW \/ Uncancelled) /\ None \notin Std
        /\ fw \in [Std -> {"off", "read", "buf", "log", "rest", "end"}]
    BY ClosedStays, ApiAssumption DEF Inv, Progress
  <1>1. ASSUME UNCHANGED <<fw, cut>> PROVE EntriesWhole'
    BY <1>0, <1>1
  <1>2. CASE ExecuteStep
    <2>1. CASE Execute
      <3>1. cut' = cut /\ \A s \in Std : fw[s] # "rest" /\ fw'[s] # "rest"
        BY <2>1 DEF Execute, Running
      <3> QED
        BY <1>0, <3>1
    <2>2. CASE StartBuffering \/ AddRun \/ MonitorRunCompletion
      BY <1>1, <2>2 DEF StartBuffering, AddRun, MonitorRunCompletion, forwarders
    <2> QED
      BY <1>2, <2>1, <2>2 DEF ExecuteStep
  <1>3. ASSUME NEW s \in Std, ForwardStep(s) PROVE EntriesWhole'
    <2>1. CASE ForwardLogPart(s)
      <3>1. cut' = s /\ fw' = [fw EXCEPT ![s] = "rest"] /\ \A q \in Std \ {s} : fw[q] # "rest"
        BY <2>1 DEF ForwardLogPart, Forward, LogTakes, PipeFree
      <3> QED
        BY <1>0, <3>1
    <2>2. CASE ForwardLog(s)
      <3>1. fw' = [fw EXCEPT ![s] = "read"]
        BY <2>2 DEF ForwardLog, Forward
      <3>2. CASE LogTakes(s) /\ cut' = None
        <4>1. \A q \in Std \ {s} : fw[q] # "rest"
          BY <3>2 DEF LogTakes, PipeFree
        <4> QED
          BY <1>0, <3>1, <3>2, <4>1
      <3>3. CASE ~logW /\ cut' = cut
        <4>1. kind = "local"
          BY <2>2, ApiAssumption DEF ForwardLog, Running, Inv, Scalars, kind
        <4>2. ~Uncancelled
          BY <2>2, <3>3, <4>1 DEF ForwardLog, Ending
        <4>3. ~(logW' \/ Uncancelled')
          BY <3>3, <4>2, ClosedStays
        <4> QED
          BY <4>3
      <3> QED
        BY <2>2, <3>2, <3>3 DEF ForwardLog
    <2>3. CASE ForwardRead(s) \/ ForwardBuffer(s) \/ ForwardEnd(s)
      <3>1. cut' = cut /\ fw[s] # "rest" /\ \E p \in {"buf", "log", "end"} : fw' = [fw EXCEPT ![s] = p]
        BY <2>3 DEF ForwardRead, ForwardBuffer, ForwardEnd, Forward
      <3> QED
        BY <1>0, <3>1
    <2> QED
      BY <1>3, <2>1, <2>2, <2>3 DEF ForwardStep
  <1>4. CASE CommandStep \/ MonitorStep \/ \E s \in Streams : BufferStep(s)
    BY <1>1, <1>4 DEF CommandStep, Emit, Exit, HeirsExit, Wait, StatusEvent, LinkFails, LogClose,
                      MonitorStep, MonitorStart, MonitorDone, MonitorWrite, BufferStep, BufferRead,
                      BufferWrite, BufferEnd, forwarders
  <1>5. ASSUME NEW r \in Reqs, LookStep(r) \/ CallStep(r) \/ CancelStep(r) \/ DeleteStep(r)
        PROVE  EntriesWhole'
    BY <1>1, <1>5 DEF LookStep, Lookup, Get, Stream, CallStep, CheckStatus, CheckHandle, CancelAsk,
                      StdinBegin, StdinEnd, CancelStep, CancelLocal, CancelPipes, CancelAnswered,
                      CancelMark, DeleteStep, RemoveRun, Cleanup, forwarders
  <1> QED
    BY <1>2, <1>3, <1>4, <1>5, Steps DEF CarryStep

-----------------------------------------------------------------------------
(* What has been shown stays true.                                         *)

LEMMA PrefixIs ==
    ASSUME NEW S, NEW p \in Seq(S), NEW q \in Seq(S)
    PROVE  IsPrefix(p, q) <=> Len(p) <= Len(q) /\ \A i \in 1..Len(p) : p[i] = q[i]
  <1>1. ASSUME Len(p) <= Len(q), \A i \in 1..Len(p) : p[i] = q[i] PROVE IsPrefix(p, q)
    <2>1. SubSeq(p, 1, Len(p)) = SubSeq(q, 1, Len(p))
      BY <1>1
    <2> QED
      BY <1>1, <2>1 DEF IsPrefix
  <1>2. ASSUME IsPrefix(p, q) PROVE Len(p) <= Len(q) /\ \A i \in 1..Len(p) : p[i] = q[i]
    <2>1. Len(p) <= Len(q) /\ SubSeq(p, 1, Len(p)) = SubSeq(q, 1, Len(p))
      BY <1>2 DEF IsPrefix
    <2> QED
      BY <2>1
  <1> QED
    BY <1>1, <1>2

LEMMA PrefixTrans ==
    ASSUME NEW S, NEW p \in Seq(S), NEW q \in Seq(S), NEW r \in Seq(S), IsPrefix(p, q), IsPrefix(q, r)
    PROVE  IsPrefix(p, r)
  <1>1. Len(p) <= Len(q) /\ \A i \in 1..Len(p) : p[i] = q[i]
    BY PrefixIs
  <1>2. Len(q) <= Len(r) /\ \A i \in 1..Len(q) : q[i] = r[i]
    BY PrefixIs
  <1>3. Len(p) \in Nat /\ Len(q) \in Nat /\ Len(r) \in Nat
    OBVIOUS
  <1>4. Len(p) <= Len(r) /\ \A i \in 1..Len(p) : p[i] = r[i]
    BY <1>1, <1>2, <1>3
  <1> QED
    BY <1>4, PrefixIs

\* What the first n chunks of a stream are.
LEMMA NumbersSeq ==
    ASSUME NEW s \in Std, NEW n \in Nat
    PROVE  LET w == [i \in 1..n |-> <<s, i>>] IN
           /\ w \in Seq(Chunk) /\ Len(w) = n /\ \A i \in 1..n : w[i] = <<s, i>>
           /\ Range(w) = {<<s, i>> : i \in 1..n}
  <1> DEFINE w == [i \in 1..n |-> <<s, i>>]
  <1>1. w \in [1..n -> Chunk]
    BY DEF Chunk
  <1>2. w \in Seq(Chunk) /\ Len(w) = n
    <2>1. w \in UNION {[1..m -> Chunk] : m \in Nat}
      BY <1>1
    <2>2. w \in Seq(Chunk)
      BY <2>1, SeqDef, Zenon
    <2>3. DOMAIN w = 1..n /\ DOMAIN w = 1..Len(w) /\ Len(w) \in Nat
      BY <2>2, LenProperties
    <2> QED
      BY <2>2, <2>3
  <1>3. Range(w) = {<<s, i>> : i \in 1..n}
    BY DEF Range
  <1> QED
    BY <1>2, <1>3

\* A command that goes on writing takes nothing back.
LEMMA EmittedGrows ==
    ASSUME Inv, Next
    PROVE  \A s \in Std : emitted[s] \in Nat /\ emitted'[s] \in Nat /\ emitted[s] <= emitted'[s]
  <1>1. emitted \in [Std -> Nat] /\ emitted' \in [Std -> Nat]
    BY ProgressKept DEF Inv, Progress
  <1>2. emitted' = emitted \/ \E s \in Std : emitted' = [emitted EXCEPT ![s] = @ + 1]
    <2>1. CASE ExecuteStep \/ CommandStep \/ CarryStep \/ MonitorStep
      BY <2>1 DEF ExecuteStep, Execute, StartBuffering, AddRun, MonitorRunCompletion,
                  CommandStep, Emit, Exit, HeirsExit, Wait, StatusEvent, LinkFails, LogClose,
                  CarryStep, ForwardStep, ForwardRead, ForwardBuffer, ForwardLogPart, ForwardLog, ForwardEnd,
                  BufferStep, BufferRead, BufferWrite, BufferEnd,
                  MonitorStep, MonitorStart, MonitorDone, MonitorWrite, command
    <2>2. ASSUME NEW r \in Reqs, LookStep(r) \/ CallStep(r) \/ CancelStep(r) \/ DeleteStep(r)
          PROVE  emitted' = emitted
      BY <2>2 DEF LookStep, Lookup, Get, Stream, CallStep, CheckStatus, CheckHandle, CancelAsk,
                  StdinBegin, StdinEnd, CancelStep, CancelLocal, CancelPipes, CancelAnswered,
                  CancelMark, DeleteStep, RemoveRun, Cleanup, command
    <2> QED
      BY <2>1, <2>2, Steps
  <1> QED
    BY <1>1, <1>2

LEMMA OrderedStays ==
    ASSUME Inv, Next, NEW s \in Streams, NEW q \in Seq(Chunk), Ordered(s, q)
    PROVE  Ordered(s, q)'
  <1>1. CASE s # "log"
    <2>0. s \in Std
      BY <1>1 DEF Streams
    <2>1. PICK n \in Nat : n = emitted[s]
      BY <2>0, EmittedGrows
    <2>2. PICK m \in Nat : m = emitted'[s] /\ n <= m
      BY <2>0, <2>1, EmittedGrows
    <2>3. PICK w \in Seq(Chunk) : w = [i \in 1..n |-> <<s, i>>] /\ Len(w) = n /\ \A i \in 1..n : w[i] = <<s, i>>
      BY <2>0, NumbersSeq
    <2>4. PICK v \in Seq(Chunk) : v = [i \in 1..m |-> <<s, i>>] /\ Len(v) = m /\ \A i \in 1..m : v[i] = <<s, i>>
      BY <2>0, NumbersSeq
    <2>5. Written(s) = w /\ Written(s)' = v
      BY <2>1, <2>2, <2>3, <2>4 DEF Written
    <2>6. IsPrefix(q, w)
      BY <1>1, <2>5 DEF Ordered
    <2>7. IsPrefix(w, v)
      <3>1. Len(w) <= Len(v) /\ \A i \in 1..Len(w) : w[i] = v[i]
        BY <2>2, <2>3, <2>4
      <3> QED
        BY <3>1, PrefixIs
    <2>8. IsPrefix(q, v)
      BY <2>6, <2>7, PrefixTrans
    <2> QED
      BY <1>1, <2>5, <2>8 DEF Ordered
  <1>2. CASE s = "log"
    <2>1. \A t \in Std : Range(Written(t)) \subseteq Range(Written(t))'
      <3>1. ASSUME NEW t \in Std PROVE Range(Written(t)) \subseteq Range(Written(t))'
        <4>1. Range(Written(t)) = {<<t, i>> : i \in 1..emitted[t]}
          BY DEF Range, Written
        <4>2. Range(Written(t))' = {<<t, i>> : i \in 1..emitted'[t]}
          BY DEF Range, Written
        <4> QED
          BY <4>1, <4>2, EmittedGrows
      <3> QED
        BY <3>1
    <2>2. Interleaved(q)
      BY <1>2 DEF Ordered
    <2>3. Interleaved(q)'
      <3> DEFINE Rest(i) == /\ \A j \in 1..(i - 1) : q[j] # q[i]
                            /\ \A n \in 1..(q[i][2] - 1) : \E j \in 1..(i - 1) : q[j] = <<q[i][1], n>>
      <3>1. \A i \in 1..Len(q) : (\E t \in Std : q[i] \in Range(Written(t))) /\ Rest(i)
        BY <2>2, Zenon DEF Interleaved
      <3>2. \A i \in 1..Len(q) : (\E t \in Std : q[i] \in Range(Written(t))')
        BY <2>1, <3>1, Zenon
      <3> QED
        BY <3>1, <3>2, Zenon DEF Interleaved
    <2> QED
      BY <1>2, <2>3 DEF Ordered
  <1> QED
    BY <1>1, <1>2

LEMMA PrefixAppend ==
    ASSUME NEW S, NEW p \in Seq(S), NEW q \in Seq(S), NEW c \in S, IsPrefix(p, q)
    PROVE  IsPrefix(p, Append(q, c))
  <1>1. PICK r \in Seq(S) : r = Append(q, c) /\ Len(r) = Len(q) + 1 /\ \A i \in 1..Len(q) : r[i] = q[i]
    <2>1. Append(q, c) \in Seq(S) /\ Len(Append(q, c)) = Len(q) + 1
          /\ \A i \in 1..Len(q) : Append(q, c)[i] = q[i]
      OBVIOUS
    <2> QED
      BY <2>1
  <1>2. Len(q) \in Nat /\ Len(q) <= Len(r)
    BY <1>1
  <1>3. IsPrefix(q, r)
    BY <1>1, <1>2, PrefixIs
  <1> QED
    BY <1>1, <1>3, PrefixTrans

\* What is in a buffer is the beginning of its line, ...
LEMMA LineBegins ==
    ASSUME Inv, NEW s \in Streams, NEW b \in Seq(Chunk), NEW l \in Seq(Chunk),
           b = Buffered(s), l = Line(s)
    PROVE  Len(b) <= Len(l) /\ \A i \in 1..Len(b) : l[i] = b[i]
  <1>1. PICK h \in Seq(Chunk) : h = Held(s)
    BY Chunks
  <1>2. PICK q \in Seq(Chunk) : q = queue[s]
    BY Chunks
  <1>3. l = b \o h \o q
    BY <1>1, <1>2 DEF Line
  <1>4. Len(l) = Len(b) + Len(h) + Len(q)
        /\ \A i \in 1..Len(l) : i <= Len(b) => l[i] = b[i]
    BY <1>3, ThreeParts
  <1>5. Len(b) \in Nat /\ Len(h) \in Nat /\ Len(q) \in Nat
    OBVIOUS
  <1> QED
    BY <1>4, <1>5

\* ... so it is in order, and has been written.
LEMMA BufferedOrdered == ASSUME Inv, Carried PROVE \A s \in Streams : Ordered(s, Buffered(s))
  <1> SUFFICES ASSUME NEW s \in Streams PROVE Ordered(s, Buffered(s))
    OBVIOUS
  <1> USE DEF Carried
  <1>1. PICK b \in Seq(Chunk) : b = Buffered(s)
    BY Chunks
  <1>2. PICK l \in Seq(Chunk) : l = Line(s)
    BY Chunks
  <1>3. Len(b) \in Nat /\ Len(b) <= Len(l) /\ \A i \in 1..Len(b) : l[i] = b[i]
    BY <1>1, <1>2, LineBegins
  <1>4. \A i \in 1..Len(b) : b[i] \in Chunk /\ b[i][2] <= emitted[b[i][1]]
    BY <1>1 DEF Inv, Contents, Buffered, Known, Among
  <1>5. \A t \in Std : emitted[t] \in Nat
    BY DEF Inv, Progress
  <1>6. Kept \/ Len(b) = 0
    <2>1. ASSUME ~Kept PROVE b = <<>>
      BY <1>1, <2>1 DEF Buffering, Kept, Buffered
    <2> QED
      BY <2>1
  <1>7. CASE s # "log"
    <2>0. s \in Std
      BY <1>7 DEF Streams
    <2>1. PICK n \in Nat : n = emitted[s]
      BY <2>0, <1>5
    <2>2. PICK w \in Seq(Chunk) : w = [i \in 1..n |-> <<s, i>>] /\ Len(w) = n /\ \A i \in 1..n : w[i] = <<s, i>>
      BY <2>0, NumbersSeq
    <2>3. \A i \in 1..Len(b) : b[i] = <<s, i>>
      <3>1. Kept => \A i \in 1..Len(l) : l[i] = <<s, i>>
        BY <1>2, <2>0 DEF OwnLines, OwnLine, Numbered
      <3> QED
        BY <1>3, <1>6, <3>1
    <2>4. Len(b) <= n
      <3>1. CASE Len(b) = 0
        BY <3>1
      <3>2. CASE Len(b) # 0
        <4>1. Len(b) \in 1..Len(b)
          BY <1>3, <3>2
        <4>2. b[Len(b)] = <<s, Len(b)>>
          BY <2>3, <4>1
        <4> QED
          BY <1>4, <2>1, <4>1, <4>2
      <3> QED
        BY <3>1, <3>2
    <2>5. IsPrefix(b, w)
      <3>1. Len(w) = n /\ Len(b) <= Len(w)
        BY <2>2, <2>4
      <3>2. ASSUME NEW i \in 1..Len(b) PROVE b[i] = w[i]
        <4>1. i \in 1..n
          BY <1>3, <2>1, <2>4
        <4> QED
          BY <2>2, <2>3, <4>1
      <3> QED
        BY <3>1, <3>2, PrefixIs
    <2> QED
      BY <1>1, <1>7, <2>1, <2>2, <2>5 DEF Ordered, Written
  <1>8. CASE s = "log"
    <2>1. \A i \in 1..Len(b) : \E t \in Std : b[i] \in Range(Written(t))
      <3>1. ASSUME NEW i \in 1..Len(b) PROVE \E t \in Std : b[i] \in Range(Written(t))
        <4>1. PICK t \in Std, n \in Nat : b[i] = <<t, n>>
          BY <1>4 DEF Chunk
        <4>2. n <= emitted[t] /\ n >= 1
          <5>1. Kept
            BY <1>6
          <5>2. i \in 1..Len(l) /\ l[i] = b[i]
            BY <1>3
          <5>3. l[i][2] >= 1
            BY <1>2, <1>8, <5>1, <5>2 DEF LogLine, Mixed, Once
          <5> QED
            BY <1>4, <4>1, <5>2, <5>3
        <4>3. n \in 1..emitted[t]
          BY <1>5, <4>2
        <4>4. <<t, n>> \in Range(Written(t))
          BY <4>3 DEF Range, Written
        <4> QED
          BY <4>1, <4>4
      <3> QED
        BY <3>1
    <2>2. ASSUME NEW i \in 1..Len(b)
          PROVE  /\ \A j \in 1..(i - 1) : b[j] # b[i]
                 /\ \A n \in 1..(b[i][2] - 1) : \E j \in 1..(i - 1) : b[j] = <<b[i][1], n>>
      <3>1. i \in 1..Len(l) /\ l[i] = b[i] /\ \A j \in 1..(i - 1) : j \in 1..Len(b) /\ l[j] = b[j]
        BY <1>3
      <3>2. Once(l) /\ Preceded(l)
        BY <1>2, <1>6, <1>8, <2>2 DEF LogLine, Mixed
      <3>3. \A j \in 1..(i - 1) : b[j] # b[i]
        BY <3>1, <3>2 DEF Once
      <3>4. \A n \in 1..(l[i][2] - 1) : \E j \in 1..(i - 1) : l[j] = <<l[i][1], n>>
        BY <3>1, <3>2 DEF Preceded
      <3> QED
        BY <3>1, <3>3, <3>4
    <2>3. Interleaved(b)
      BY <2>1, <2>2, Zenon DEF Interleaved
    <2> QED
      BY <1>1, <1>8, <2>3 DEF Ordered
  <1> QED
    BY <1>7, <1>8

\* Buffers grow, or are dropped.
LEMMA BufferGrows ==
    ASSUME Inv, Carried, Next
    PROVE  /\ Early' => Early
           /\ ~Early => \A s \in Streams : \/ buf'[s] \in {buf[s], None}
                                           \/ buf[s] # None /\ \E c \in Chunk : buf'[s] = Append(buf[s], c)
  <1> USE DEF Early
  <1>0. buf \in [Streams -> Seq(Chunk) \cup {None}] /\ hand \in [Streams -> Chunk \cup {None}]
    BY DEF Inv, Contents
  <1>1. CASE ExecuteStep
    BY <1>1 DEF ExecuteStep, Execute, StartBuffering, AddRun, MonitorRunCompletion, readers
  <1>2. CASE CommandStep \/ MonitorStep
    BY <1>2 DEF CommandStep, Emit, Exit, HeirsExit, Wait, StatusEvent, LinkFails, LogClose, MonitorStep,
                MonitorStart, MonitorDone, MonitorWrite, readers
  <1>3. ASSUME NEW s \in Std, ForwardStep(s) PROVE UNCHANGED <<pc, buf>>
    BY <1>3 DEF ForwardStep, ForwardRead, ForwardBuffer, ForwardLogPart, ForwardLog, ForwardEnd, readers
  <1>4. ASSUME NEW s \in Streams, BufferStep(s)
        PROVE  /\ pc' = pc
               /\ \/ buf' = buf
                  \/ buf[s] # None /\ hand[s] # None /\ buf' = [buf EXCEPT ![s] = Append(@, hand[s])]
    BY <1>4 DEF BufferStep, BufferRead, BufferWrite, BufferEnd
  <1>5. ASSUME NEW r \in Reqs, LookStep(r) \/ CallStep(r) \/ CancelStep(r) \/ DeleteStep(r)
        PROVE  pc' = pc /\ (buf' = buf \/ buf' = [s \in Streams |-> None])
    BY <1>5 DEF LookStep, Lookup, Get, Stream, CallStep, CheckStatus, CheckHandle, CancelAsk,
                StdinBegin, StdinEnd, CancelStep, CancelLocal, CancelPipes, CancelAnswered,
                CancelMark, DeleteStep, RemoveRun, Cleanup, readers
  <1>6. CASE CarryStep
    BY <1>0, <1>3, <1>4, <1>6 DEF CarryStep
  <1> QED
    BY <1>1, <1>2, <1>5, <1>6, Steps

\* A handler's answer that is not written to.
LEMMA ShownStays ==
    ASSUME Inv, Carried, Next, NEW r \in Reqs, Shaped(ans[r])',
           ans'[r].of = ans[r].of, ans'[r].seen = ans[r].seen
    PROVE  /\ Shaped(ans[r])'
           /\ (ans[r].of # None => ans[r].of \in Streams /\ ans[r].seen \in Seq(Chunk) /\ ~Early)'
           /\ \A s \in Streams, q \in Seq(Chunk) :
                ans'[r].of = s /\ ans'[r].seen = q /\ s # None =>
                Ordered(s, q)' /\ (buf'[s] = None \/ IsPrefix(q, buf'[s]))
  <1>1. ans[r].of # None => ans[r].of \in Streams /\ ans[r].seen \in Seq(Chunk) /\ ~Early
    BY DEF Carried, Shown
  <1>2. Early' => Early
    BY BufferGrows
  <1>3. (ans[r].of # None => ans[r].of \in Streams /\ ans[r].seen \in Seq(Chunk) /\ ~Early)'
    BY <1>1, <1>2
  <1>4. ASSUME NEW s \in Streams, NEW q \in Seq(Chunk), ans[r].of = s, ans[r].seen = q, s # None
        PROVE  Ordered(s, q)' /\ (buf'[s] = None \/ IsPrefix(q, buf'[s]))
    <2>1. Ordered(s, q) /\ (buf[s] = None \/ IsPrefix(q, buf[s])) /\ ~Early
      BY <1>1, <1>4 DEF Carried, Shown
    <2>2. Ordered(s, q)'
      BY <2>1, OrderedStays
    <2>3. CASE buf'[s] \in {buf[s], None}
      BY <2>1, <2>2, <2>3
    <2>4. ASSUME buf[s] # None, NEW c \in Chunk, buf'[s] = Append(buf[s], c)
          PROVE  IsPrefix(q, buf'[s])
      <3>1. PICK b \in Seq(Chunk) : b = buf[s]
        BY <2>4, Chunks
      <3>2. IsPrefix(q, b)
        BY <2>1, <2>4, <3>1
      <3>3. IsPrefix(q, Append(b, c))
        BY <3>2, PrefixAppend
      <3> QED
        BY <2>4, <3>1, <3>3
    <2> QED
      BY <2>1, <2>2, <2>3, <2>4, BufferGrows
  <1> QED
    BY <1>3, <1>4

\* What an assignment of what is buffered makes of the answers.
LEMMA SetSeen ==
    ASSUME NEW r \in Reqs, ans = [q \in Reqs |-> ans[q]], Shaped(ans[r]), NEW x, NEW y,
           ans' = [ans EXCEPT ![r].of = x, ![r].seen = y]
    PROVE  ans' = Answers(r, [status |-> ans[r].status, finished |-> ans[r].finished,
                              exit |-> ans[r].exit, of |-> x, seen |-> y])
  <1>1. PICK a1 : a1 = [ans EXCEPT ![r].of = x]
    OBVIOUS
  <1>2. a1 = [q \in Reqs |-> IF q = r THEN [status |-> ans[r].status, finished |-> ans[r].finished,
                                           exit |-> ans[r].exit, of |-> x, seen |-> ans[r].seen]
                                      ELSE ans[q]]
    BY <1>1 DEF Shaped
  <1>3. /\ a1 = [q \in Reqs |-> a1[q]] /\ Shaped(a1[r])
        /\ a1[r].status = ans[r].status /\ a1[r].finished = ans[r].finished
        /\ a1[r].exit = ans[r].exit /\ a1[r].of = x /\ \A q \in Reqs \ {r} : a1[q] = ans[q]
    BY <1>2 DEF Shaped
  <1>4. ans' = [a1 EXCEPT ![r].seen = y]
    BY <1>1
  <1>5. ans' = [q \in Reqs |-> IF q = r THEN [status |-> a1[r].status, finished |-> a1[r].finished,
                                             exit |-> a1[r].exit, of |-> a1[r].of, seen |-> y]
                                        ELSE a1[q]]
    BY <1>3, <1>4 DEF Shaped
  <1>6. ans' = [q \in Reqs |-> IF q = r THEN [status |-> ans[r].status, finished |-> ans[r].finished,
                                             exit |-> ans[r].exit, of |-> x, seen |-> y]
                                        ELSE a1[q]]
    BY <1>3, <1>5
  <1> QED
    BY <1>3, <1>6 DEF Answers

\* What a handler shows is what is buffered, and stays its beginning.
LEMMA ShownKept == ASSUME Inv, Carried, Next PROVE Shown'
  <1>0. Shown /\ Buffering /\ ans = [r \in Reqs |-> ans[r]]
    BY DEF Carried, Inv, Told
  <1>1. ASSUME \A r \in Reqs : Shaped(ans[r])' /\ ans'[r].of = ans[r].of /\ ans'[r].seen = ans[r].seen
        PROVE  Shown'
    <2> SUFFICES ASSUME NEW r \in Reqs
                 PROVE  /\ Shaped(ans[r])'
                        /\ (ans[r].of # None => ans[r].of \in Streams /\ ans[r].seen \in Seq(Chunk) /\ ~Early)'
                        /\ \A s \in Streams, q \in Seq(Chunk) :
                             ans'[r].of = s /\ ans'[r].seen = q /\ s # None =>
                             Ordered(s, q)' /\ (buf'[s] = None \/ IsPrefix(q, buf'[s]))
      BY Zenon DEF Shown
    <2> QED
      BY <1>1, ShownStays
  <1>2. ASSUME UNCHANGED ans PROVE Shown'
    BY <1>0, <1>1, <1>2 DEF Shown, Shaped
  <1>3. ASSUME NEW r \in Reqs, Get(r) PROVE Shown'
    <2>1. PICK st, fi, ex :
             ans' = Answers(r, [status |-> st, finished |-> fi, exit |-> ex,
                                of |-> ans[r].of, seen |-> ans[r].seen])
      <3>0. Shaped(ans[r])
        BY <1>0 DEF Shown
      <3>1. CASE at[r] = "get"
        <4>1. PICK st \in StatusSeen : ans' = [ans EXCEPT ![r].status = st]
          BY <1>3, <3>1, Zenon DEF Get
        <4>2. ans' = Answers(r, [status |-> st, finished |-> ans[r].finished, exit |-> ans[r].exit,
                                 of |-> ans[r].of, seen |-> ans[r].seen])
          BY <1>0, <3>0, <4>1, SetStatus
        <4> QED
          BY <4>2
      <3>2. CASE at[r] = "seeFinished"
        <4>1. ans' = [ans EXCEPT ![r].finished = finished]
          BY <1>3, <3>2, Zenon DEF Get
        <4>2. ans' = Answers(r, [status |-> ans[r].status, finished |-> finished, exit |-> ans[r].exit,
                                 of |-> ans[r].of, seen |-> ans[r].seen])
          BY <1>0, <3>0, <4>1, SetFinished
        <4> QED
          BY <4>2
      <3>3. CASE at[r] = "seeExit"
        <4>1. ans' = [ans EXCEPT ![r].exit = exit]
          BY <1>3, <3>3, Zenon DEF Get
        <4>2. ans' = Answers(r, [status |-> ans[r].status, finished |-> ans[r].finished, exit |-> exit,
                                 of |-> ans[r].of, seen |-> ans[r].seen])
          BY <1>0, <3>0, <4>1, SetExit
        <4> QED
          BY <4>2
      <3> QED
        BY <1>3, <3>1, <3>2, <3>3, ReadsFacts DEF Get, Looking
    <2>2. \A q \in Reqs : Shaped(ans[q])' /\ ans'[q].of = ans[q].of /\ ans'[q].seen = ans[q].seen
      BY <1>0, <2>1 DEF Answers, Shown, Shaped
    <2> QED
      BY <1>1, <2>2
  <1>4. ASSUME NEW r \in Reqs, NEW s \in Streams, Stream(r, s) PROVE Shown'
    <2>1. PICK b \in Seq(Chunk) : b = Buffered(s)
      BY Chunks
    <2>2. ans' = [ans EXCEPT ![r].of = s, ![r].seen = b] /\ at[r] = "stream"
      BY <1>4, <2>1, Zenon DEF Stream
    <2>3. ans' = Answers(r, [status |-> ans[r].status, finished |-> ans[r].finished,
                             exit |-> ans[r].exit, of |-> s, seen |-> b])
      BY <1>0, <2>2, SetSeen DEF Shown
    <2>4. UNCHANGED <<emitted, buf, pc>>
      BY <1>4 DEF Stream, command, readers
    <2>5. ~Early
      BY <1>0, <2>2 DEF Buffering, Early
    <2>6. ASSUME NEW q \in Reqs, q # r
          PROVE  /\ Shaped(ans[q])'
                 /\ (ans[q].of # None => ans[q].of \in Streams /\ ans[q].seen \in Seq(Chunk) /\ ~Early)'
                 /\ \A t \in Streams, p \in Seq(Chunk) :
                      ans'[q].of = t /\ ans'[q].seen = p /\ t # None =>
                      Ordered(t, p)' /\ (buf'[t] = None \/ IsPrefix(p, buf'[t]))
      <3>1. ans'[q] = ans[q]
        BY <2>3, <2>6 DEF Answers
      <3>2. Shaped(ans[q])'
        BY <1>0, <3>1 DEF Shown, Shaped
      <3> QED
        BY <3>1, <3>2, ShownStays
    <2>7. /\ Shaped(ans[r])'
          /\ (ans[r].of # None => ans[r].of \in Streams /\ ans[r].seen \in Seq(Chunk) /\ ~Early)'
          /\ \A t \in Streams, p \in Seq(Chunk) :
               ans'[r].of = t /\ ans'[r].seen = p /\ t # None =>
               Ordered(t, p)' /\ (buf'[t] = None \/ IsPrefix(p, buf'[t]))
      <3>1. ans'[r] = [status |-> ans[r].status, finished |-> ans[r].finished,
                       exit |-> ans[r].exit, of |-> s, seen |-> b]
        BY <2>3 DEF Answers
      <3>2. Shaped(ans[r])' /\ ans'[r].of = s /\ ans'[r].seen = b
        BY <3>1 DEF Shaped
      <3>3. (ans[r].of # None => ans[r].of \in Streams /\ ans[r].seen \in Seq(Chunk) /\ ~Early)'
        BY <2>4, <2>5, <3>2 DEF Early
      <3>4. Ordered(s, b)
        BY <2>1, BufferedOrdered
      <3>5. Ordered(s, b)'
        BY <3>4, OrderedStays
      <3>6. buf[s] = None \/ IsPrefix(b, buf[s])
        <4>1. ASSUME buf[s] # None PROVE b = buf[s]
          BY <2>1, <4>1 DEF Buffered
        <4>2. IsPrefix(b, b)
          <5>1. Len(b) \in Nat
            OBVIOUS
          <5> QED
            BY <5>1, PrefixIs
        <4> QED
          BY <4>1, <4>2
      <3> QED
        BY <2>4, <3>2, <3>3, <3>5, <3>6
    <2> QED
      BY <2>6, <2>7, Zenon DEF Shown
  <1>5. CASE ExecuteStep \/ CommandStep \/ CarryStep \/ MonitorStep
    <2>1. UNCHANGED ans
      BY <1>5 DEF ExecuteStep, Execute, StartBuffering, AddRun, MonitorRunCompletion,
                  CommandStep, Emit, Exit, HeirsExit, Wait, StatusEvent, LinkFails, LogClose,
                  CarryStep, ForwardStep, ForwardRead, ForwardBuffer, ForwardLogPart, ForwardLog, ForwardEnd,
                  BufferStep, BufferRead, BufferWrite, BufferEnd,
                  MonitorStep, MonitorStart, MonitorDone, MonitorWrite, handlers
    <2> QED
      BY <1>2, <2>1
  <1>6. ASSUME NEW r \in Reqs, (\E o \in case.ops[r] : Lookup(r, o)) \/ CallStep(r) \/ CancelStep(r) \/ DeleteStep(r)
        PROVE  Shown'
    <2>1. UNCHANGED ans
      BY <1>6 DEF Lookup, CallStep, CheckStatus, CheckHandle, CancelAsk,
                  StdinBegin, StdinEnd, CancelStep, CancelLocal, CancelPipes, CancelAnswered,
                  CancelMark, DeleteStep, RemoveRun, Cleanup
    <2> QED
      BY <1>2, <2>1
  <1> QED
    BY <1>3, <1>4, <1>5, <1>6, Steps DEF LookStep
-----------------------------------------------------------------------------
(* The lines are carried on, from the first state to any other.            *)

LEMMA CarriedInit == Init => Carried
  <1> SUFFICES ASSUME Init PROVE Carried
    OBVIOUS
  <1> USE DEF Init
  <1>1. Buffering
    BY DEF Buffering, Early, Kept, Streams, Std
  <1>2. Running
    BY DEF Running
  <1>3. Ending
    <2>1. logW /\ \A s \in Std : fw[s] # "end" /\ bufW[s]
      OBVIOUS
    <2>2. \A s \in Streams : rd[s] # "end"
      OBVIOUS
    <2>3. "log" \in Streams /\ Std \subseteq Streams
      BY DEF Streams
    <2> QED
      BY <2>1, <2>2, <2>3, Zenon DEF Ending
  <1>4. \A s \in Streams : Line(s) = <<>>
    <2> SUFFICES ASSUME NEW s \in Streams PROVE Line(s) = <<>>
      OBVIOUS
    <2>1. Buffered(s) = <<>> /\ Held(s) = <<>> /\ queue[s] = <<>>
      BY DEF Buffered, Held
    <2> QED
      BY <2>1 DEF Line
  <1>5. \A s \in Streams, t \in Std : Fed(s, t) = 0
    BY DEF Fed, OnHand
  <1>6. OwnLines
    BY <1>4, <1>5 DEF OwnLines, OwnLine, Numbered, Streams
  <1>7. Mixed(<<>>) /\ \A s \in Std : Reached(<<>>, s, 0)
    BY DEF Mixed, Once, Preceded, Reached, Within
  <1>8. LogLine
    BY <1>4, <1>5, <1>7 DEF LogLine, LogComplete, Streams
  <1>9. Shown
    BY DEF Shown, Shaped, NoAnswer
  <1>10. EntriesWhole
    BY ApiAssumption DEF EntriesWhole
  <1> QED
    BY <1>1, <1>2, <1>3, <1>6, <1>8, <1>9, <1>10 DEF Carried

\* A step that changes nothing keeps all of it.
LEMMA CarriedStutter == ASSUME Inv, Carried, UNCHANGED vars PROVE Carried'
  <1> USE DEF Carried, vars, command, forwarders, remote, readers, manager, handlers
  <1>1. Buffering' /\ Running' /\ Ending'
    BY DEF Buffering, Running, Ending, Early, Kept, kind, Uncancelled
  <1>2. \A s \in Streams : /\ Line(s)' = Line(s) /\ Open(s)' = Open(s)
                           /\ \A t \in Std : Fed(s, t)' = Fed(s, t)
    BY DEF Line, Held, Buffered, Open, kind, Uncancelled, Fed, OnHand
  <1>3. Kept' = Kept
    BY DEF Kept, Early
  <1>4. OwnLines'
    BY <1>2, <1>3 DEF OwnLines, OwnLine, Numbered, Streams
  <1>5. LogLine'
    <2>1. ASSUME Kept PROVE Mixed(Line("log"))'
      <3>1. PICK q : q = Line("log")
        OBVIOUS
      <3>2. Mixed(q)
        BY <2>1, <3>1 DEF LogLine
      <3>3. Line("log")' = q
        BY <1>2, <3>1 DEF Streams
      <3> QED
        BY <3>2, <3>3, MixedThen
    <2>2. ASSUME Kept, Open("log") PROVE LogComplete'
      BY <1>2, <2>2 DEF LogLine, LogComplete, Reached, Within, Streams
    <2>3. "log" \in Streams
      BY DEF Streams
    <2> QED
      BY <1>2, <1>3, <2>1, <2>2, <2>3, Zenon DEF LogLine
  <1>6. \A s \in Streams, q \in Seq(Chunk) : Ordered(s, q)' <=> Ordered(s, q)
    BY DEF Ordered, Written, Interleaved
  <1>7. Shown'
    BY <1>6 DEF Shown, Shaped, Early
  <1>8. EntriesWhole'
    BY DEF EntriesWhole, Uncancelled
  <1> QED
    BY <1>1, <1>4, <1>5, <1>7, <1>8

LEMMA CarriedInvariance == Spec => [](Inv /\ Carried)
  <1>1. Inv /\ Carried /\ [Next]_vars => Carried'
    <2>1. ASSUME Inv, Carried, Next PROVE Carried'
      BY <2>1, BufferingKept, RunningKept, LinesKept, EndingKept, EntriesKept, ShownKept DEF Carried
    <2> QED
      BY <2>1, CarriedStutter
  <1> QED
    BY CarriedInit, Invariance, <1>1, PTL DEF Spec

\* Where nothing is in anybody's hands and nothing was kept from the buffers,
\* all is in them.
LEMMA AllArrived ==
    ASSUME Inv, Carried, Uncancelled, pipeR, link # "down", \A s \in Streams : rd[s] = "end"
    PROVE  \A s \in Std : buf[s] = Written(s) /\ \A i \in 1..emitted[s] : <<s, i>> \in Range(buf["log"])
  <1> USE DEF Carried
  <1>1. Kept /\ ~Early /\ \A s \in Streams : hand[s] = None /\ buf[s] # None
    BY DEF Buffering, Kept, Streams
  <1>2. kind \in {"local", "remote"}
    BY ApiAssumption DEF Inv, Scalars, kind
  <1>3. \A s \in Streams : queue[s] = <<>> /\ Open(s)
    <2>1. CASE kind = "remote"
      BY <2>1 DEF Ending, Open
    <2>2. CASE kind = "local"
      BY <2>2 DEF Running, Open
    <2> QED
      BY <1>2, <2>1, <2>2
  <1>4. \A s \in Streams, t \in Std : Fed(s, t) = emitted[t]
    <2>1. CASE kind = "remote"
      BY <2>1 DEF Fed
    <2>2. CASE kind = "local"
      <3>1. ~logW
        BY <2>2 DEF Ending, Streams
      <3>2. \A t \in Std : fw[t] = "end" /\ ~outOpen
        BY <2>2, <3>1 DEF Ending
      <3>3. \A t \in Std : Drained(t)
        BY <2>2, <3>2 DEF Inv, Counted, Stops, Std
      <3>4. \A s \in Streams, t \in Std : OnHand(s, t) = 0
        BY <3>2 DEF OnHand
      <3>5. taken \in [Std -> Nat]
        BY DEF Inv, Progress
      <3> QED
        BY <2>2, <3>3, <3>4, <3>5 DEF Fed, Drained
    <2> QED
      BY <1>2, <2>1, <2>2
  <1>5. ASSUME NEW s \in Streams PROVE buf[s] \in Seq(Chunk) /\ Line(s) = buf[s]
    <2>1. buf[s] \in Seq(Chunk)
      BY <1>1 DEF Inv, Contents
    <2>2. PICK b \in Seq(Chunk) : b = buf[s]
      BY <2>1
    <2>3. Line(s) = b \o <<>> \o <<>>
      BY <1>1, <1>3, <2>2 DEF Line, Buffered, Held
    <2> QED
      BY <2>2, <2>3
  <1>6. ASSUME NEW s \in Std PROVE buf[s] = Written(s)
    <2>0. s \in Streams
      BY DEF Streams
    <2>1. PICK b \in Seq(Chunk) : b = buf[s]
      BY <1>5, <2>0
    <2>2. Line(s) = b
      BY <1>5, <2>0, <2>1
    <2>3. PICK n \in Nat : n = emitted[s]
      BY DEF Inv, Progress
    <2>4. Len(b) = n /\ \A i \in 1..Len(b) : b[i] = <<s, i>>
      BY <1>1, <1>3, <1>4, <2>0, <2>2, <2>3 DEF OwnLines, OwnLine, Numbered
    <2>5. PICK w \in Seq(Chunk) : w = [i \in 1..n |-> <<s, i>>] /\ Len(w) = n /\ \A i \in 1..n : w[i] = <<s, i>>
      BY NumbersSeq
    <2>6. b = w
      BY <2>4, <2>5, EqualSeqs
    <2> QED
      BY <2>1, <2>3, <2>5, <2>6 DEF Written
  <1>7. ASSUME NEW s \in Std, NEW i \in 1..emitted[s] PROVE <<s, i>> \in Range(buf["log"])
    <2>0. "log" \in Streams
      BY DEF Streams
    <2>1. PICK b \in Seq(Chunk) : b = buf["log"]
      BY <1>5, <2>0
    <2>2. Line("log") = b
      BY <1>5, <2>0, <2>1
    <2>3. Reached(b, s, emitted[s])
      BY <1>1, <1>3, <1>4, <2>0, <2>2 DEF LogLine, LogComplete
    <2>4. i \in Nat /\ Within(b, s, i)
      BY <2>3 DEF Inv, Progress, Reached
    <2>5. PICK j \in 1..Len(b) : b[j] = <<s, i>>
      BY <2>4 DEF Within
    <2>6. DOMAIN b = 1..Len(b)
      BY <2>1
    <2> QED
      BY <2>1, <2>5, <2>6 DEF Range
  <1> QED
    BY <1>6, <1>7

(***************************************************************************)
(* What is buffered of a run's output, and what StreamStdout, StreamStderr *)
(* and StreamLogs have shown of it, is what the command has written, in    *)
(* order and without a gap; and when bufferStream has seen the end of each *)
(* stream of a run that nobody cancelled or deleted, it is all of it, for  *)
(* forwardToLogAndBuffer has handed on each chunk.  The two writes of      *)
(* different forwarders to the log do not mix.                             *)
(***************************************************************************)
THEOREM OutputCarried == Spec => []OutputWhole
  <1>1. ASSUME Inv, Carried PROVE OutputWhole
    <2>1. \A s \in Streams : Ordered(s, Buffered(s))
      BY <1>1, BufferedOrdered
    <2>2. ASSUME NEW r \in Reqs, ans[r].of # None
          PROVE  Ordered(ans[r].of, ans[r].seen)
                 /\ (buf[ans[r].of] = None \/ IsPrefix(ans[r].seen, buf[ans[r].of]))
      BY <1>1, <2>2 DEF Carried, Shown
    <2>3. Uncancelled /\ pipeR /\ link # "down" /\ (\A s \in Streams : rd[s] = "end") =>
          \A s \in Std : buf[s] = Written(s) /\ \A i \in 1..emitted[s] : <<s, i>> \in Range(buf["log"])
      BY <1>1, AllArrived
    <2> QED
      BY <1>1, <2>1, <2>2, <2>3 DEF OutputWhole, Carried
  <1> QED
    BY <1>1, CarriedInvariance, PTL
=============================================================================
