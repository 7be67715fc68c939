----------------------------- MODULE ApiCompute -----------------------------
(***************************************************************************)
(* A compute run behind the local API (socket.go): ExecuteCommand, the     *)
(* goroutines that carry its output into buffers, the one that records how *)
(* it ended, and HTTP handlers that look at the run, cancel it, feed it or *)
(* delete it.  A local run is a process of this device (executor.go); a    *)
(* remote one is a handle of a compute client with a connection of its     *)
(* own, taken here as ComputeRun and StreamReader make it.                 *)
(*                                                                         *)
(* A chunk is what one Read returns.  An io.Pipe hands it from its writer  *)
(* to its reader in one step; neither waits once an end is closed.  No     *)
(* lock protects the run's fields: what a goroutine stores in several of   *)
(* them is seen in any order, and Status is two words, of which a reader,  *)
(* or a second writer, may leave one of each value.  The text of errors is *)
(* left out.                                                               *)
(***************************************************************************)
EXTENDS Integers, SequencesExt

CONSTANTS Reqs,      \* HTTP handlers
          None,
          Cases      \* bounds: where the run is, whether it is a conda one or a
                     \* local one that may leave processes behind, the chunks
                     \* it may write per stream, its exit codes when nobody
                     \* kills it, and what each handler may do

Std == {"out", "err"}
Streams == Std \cup {"log"}
Ops == {"get", "stream", "cancel", "stdin", "delete"}

ASSUME ApiAssumption ==
    /\ None \notin Reqs \cup Int \cup Ops \cup Std \cup {"completed", "failed"}
    /\ None \notin (Std \X Nat) \cup Seq(Std \X Nat) \cup [err : BOOLEAN, code : {0, 1, -1}]
    /\ \A c \in Cases : /\ c.kind \in {"local", "remote"} /\ c.conda \in BOOLEAN
                        /\ c.heirs \in BOOLEAN /\ (c.heirs => c.kind = "local")
                        /\ c.chunks \in [Std -> Nat] /\ c.codes \subseteq {-1, 0, 1}
                        /\ c.ops \in [Reqs -> SUBSET Ops]

VARIABLES
    case,     \* one of Cases
    pc,       \* ExecuteCommand: call, buffer, add, monitor, done
    \* the command
    proc,     \* none, running, exited
    code,     \* its exit code, or -1 when it was killed
    heirs,    \* local: processes it has started go on with its stdout and stderr
    emitted,  \* per stream: chunks it has written
    outOpen,  \* local: the write ends of its stdout and stderr are open
    result,   \* what Done (an error or not) and ExitCode yield, or None
    \* local: forwardToLogAndBuffer
    fw,       \* per stream: off, read, buf, log, rest, end
    taken,    \* per stream: chunks read; the last is the one in hand
    bufW,     \* per stream: the write end of the buffer pipe is open
    logW,     \* the write end of the log pipe is open
    cut,      \* the stream of the entry that the log ends in the middle of
    \* remote: the connection
    link,     \* none, up, down
    queue,    \* per stream: what the remote server has sent
    \* bufferStream and the run's fields
    rd,       \* per stream: off, read, end
    hand,     \* per stream: the chunk just read, not yet in the buffer
    pipeR,    \* the streams of the handle are open at this end
    buf,      \* stdoutBuf, stderrBuf, logsBuf; None for nil
    status, finished, exit,  \* Status, Finished # nil, ExitCode or None
    handle,   \* execHandle # nil
    \* monitorRunCompletion
    mon,      \* off, start, wait, write, end
    unseen,   \* what it has stored and others do not see yet
    \* ComputeManager
    inTable,  \* the run is in runs
    mu,       \* who holds runsMu for writing
    \* handlers
    op, at,   \* per handler: what it does, and where it is
    ans,      \* per handler: what it has read or answered
    crashed   \* a goroutine has dereferenced nil with nobody to recover

command == <<proc, code, heirs, emitted, outOpen, result>>
forwarders == <<fw, taken, bufW, logW, cut>>
remote == <<link, queue>>
readers == <<rd, hand, pipeR, buf>>
fields == <<status, finished, exit, unseen>>
manager == <<inTable, mu>>
handlers == <<op, at, ans>>
vars == <<case, pc, command, forwarders, remote, readers, fields, handle, mon, manager,
          handlers, crashed>>

kind == case.kind

NoAnswer == [status |-> None, finished |-> FALSE, exit |-> None, of |-> None, seen |-> <<>>]

Init ==
    /\ case \in Cases /\ pc = "call"
    /\ proc = "none" /\ code = None /\ heirs = FALSE /\ emitted = [s \in Std |-> 0] /\ outOpen = TRUE
    /\ result = None
    /\ fw = [s \in Std |-> "off"] /\ taken = [s \in Std |-> 0]
    /\ bufW = [s \in Std |-> TRUE] /\ logW = TRUE /\ cut = None
    /\ link = "none" /\ queue = [s \in Streams |-> <<>>]
    /\ rd = [s \in Streams |-> "off"] /\ hand = [s \in Streams |-> None] /\ pipeR = TRUE
    /\ buf = [s \in Streams |-> None]
    /\ status = "running" /\ finished = FALSE /\ exit = None /\ handle = TRUE
    /\ mon = "off" /\ unseen = {"finished", "exit", "status"} /\ inTable = FALSE /\ mu = None
    /\ op = [r \in Reqs |-> None] /\ at = [r \in Reqs |-> "idle"]
    /\ ans = [r \in Reqs |-> NoAnswer]
    /\ crashed = FALSE
-----------------------------------------------------------------------------
\* The program has not crashed, and does not with this step.
Runs == ~crashed /\ UNCHANGED <<case, crashed>>

(* ExecuteCommand.                                                         *)

\* executeCommand: the local process and its forwarders, or Client.Run.
Execute ==
    /\ Runs /\ pc = "call" /\ pc' = "buffer"
    /\ proc' = "running"
    /\ IF kind = "local"
       THEN fw' = [s \in Std |-> "read"] /\ UNCHANGED link
       ELSE link' = "up" /\ UNCHANGED fw
    /\ UNCHANGED <<code, heirs, emitted, outOpen, result, taken, bufW, logW, cut, queue,
                   readers, fields, handle, mon, manager, handlers>>

StartBuffering ==
    /\ Runs /\ pc = "buffer" /\ pc' = "add"
    /\ buf' = [s \in Streams |-> <<>>]
    /\ rd' = [s \in Streams |-> "read"]
    /\ UNCHANGED <<command, forwarders, remote, hand, pipeR, fields, handle, mon, manager,
                   handlers>>

AddRun ==
    /\ Runs /\ pc = "add" /\ mu = None /\ pc' = "monitor"
    /\ inTable' = TRUE
    /\ UNCHANGED <<command, forwarders, remote, readers, fields, handle, mon, mu,
                   handlers>>

MonitorRunCompletion ==
    /\ Runs /\ pc = "monitor" /\ pc' = "done"
    /\ mon' = "start"
    /\ UNCHANGED <<command, forwarders, remote, readers, fields, handle, manager,
                   handlers>>
-----------------------------------------------------------------------------
(* The command.                                                            *)

Emit(s) ==
    /\ Runs /\ (proc = "running" \/ heirs) /\ emitted[s] < case.chunks[s]
    /\ emitted' = [emitted EXCEPT ![s] = @ + 1]
    /\ queue' = IF kind = "remote" /\ link = "up"
                THEN [queue EXCEPT ![s] = Append(@, <<s, emitted[s] + 1>>),
                                   !["log"] = Append(@, <<s, emitted[s] + 1>>)]
                ELSE queue
    /\ UNCHANGED <<pc, proc, code, heirs, outOpen, result, forwarders, link, readers, fields,
                   handle, mon, manager, handlers>>

\* A local process may leave others behind that have its stdout and stderr.
Ends(c) ==
    /\ proc' = "exited" /\ code' = c
    /\ heirs' \in {FALSE, case.heirs}

Exit ==
    /\ Runs /\ proc = "running"
    /\ \E c \in case.codes : Ends(c)
    /\ UNCHANGED <<pc, emitted, outOpen, result, forwarders, remote, readers, fields,
                   handle, mon, manager, handlers>>

HeirsExit ==
    /\ Runs /\ heirs /\ heirs' = FALSE
    /\ UNCHANGED <<pc, proc, code, emitted, outOpen, result, forwarders, remote, readers,
                   fields, handle, mon, manager, handlers>>

\* cmd.Wait returns when the process has exited and its copying goroutines
\* have ended: at EOF, which waits for the last process that can write, or in
\* a write that fails because Cancel has closed the pipe.  That, or the
\* cancelled context, may be an error of its own where the exit code is 0.
Drained(s) == taken[s] = emitted[s]
Copied(s) == IF Drained(s) THEN ~heirs ELSE ~outOpen

Ended(err, c) == [err |-> err, code |-> c]
Plain(c) == Ended(c # 0, c)

Wait ==
    /\ Runs /\ kind = "local" /\ proc = "exited" /\ result = None
    /\ \A s \in Std : Copied(s)
    /\ outOpen' = FALSE
    /\ result' \in {Plain(code)} \cup (IF ~outOpen /\ code = 0 THEN {Plain(-1)} ELSE {})
    /\ UNCHANGED <<pc, proc, code, heirs, emitted, forwarders, remote, readers, fields, handle,
                   mon, manager, handlers>>

\* What the server may report: exit codes up to 0 are no error to it; a run it
\* was asked to cancel; and, of a conda run, what two goroutines made of one
\* error and one exit code that either of them may have taken.
Canceled == Ended(TRUE, -1)

Reports ==
    {Ended(code > 0, code)} \cup
    (IF case.conda THEN {Ended(FALSE, 0), Canceled} \cup (IF code = 0 THEN {} ELSE {Ended(TRUE, 0)})
     ELSE IF \E r \in Reqs : op[r] = "cancel" THEN {Canceled} ELSE {})

\* The status event of a remote run completes the handle; the streams' ends
\* follow in their own time.
StatusEvent ==
    /\ Runs /\ kind = "remote" /\ link = "up" /\ proc = "exited" /\ result = None
    /\ result' \in Reports
    /\ UNCHANGED <<pc, proc, code, heirs, emitted, outOpen, forwarders, remote, readers, fields,
                   handle, mon, manager, handlers>>

LinkFails ==
    /\ Runs /\ link = "up" /\ link' = "down"
    /\ UNCHANGED <<pc, command, forwarders, queue, readers, fields, handle, mon, manager,
                   handlers>>
-----------------------------------------------------------------------------
(* forwardToLogAndBuffer, one per stream of a local run.                   *)

Forward(s, where) == fw' = [fw EXCEPT ![s] = where]
BugInHand(s) == <<s, taken[s] + 1>>
InHand(s) == <<s, taken[s]>>

ForwardRead(s) ==
    /\ Runs /\ fw[s] = "read" /\ outOpen /\ taken[s] < emitted[s]
    /\ taken' = [taken EXCEPT ![s] = @ + 1]
    /\ Forward(s, "buf")
    /\ UNCHANGED <<pc, command, bufW, logW, cut, remote, readers, fields, handle, mon,
                   manager, handlers>>

BugGone(s) == ~bufW[s]
Gone(s) == ~bufW[s] \/ ~pipeR

\* To the buffer pipe, and then to the log, whose closing is no error either.
ForwardBuffer(s) ==
    /\ Runs /\ fw[s] = "buf"
    /\ \/ /\ ~Gone(s) /\ rd[s] = "read" /\ hand[s] = None
          /\ hand' = [hand EXCEPT ![s] = InHand(s)]
       \/ Gone(s) /\ UNCHANGED hand
    /\ Forward(s, "log")
    /\ UNCHANGED <<pc, command, taken, bufW, logW, cut, remote, rd, pipeR, buf, fields, handle,
                   mon, manager, handlers>>

\* The entry of a whole chunk is more than one Read takes.  The pipe has one
\* writer at a time, but Cancel may close it between the two Reads.
PipeFree(s) == \A q \in Std \ {s} : fw[q] # "rest"
LogTakes(s) == logW /\ rd["log"] = "read" /\ hand["log"] = None /\ PipeFree(s)

ForwardLogPart(s) ==
    /\ Runs /\ fw[s] = "log" /\ LogTakes(s)
    /\ cut' = s
    /\ Forward(s, "rest")
    /\ UNCHANGED <<pc, command, taken, bufW, logW, remote, readers, fields, handle, mon,
                   manager, handlers>>

ForwardLog(s) ==
    /\ Runs /\ fw[s] \in {"log", "rest"}
    /\ \/ LogTakes(s) /\ hand' = [hand EXCEPT !["log"] = InHand(s)] /\ cut' = None
       \/ ~logW /\ UNCHANGED <<hand, cut>>
    /\ Forward(s, "read")
    /\ UNCHANGED <<pc, command, taken, bufW, logW, remote, rd, pipeR, buf, fields, handle,
                   mon, manager, handlers>>

ForwardEnd(s) ==
    /\ Runs /\ fw[s] = "read" /\ ~outOpen
    /\ Forward(s, "end")
    /\ bufW' = [bufW EXCEPT ![s] = FALSE]
    /\ UNCHANGED <<pc, command, taken, logW, cut, remote, readers, fields, handle, mon, manager,
                   handlers>>

\* forwardWg.Wait, then logW.Close.
BugOneForwarded == \E s \in Std : fw[s] = "end"
AllForwarded == \A s \in Std : fw[s] = "end"

LogClose ==
    /\ Runs /\ kind = "local" /\ logW /\ AllForwarded
    /\ logW' = FALSE
    /\ UNCHANGED <<pc, command, fw, taken, bufW, cut, remote, readers, fields, handle, mon,
                   manager, handlers>>
-----------------------------------------------------------------------------
(* bufferStream, one per stream.                                           *)

\* Read of a remote stream; that of a local one is the other half of
\* ForwardBuffer and ForwardLog.
BufferRead(s) ==
    /\ Runs /\ kind = "remote" /\ rd[s] = "read" /\ hand[s] = None /\ queue[s] # <<>>
    /\ hand' = [hand EXCEPT ![s] = Head(queue[s])]
    /\ queue' = [queue EXCEPT ![s] = Tail(@)]
    /\ UNCHANGED <<pc, command, forwarders, link, rd, pipeR, buf, fields, handle, mon,
                   manager, handlers>>

\* The chunk goes to the buffer the reader was started with, which may no
\* longer be the run's.
BufferWrite(s) ==
    /\ Runs /\ hand[s] # None
    /\ hand' = [hand EXCEPT ![s] = None]
    /\ buf' = IF buf[s] = None THEN buf ELSE [buf EXCEPT ![s] = Append(@, hand[s])]
    /\ UNCHANGED <<pc, command, forwarders, remote, rd, pipeR, fields, handle, mon, manager,
                   handlers>>

\* EOF, or an error: the connection is lost or this end is closed.  Cleanup
\* closes stdout and stderr but not the log.
Over(s) ==
    IF kind = "local"
    THEN IF s = "log" THEN ~logW ELSE ~bufW[s] \/ ~pipeR
    ELSE \/ proc = "exited" /\ queue[s] = <<>>
         \/ link = "down" \/ (s # "log" /\ ~pipeR)

BufferEnd(s) ==
    /\ Runs /\ rd[s] = "read" /\ hand[s] = None /\ Over(s)
    /\ rd' = [rd EXCEPT ![s] = "end"]
    /\ UNCHANGED <<pc, command, forwarders, remote, hand, pipeR, buf, fields, handle, mon,
                   manager, handlers>>
-----------------------------------------------------------------------------
(* monitorRunCompletion's goroutine.  It evaluates run.execHandle for Done *)
(* and again for ExitCode; nil ends the whole program.                     *)

BugVerdict(end) == IF end.code = 0 THEN "completed" ELSE "failed"
Verdict(end) == IF ~end.err /\ end.code = 0 THEN "completed" ELSE "failed"

\* Two writers of Status meet without a lock.
Stored(st) == IF status \in {"running", st} THEN {st} ELSE {st, "torn"}

MonitorStart ==
    /\ ~crashed /\ mon = "start"
    /\ IF handle THEN mon' = "wait" /\ UNCHANGED crashed ELSE mon' = "end" /\ crashed' = TRUE
    /\ UNCHANGED <<case, pc, command, forwarders, remote, readers, fields, handle, manager, handlers>>

MonitorDone ==
    /\ ~crashed /\ mon = "wait" /\ result # None
    /\ IF handle THEN mon' = "write" /\ UNCHANGED crashed
                 ELSE mon' = "end" /\ crashed' = TRUE
    /\ UNCHANGED <<case, pc, command, forwarders, remote, readers, fields, handle, manager, handlers>>

\* What it stores, as the others come to see it.
MonitorWrite(field) ==
    /\ Runs /\ mon = "write" /\ field \in unseen
    /\ unseen' = unseen \ {field}
    /\ mon' = IF unseen = {field} THEN "end" ELSE "write"
    /\ finished' = (finished \/ field = "finished")
    /\ exit' = IF field = "exit" THEN result.code ELSE exit
    /\ status' \in IF field = "status" THEN Stored(Verdict(result)) ELSE {status}
    /\ UNCHANGED <<pc, command, forwarders, remote, readers, handle, manager, handlers>>
-----------------------------------------------------------------------------
(* HTTP handlers.  A nil dereference in one of them is recovered.          *)

Goto(r, where) == at' = [at EXCEPT ![r] = where]
Answer(r) == Goto(r, "end")

\* Status as a racing reader sees it.
StatusSeen ==
    {status} \cup (IF (mon = "write" /\ "status" \in unseen) \/ \E r \in Reqs : at[r] = "mark"
                  THEN {"torn"} ELSE {})

\* ComputeManager.GetRun.
Lookup(r, o) ==
    /\ Runs /\ at[r] = "idle" /\ mu = None
    /\ op' = [op EXCEPT ![r] = o]
    /\ Goto(r, IF inTable THEN o ELSE "end")
    /\ UNCHANGED <<pc, command, forwarders, remote, readers, fields, handle, mon, manager,
                   ans>>

\* GetComputeRun and ListComputeRuns: Status, Finished, ExitCode, in order.
Reads == [get |-> "seeFinished", seeFinished |-> "seeExit", seeExit |-> "end"]

Get(r) ==
    /\ Runs /\ at[r] \in DOMAIN Reads
    /\ Goto(r, Reads[at[r]])
    /\ \/ at[r] = "get" /\ \E st \in StatusSeen : ans' = [ans EXCEPT ![r].status = st]
       \/ at[r] = "seeFinished" /\ ans' = [ans EXCEPT ![r].finished = finished]
       \/ at[r] = "seeExit" /\ ans' = [ans EXCEPT ![r].exit = exit]
    /\ UNCHANGED <<pc, command, forwarders, remote, readers, fields, handle, mon, manager,
                   op>>

\* GetStdout, GetStderr or GetLogs.
Buffered(s) == IF buf[s] = None THEN <<>> ELSE buf[s]

\* StreamStdout, StreamStderr and StreamLogs: what is buffered, followed or not.
Stream(r, s) ==
    /\ Runs /\ at[r] = "stream"
    /\ ans' = [ans EXCEPT ![r].of = s, ![r].seen = Buffered(s)]
    /\ Answer(r)
    /\ UNCHANGED <<pc, command, forwarders, remote, readers, fields, handle, mon, manager,
                   op>>

\* CancelComputeRun and SendStdin: the run is running, and has a handle; ...
CheckStatus(r) ==
    /\ Runs /\ at[r] \in {"cancel", "stdin"}
    /\ \E st \in StatusSeen : Goto(r, IF st = "running" THEN "check" ELSE "end")
    /\ UNCHANGED <<pc, command, forwarders, remote, readers, fields, handle, mon, manager,
                   op, ans>>

CheckHandle(r) ==
    /\ Runs /\ at[r] = "check"
    /\ Goto(r, IF handle THEN "call" ELSE "end")
    /\ UNCHANGED <<pc, command, forwarders, remote, readers, fields, handle, mon, manager,
                   op, ans>>

\* ... Cancel of a local run kills the process and closes its pipes, ...
CancelLocal(r) ==
    /\ Runs /\ at[r] = "call" /\ op[r] = "cancel" /\ kind = "local"
    /\ IF handle
       THEN /\ Goto(r, "closePipes")
            /\ IF proc = "running" THEN Ends(-1) ELSE UNCHANGED <<proc, code, heirs>>
            /\ outOpen' = FALSE
       ELSE Answer(r) /\ UNCHANGED <<proc, code, heirs, outOpen>>
    /\ UNCHANGED <<pc, emitted, result, forwarders, remote, readers, fields, handle, mon,
                   manager, op, ans>>

CancelPipes(r) ==
    /\ Runs /\ at[r] = "closePipes"
    /\ Goto(r, "mark")
    /\ bufW' = [s \in Std |-> FALSE] /\ logW' = FALSE
    /\ UNCHANGED <<pc, command, fw, taken, cut, remote, readers, fields, handle, mon,
                   manager, op, ans>>

\* ... that of a remote one asks the server, ...
CancelAsk(r) ==
    /\ Runs /\ at[r] = "call" /\ op[r] = "cancel" /\ kind = "remote"
    /\ Goto(r, IF handle THEN "asked" ELSE "end")
    /\ UNCHANGED <<pc, command, forwarders, remote, readers, fields, handle, mon, manager,
                   op, ans>>

CancelAnswered(r) ==
    /\ Runs /\ at[r] = "asked"
    /\ \/ /\ link = "up" /\ Goto(r, "mark")
          /\ IF proc = "running" THEN Ends(-1) ELSE UNCHANGED <<proc, code, heirs>>
       \/ Answer(r) /\ UNCHANGED <<proc, code, heirs>>
    /\ UNCHANGED <<pc, emitted, outOpen, result, forwarders, remote, readers, fields,
                   handle, mon, manager, op, ans>>

\* ... and then Status is set.
CancelMark(r) ==
    /\ Runs /\ at[r] = "mark"
    /\ status' \in Stored("cancelled")
    /\ Answer(r)
    /\ UNCHANGED <<pc, command, forwarders, remote, readers, finished, exit, unseen, handle, mon,
                   manager, op, ans>>

\* stdin.Write: the stdin of a local run was closed when it started.
StdinBegin(r) ==
    /\ Runs /\ at[r] = "call" /\ op[r] = "stdin"
    /\ Goto(r, IF handle /\ kind = "remote" THEN "write" ELSE "end")
    /\ UNCHANGED <<pc, command, forwarders, remote, readers, fields, handle, mon, manager,
                   op, ans>>

StdinEnd(r) ==
    /\ Runs /\ at[r] = "write"
    /\ Answer(r)
    /\ UNCHANGED <<pc, command, forwarders, remote, readers, fields, handle, mon, manager,
                   op, ans>>

BugCleanupSteps == <<"streams", "client", "complete", "handle", "buffers", "end">>
CleanupSteps == <<"client", "complete", "streams", "handle", "buffers", "end">>

\* DeleteComputeRun: RemoveRun takes runsMu and runs Cleanup under it.
RemoveRun(r) ==
    /\ Runs /\ at[r] = "delete" /\ mu = None
    /\ IF inTable THEN mu' = r /\ Goto(r, CleanupSteps[1]) ELSE mu' = mu /\ Answer(r)
    /\ UNCHANGED <<pc, command, forwarders, remote, readers, fields, handle, mon, inTable,
                   op, ans>>

\* A write to stdin under way keeps the stream from being closed while the
\* connection is up.
WriterBusy == link = "up" /\ \E r \in Reqs : at[r] = "write"

Cleanup(r, i) ==
    /\ Runs /\ at[r] = CleanupSteps[i] /\ at[r] # "end"
    /\ at[r] = "streams" => ~WriterBusy
    /\ Goto(r, CleanupSteps[i + 1])
    /\ link' = IF at[r] = "client" /\ kind = "remote" THEN "down" ELSE link
    /\ result' = IF at[r] = "complete" /\ kind = "remote" /\ result = None THEN Canceled ELSE result
    /\ pipeR' = (pipeR /\ at[r] # "streams")
    /\ handle' = (handle /\ at[r] # "handle")
    /\ IF at[r] = "buffers"
       THEN buf' = [s \in Streams |-> None] /\ inTable' = FALSE /\ mu' = None
       ELSE UNCHANGED <<buf, inTable, mu>>
    /\ UNCHANGED <<pc, proc, code, heirs, emitted, outOpen, forwarders, queue, rd, hand, fields,
                   mon, op, ans>>
-----------------------------------------------------------------------------
ExecuteStep == Execute \/ StartBuffering \/ AddRun \/ MonitorRunCompletion
ForwardStep(s) ==
    ForwardRead(s) \/ ForwardBuffer(s) \/ ForwardLogPart(s) \/ ForwardLog(s) \/ ForwardEnd(s)
BufferStep(s) == BufferRead(s) \/ BufferWrite(s) \/ BufferEnd(s)
MonitorStep == MonitorStart \/ MonitorDone \/ \E f \in {"finished", "exit", "status"} : MonitorWrite(f)
DeleteStep(r) == RemoveRun(r) \/ \E i \in 1..5 : Cleanup(r, i)
HandlerStep(r) ==
    Get(r) \/ (\E s \in Streams : Stream(r, s)) \/ CheckStatus(r) \/ CheckHandle(r) \/ CancelLocal(r) \/ CancelPipes(r) \/ CancelAsk(r)
    \/ CancelMark(r) \/ StdinBegin(r) \/ DeleteStep(r)

Next ==
    \/ ExecuteStep
    \/ \E s \in Std : Emit(s) \/ ForwardStep(s)
    \/ Exit \/ HeirsExit \/ Wait \/ StatusEvent \/ LinkFails \/ LogClose
    \/ \E s \in Streams : BufferStep(s)
    \/ MonitorStep
    \/ \E r \in Reqs :
         \/ \E o \in case.ops[r] : Lookup(r, o)
         \/ HandlerStep(r) \/ CancelAnswered(r) \/ StdinEnd(r)

Spec == Init /\ [][Next]_vars

(***************************************************************************)
(* Goroutines and handlers that can go on do.  It is not assumed that the  *)
(* command or its heirs write or exit, that the remote device takes stdin  *)
(* or answers, or that the connection fails.                               *)
(***************************************************************************)
FairSpec ==
    /\ Spec
    /\ WF_vars(ExecuteStep) /\ WF_vars(Wait \/ LogClose)
    /\ WF_vars(MonitorStep)
    /\ \A s \in Std : WF_vars(ForwardStep(s))
    /\ \A s \in Streams : WF_vars(BufferStep(s))
    /\ \A r \in Reqs : WF_vars(HandlerStep(r) \/ (link = "down" /\ StdinEnd(r)))
-----------------------------------------------------------------------------
Places == {"idle", "get", "stream", "seeFinished", "seeExit", "cancel", "stdin", "delete", "check", "call",
           "closePipes", "asked", "mark", "write", "client", "complete", "streams", "handle",
           "buffers", "end"}

\* Types; nothing is in a buffer that the command has not written, and
\* runsMu is held by the handler that runs Cleanup.
TypeOK ==
    /\ case \in Cases /\ pc \in {"call", "buffer", "add", "monitor", "done"}
    /\ proc \in {"none", "running", "exited"} /\ heirs \in BOOLEAN
    /\ {code, exit} \subseteq {None, 0, 1, -1}
    /\ result # None => result \in [err : BOOLEAN, code : {0, 1, -1}]
    /\ link \in {"none", "up", "down"} /\ mon \in {"off", "start", "wait", "write", "end"}
    /\ unseen \subseteq {"finished", "exit", "status"} /\ cut \in Std \cup {None}
    /\ fw \in [Std -> {"off", "read", "buf", "log", "rest", "end"}] /\ rd \in [Streams -> {"off", "read", "end"}]
    /\ \A s \in Std : emitted[s] \in 0..case.chunks[s] /\ taken[s] \in 0..emitted[s]
    /\ \A s \in Streams : /\ hand[s] # None => hand[s] \in Std \X Nat
                         /\ buf[s] # None => \A i \in 1..Len(buf[s]) :
                                buf[s][i] \in Std \X Nat /\ buf[s][i][2] <= emitted[buf[s][i][1]]
    /\ status \in {"running", "completed", "failed", "cancelled", "torn"}
    /\ at \in [Reqs -> Places] /\ op \in [Reqs -> Ops \cup {None}]
    /\ mu # None => at[mu] \in {"client", "complete", "streams", "handle", "buffers"}

Uncancelled == \A r \in Reqs : op[r] # "cancel"

(***************************************************************************)
(* A buffer holds the chunks the command has written so far to its stream, *)
(* in order and without a gap, and the log those of both streams, each     *)
(* once and after all that its stream has written before it: also when the *)
(* run is cancelled, deleted or cut off on the way.  What a handler has    *)
(* shown was so, too, and stays the beginning of the buffer.  When the     *)
(* buffering goroutines of a run that was neither cancelled nor deleted    *)
(* have seen the ends of their streams, nothing is missing.  An entry that *)
(* takes two Reads gets nothing between its parts, and both of them unless *)
(* Cancel closes the log in between.                                       *)
(***************************************************************************)
Written(s) == [i \in 1..emitted[s] |-> <<s, i>>]

Interleaved(q) ==
    \A i \in 1..Len(q) :
        /\ \E s \in Std : q[i] \in Range(Written(s))
        /\ \A j \in 1..(i - 1) : q[j] # q[i]
        /\ \A n \in 1..(q[i][2] - 1) : \E j \in 1..(i - 1) : q[j] = <<q[i][1], n>>

Ordered(s, q) == IF s = "log" THEN Interleaved(q) ELSE IsPrefix(q, Written(s))

EntriesWhole == logW \/ Uncancelled => \A s \in Std : cut = s <=> fw[s] = "rest"

OutputWhole ==
    /\ EntriesWhole
    /\ \A s \in Streams : Ordered(s, Buffered(s))
    /\ \A r \in Reqs : LET s == ans[r].of IN s # None =>
         Ordered(s, ans[r].seen) /\ (buf[s] = None \/ IsPrefix(ans[r].seen, buf[s]))
    /\ Uncancelled /\ pipeR /\ link # "down" /\ (\A s \in Streams : rd[s] = "end") =>
       \A s \in Std : buf[s] = Written(s) /\ \A i \in 1..emitted[s] : <<s, i>> \in Range(buf["log"])

(***************************************************************************)
(* A handler that shows any sign of the end, a verdict, the end time or an *)
(* exit code, shows it of a run that has ended, and the code is the one    *)
(* the run ended with, though no lock is held while the fields are written *)
(* and read, and some of the signs may be missing.  What is shown as       *)
(* completed has ended without an error and with code 0, and so has the    *)
(* process unless conda's goroutines came between; what is shown as failed *)
(* has not, again with the exception of conda, where it may have ended in  *)
(* an error and with code 0.  And when a local run is completed, at most   *)
(* two chunks of each stream are on their way to its buffers, the          *)
(* forwarder's and the buffering goroutine's: Wait has seen the pipes      *)
(* drained.  (Deleting it closes them, and the rest is lost.)              *)
(***************************************************************************)
AnswerTrue(a) ==
    /\ a.status \in {"completed", "failed"} \/ a.finished \/ a.exit # None => result # None
    /\ a.exit # None => a.exit = result.code
    /\ a.status = "completed" => result = Ended(FALSE, 0) /\ (case.conda \/ code = 0)
    /\ a.status = "failed" => result # Ended(FALSE, 0) /\ (case.conda \/ result.code # 0)

AnswersTrue == \A r \in Reqs : op[r] = "get" => AnswerTrue(ans[r])

LagBounded ==
    kind = "local" /\ status = "completed" /\ pipeR /\ Uncancelled =>
    \A s \in Std : buf[s] # None => emitted[s] - Len(buf[s]) <= 2

EndShown == AnswersTrue /\ LagBounded

(***************************************************************************)
(* Looking at a run and deleting it always come to an end, though another  *)
(* handler is stuck in a write to its stdin which the remote device does   *)
(* not take, and runsMu is held while the run is cleaned up.               *)
(***************************************************************************)
HandlersReturn ==
    []<>(\A r \in Reqs : op[r] \in {"get", "stream", "delete"} => at[r] = "end" \/ crashed)

(***************************************************************************)
(* When a local command has exited, and with it all that had its stdout    *)
(* and stderr, how it ended is recorded and none of the goroutines that    *)
(* carry its output is left behind, whatever was cancelled or deleted on   *)
(* the way.                                                                *)
(***************************************************************************)
Settled == /\ mon = "end" /\ (\A s \in Std : fw[s] = "end")
           /\ (\A s \in Streams : rd[s] = "end")

LocalSettles == []<>(kind = "local" /\ proc = "exited" /\ ~heirs => crashed \/ Settled)

(***************************************************************************)
(* "DeleteComputeRun removes a compute run and cleans up all associated    *)
(* resources" (socket.go): and does no harm to the program.  But the       *)
(* goroutine that waits for the run's end uses execHandle afterwards.      *)
(***************************************************************************)
DeleteHarmless == ~crashed
=============================================================================
