----------------------------- MODULE ComputeRun -----------------------------
(***************************************************************************)
(* The life of one command run through the compute protocol: the client's  *)
(* handle (client.go), the server's RunInfo and the goroutines around it   *)
(* (server.go), and the process (executor.go, conda/operations.go).        *)
(*                                                                         *)
(* The packets travel over the control connection as BaseService has them: *)
(* in order, each written whole, an answer going to the request that is    *)
(* pending for its type and anything else to the events handler.  A        *)
(* goroutine's critical sections and channel operations are single steps.  *)
(***************************************************************************)
EXTENDS Integers, Sequences

CONSTANTS None,   \* no value, no run
          Kinds,  \* kinds of command: "raw", "conda" (a conda process),
                  \* "value" (a conda subcommand that only returns a string)
          Asked   \* bound: per kind, what the server is asked for besides Run

Terminal == {"completed", "failed", "canceled"}
Statuses == Terminal \cup {"running"}
Entries == [st : Statuses, cancelFunc : BOOLEAN]

ASSUME ComputeAssumption ==
    /\ Kinds \subseteq {"raw", "conda", "value"} /\ Asked \in [Kinds -> SUBSET {"status", "cancel", "unknown"}]
    /\ None \notin Int \cup Entries \cup Statuses \cup {"context", "closed", "nil", "err"}

Calls == {"run", "status", "cancel"}
Answer(re, ok, st) == [re |-> re, ok |-> ok, st |-> st]

VARIABLES
    kind,        \* what the client runs
    conn,        \* the connection: up or down
    toServer,    \* control packets on their way to the server
    toClient,    \* and to the client
    \* the client
    call,        \* per call (Run, Status, Cancel): idle, sent, ok, bad, over
    handle,      \* the handle: none, early (Run under way), active, gone
    registered,  \* the handle is in computeEventsHandler.handles
    result,      \* what the handle was completed with
    disp,        \* where the dispatcher is
    cclose,      \* where Client.Close is
    \* the server
    entry,       \* RunInfo in Server.runs: status, and whether CancelFunc is set
    h,           \* Serve's handler: where it is and what it will send
    mon,         \* monitorExecution: where it is and what it has
    g,           \* the goroutine of handleCondaOperation: likewise
    fwd,         \* number of forwarders (stdout, stderr) that are running
    logOpen,     \* the log stream is open
    sclose,      \* where Server.Close is
    \* the process
    proc,        \* none, running, exited
    code,        \* its exit code
    killed,      \* it was told to stop
    doneCh,      \* execution.Done: queued value, closed
    exitCh       \* execution.ExitCode

net    == <<conn, toServer, toClient>>
client == <<call, handle, registered, result, disp, cclose>>
server == <<entry, h, mon, g, fwd, logOpen, sclose>>
process == <<proc, code, killed, doneCh, exitCh>>
vars == <<kind, net, client, server, process>>

At(where) == [pc |-> where, err |-> "nil", code |-> None, st |-> "none"]
Chan == [val |-> None, closed |-> FALSE]

Init ==
    /\ kind \in Kinds
    /\ conn = "up" /\ toServer = <<>> /\ toClient = <<>>
    /\ call = [c \in Calls |-> "idle"] /\ handle = "none" /\ registered = FALSE
    /\ result = None /\ disp = "next" /\ cclose = "no"
    /\ entry = None /\ h = [pc |-> "idle", pkt |-> None]
    /\ mon = At("off") /\ g = At("off") /\ fwd = 0 /\ logOpen = FALSE /\ sclose = "no"
    /\ proc = "none" /\ code = 0 /\ killed = FALSE /\ doneCh = Chan /\ exitCh = Chan

\* A failed write of a packet is noticed by who depends on it.
Send(pkt) == toClient' = IF conn = "up" THEN Append(toClient, pkt) ELSE toClient
-----------------------------------------------------------------------------
(* Client: Run, Status and Cancel.                                         *)

Request(c) ==
    IF conn = "up"
    THEN toServer' = Append(toServer, c) /\ call' = [call EXCEPT ![c] = "sent"]
    ELSE call' = [call EXCEPT ![c] = "bad"] /\ UNCHANGED toServer

BugRegistersLate == FALSE
RegisteredEarly == TRUE

\* The handle is registered before the request goes out.
Run ==
    /\ call["run"] = "idle"
    /\ Request("run")
    /\ handle' = "early" /\ registered' = RegisteredEarly
    /\ UNCHANGED <<kind, conn, toClient, result, disp, cclose, server, process>>

\* The response is there: attach the streams, or give the handle up.
RunReturn ==
    /\ call["run"] \in {"ok", "bad"}
    /\ call' = [call EXCEPT !["run"] = "over"]
    /\ \/ /\ call["run"] = "ok"
          /\ handle' = "active" /\ registered' = (registered \/ ~RegisteredEarly)
       \/ /\ call["run"] = "bad" \/ conn = "down"
          /\ handle' = "gone" /\ registered' = FALSE
    /\ UNCHANGED <<kind, net, result, disp, cclose, server, process>>

Ask(c) ==
    /\ handle = "active" /\ call[c] = "idle"
    /\ Request(c)
    /\ UNCHANGED <<kind, conn, toClient, handle, registered, result, disp, cclose,
                   server, process>>

\* A packet of a type the server does not know, from a peer of another version;
\* before there is a run it would find nothing to end.
Stray ==
    /\ handle = "active" /\ conn = "up" /\ \A i \in 1..Len(toServer) : toServer[i] # "unknown"
    /\ toServer' = Append(toServer, "unknown")
    /\ UNCHANGED <<kind, conn, toClient, client, server, process>>

\* The context of the call is done first: a later answer is an event.
GiveUp(c) ==
    /\ call[c] = "sent"
    /\ call' = [call EXCEPT ![c] = "bad"]
    /\ UNCHANGED <<kind, net, handle, registered, result, disp, cclose, server, process>>

First == result = None

\* RawExecutionHandle.complete, under once.
CompleteWith(r) ==
    result' = IF First THEN r ELSE result

\* The goroutine that waits for the context given to Run; it unregisters in
\* the same breath, which nobody can tell.
CtxDone ==
    /\ handle = "active" /\ result # "context"
    /\ CompleteWith("context")
    /\ registered' = FALSE
    /\ UNCHANGED <<kind, net, call, handle, disp, cclose, server, process>>

\* Close: the connection (BaseClient.Close), then completeAll.
ClientClose ==
    /\ cclose = "no"
    /\ cclose' = "handles" /\ conn' = "down"
    /\ UNCHANGED <<kind, toServer, toClient, call, handle, registered, result, disp,
                   server, process>>

CompleteAll ==
    /\ cclose = "handles"
    /\ cclose' = "closed"
    /\ IF registered
       THEN CompleteWith("closed") /\ registered' = FALSE
       ELSE UNCHANGED <<result, registered>>
    /\ UNCHANGED <<kind, net, call, handle, disp, server, process>>
-----------------------------------------------------------------------------
(* Client: the dispatcher and HandleEvent.                                 *)

BugRunningIsTerminal(st) == st # "none"
IsTerminal(st) == st \in Terminal

Dispatch ==
    /\ disp = "next" /\ toClient # <<>>
    /\ toClient' = Tail(toClient)
    /\ LET pkt == Head(toClient)
       IN  IF call[pkt.re] = "sent"
           THEN /\ call' = [call EXCEPT ![pkt.re] = IF pkt.ok THEN "ok" ELSE "bad"]
                /\ UNCHANGED <<result, disp>>
           ELSE /\ IF pkt.re = "status" /\ registered /\ IsTerminal(pkt.st)
                   THEN CompleteWith(pkt.st) /\ disp' = "unregister"
                   ELSE UNCHANGED <<result, disp>>
                /\ UNCHANGED call
    /\ UNCHANGED <<kind, conn, toServer, handle, registered, cclose, server, process>>

Unregister ==
    /\ disp = "unregister"
    /\ disp' = "next" /\ registered' = FALSE
    /\ UNCHANGED <<kind, net, call, handle, result, cclose, server, process>>

\* failAllPending, when the control plane has reported the end.
DispatchEnd ==
    /\ disp = "next" /\ conn = "down"
    /\ disp' = "done" /\ toClient' = <<>>
    /\ call' = [c \in Calls |-> IF call[c] = "sent" THEN "bad" ELSE call[c]]
    /\ UNCHANGED <<kind, conn, toServer, handle, registered, result, cclose, server, process>>

ConnFails ==
    /\ conn = "up" /\ conn' = "down"
    /\ UNCHANGED <<kind, toServer, toClient, client, server, process>>
-----------------------------------------------------------------------------
(* Server: Serve and the handlers, one packet after the other.             *)

Handling(c) == h.pc = "idle" /\ sclose = "no" /\ toServer # <<>> /\ Head(toServer) = c
Then(where, pkt) == h' = [pc |-> where, pkt |-> pkt]

Start == [st |-> "running", cancelFunc |-> kind = "raw"]

\* handleRun: the run is stored and its goroutines are started before the
\* answer goes out.  A conda operation is started by a goroutine of its own.
HandleRun ==
    /\ Handling("run")
    /\ toServer' = Tail(toServer)
    /\ Then("reply", Answer("run", TRUE, "none"))
    /\ entry' = Start
    /\ logOpen' = TRUE
    /\ IF kind = "raw"
       THEN /\ proc' = "running" /\ mon' = At("done") /\ fwd' = 2
            /\ UNCHANGED g
       ELSE g' = At("start") /\ UNCHANGED <<proc, mon, fwd>>
    /\ UNCHANGED <<kind, conn, toClient, client, sclose, code, killed, doneCh, exitCh>>

\* The streams or the process cannot be had.
HandleRunError ==
    /\ Handling("run")
    /\ toServer' = Tail(toServer)
    /\ Then("reply", Answer("run", FALSE, "none"))
    /\ UNCHANGED <<kind, conn, toClient, client, entry, mon, g, fwd, logOpen, sclose, process>>

\* The snapshot of handleStatus is taken now and sent later.
HandleStatus ==
    /\ Handling("status")
    /\ toServer' = Tail(toServer)
    /\ Then("reply", Answer("status", TRUE, entry.st))
    /\ UNCHANGED <<kind, conn, toClient, client, entry, mon, g, fwd, logOpen, sclose, process>>

\* handleCancel: check, call CancelFunc, set the status, event, answer.
HandleCancel ==
    /\ Handling("cancel")
    /\ toServer' = Tail(toServer)
    /\ IF entry.st = "running" THEN Then("kill", None)
       ELSE Then("reply", Answer("cancel", FALSE, "none"))
    /\ UNCHANGED <<kind, conn, toClient, client, entry, mon, g, fwd, logOpen, sclose, process>>

BugNoCancelFunc == killed
CancelFunc == killed \/ entry.cancelFunc

CancelKill ==
    /\ h.pc = "kill"
    /\ killed' = CancelFunc
    /\ Then("mark", None)
    /\ UNCHANGED <<kind, net, client, entry, mon, g, fwd, logOpen, sclose, proc, code,
                   doneCh, exitCh>>

CancelMark ==
    /\ h.pc = "mark"
    /\ entry' = [entry EXCEPT !.st = "canceled"]
    /\ Then("event", None)
    /\ UNCHANGED <<kind, net, client, mon, g, fwd, logOpen, sclose, process>>

CancelEvent ==
    /\ h.pc = "event"
    /\ Send(Answer("status", TRUE, "canceled"))
    /\ Then("reply", Answer("cancel", TRUE, "none"))
    /\ UNCHANGED <<kind, conn, toServer, client, entry, mon, g, fwd, logOpen, sclose, process>>

\* The answer; if that of handleRun cannot be sent, the run is forgotten.
Reply ==
    /\ h.pc = "reply"
    /\ Send(h.pkt)
    /\ Then("idle", None)
    /\ entry' = IF conn = "down" /\ h.pkt.re = "run" /\ kind = "raw" THEN None ELSE entry
    /\ UNCHANGED <<kind, conn, toServer, client, mon, g, fwd, logOpen, sclose, process>>

\* Serve ends with the connection, or when Dispatch returns an error.
ServeEnds == h.pc = "idle" /\ sclose = "no" /\ (conn = "down" \/ Handling("unknown"))

\* Close cancels what is running, and says so if the connection is still up.
ServerClose ==
    /\ ServeEnds
    /\ sclose' = "mux" /\ toServer' = <<>>
    /\ IF entry # None /\ entry.st = "running"
       THEN /\ entry' = [entry EXCEPT !.st = "canceled"] /\ killed' = CancelFunc
            /\ Send(Answer("status", TRUE, "canceled"))
       ELSE UNCHANGED <<entry, killed, toClient>>
    /\ UNCHANGED <<kind, conn, client, h, mon, g, fwd, logOpen, proc, code, doneCh, exitCh>>

\* BaseServer.Close: Multiplexer.Close closes the connection and every stream,
\* the log too, unless readLoop has failed before.
ServerCloseMux ==
    /\ sclose = "mux"
    /\ sclose' = "closed"
    /\ conn' = "down"
    /\ \/ logOpen' = FALSE
       \/ conn = "down" /\ UNCHANGED logOpen
    /\ UNCHANGED <<kind, toServer, toClient, client, entry, h, mon, g, fwd, process>>
-----------------------------------------------------------------------------
(* The process, its two channels, and the forwarders of its output.        *)

BugLeavesOpen == FALSE
ChansClosed == TRUE

\* cmd.Wait returns: exit code (-1 after a signal, from whomever), then Done,
\* then both are closed.
Exit ==
    /\ proc = "running"
    /\ proc' = "exited"
    /\ code' \in {-1, 0, 1}
    /\ exitCh' = [val |-> code', closed |-> ChansClosed]
    /\ doneCh' = [val |-> IF code' = 0 THEN "nil" ELSE "err", closed |-> ChansClosed]
    /\ UNCHANGED <<kind, net, client, server, killed>>

Ready(ch) == ch.val # None \/ ch.closed
Taken(ch) == [ch EXCEPT !.val = None]

ForwardEnd ==
    /\ fwd > 0 /\ (proc = "exited" \/ conn = "down" \/ (kind = "conda" /\ killed))
    /\ fwd' = fwd - 1
    /\ UNCHANGED <<kind, net, client, entry, h, mon, g, logOpen, sclose, process>>

BugWaitsForOne == fwd < 2
OutputForwarded == fwd = 0

\* handleRun's goroutine that waits for both forwarders of a raw command.
LogClose ==
    /\ kind = "raw" /\ logOpen /\ OutputForwarded
    /\ logOpen' = FALSE
    /\ UNCHANGED <<kind, net, client, entry, h, mon, g, fwd, sclose, process>>
-----------------------------------------------------------------------------
(* monitorExecution.                                                       *)

MonitorDone ==
    /\ mon.pc = "done" /\ Ready(doneCh)
    /\ doneCh' = Taken(doneCh)
    /\ mon' = [mon EXCEPT !.pc = "code"]
    /\ UNCHANGED <<kind, net, client, entry, h, g, fwd, logOpen, sclose, proc, code, killed, exitCh>>

MonitorCode ==
    /\ mon.pc = "code" /\ Ready(exitCh)
    /\ exitCh' = Taken(exitCh)
    /\ mon' = [mon EXCEPT !.pc = "mark", !.code = exitCh.val]
    /\ UNCHANGED <<kind, net, client, entry, h, g, fwd, logOpen, sclose, proc, code, killed, doneCh>>

BugMonitorOverwrites == TRUE
MonitorMayMark == entry.st = "running"

Outcome(ok) == IF ok THEN "completed" ELSE "failed"

MonitorMark ==
    /\ mon.pc = "mark"
    /\ IF entry = None
       THEN mon' = At("off") /\ UNCHANGED entry
       ELSE /\ entry' = IF MonitorMayMark
                        THEN [entry EXCEPT !.st = Outcome(mon.code # None /\ mon.code <= 0)]
                        ELSE entry
            /\ mon' = [At("send") EXCEPT !.st = entry'.st]
    /\ UNCHANGED <<kind, net, client, h, g, fwd, logOpen, sclose, process>>

MonitorSend ==
    /\ mon.pc = "send"
    /\ Send(Answer("status", TRUE, mon.st))
    /\ mon' = At("off")
    /\ UNCHANGED <<kind, conn, toServer, client, entry, h, g, fwd, logOpen, sclose, process>>
-----------------------------------------------------------------------------
(* handleCondaOperation's goroutine.                                       *)

\* The subcommand runs: bridgeCondaExecution, with a monitor of its own.
CondaStart ==
    /\ g.pc = "start"
    /\ g' = At("done")
    /\ entry' = [entry EXCEPT !.cancelFunc = TRUE]
    /\ mon' = At("done") /\ fwd' = 2
    /\ IF kind = "conda"
       THEN proc' = "running" /\ UNCHANGED <<doneCh, exitCh>>
       ELSE /\ proc' = "exited"
            /\ doneCh' = [Chan EXCEPT !.val = "nil"] /\ exitCh' = [Chan EXCEPT !.val = 0]
    /\ UNCHANGED <<kind, net, client, h, logOpen, sclose, code, killed>>

\* It cannot: the streams are closed and the run has failed.
CondaError ==
    /\ g.pc = "start"
    /\ g' = [At("mark") EXCEPT !.err = "err", !.code = 1]
    /\ logOpen' = FALSE
    /\ UNCHANGED <<kind, net, client, entry, h, mon, fwd, sclose, process>>

CondaDone ==
    /\ g.pc = "done" /\ Ready(doneCh)
    /\ doneCh' = Taken(doneCh)
    /\ g' = [g EXCEPT !.pc = "code", !.err = IF doneCh.val = None THEN "nil" ELSE doneCh.val]
    /\ UNCHANGED <<kind, net, client, entry, h, mon, fwd, logOpen, sclose, proc, code, killed, exitCh>>

CondaCode ==
    /\ g.pc = "code" /\ Ready(exitCh)
    /\ exitCh' = Taken(exitCh)
    /\ g' = [g EXCEPT !.pc = "forward", !.code = IF exitCh.val = None THEN 0 ELSE exitCh.val]
    /\ UNCHANGED <<kind, net, client, entry, h, mon, fwd, logOpen, sclose, proc, code, killed, doneCh>>

CondaForwarded ==
    /\ g.pc = "forward" /\ OutputForwarded
    /\ g' = [g EXCEPT !.pc = "mark"]
    /\ UNCHANGED <<kind, net, client, entry, h, mon, fwd, logOpen, sclose, process>>

\* "The authoritative status update", whatever the status is by now.
CondaMark ==
    /\ g.pc = "mark"
    /\ entry' = [entry EXCEPT !.st = Outcome(g.err = "nil" /\ g.code <= 0)]
    /\ g' = [At("send") EXCEPT !.st = entry'.st]
    /\ UNCHANGED <<kind, net, client, h, mon, fwd, logOpen, sclose, process>>

CondaSend ==
    /\ g.pc = "send"
    /\ Send(Answer("status", TRUE, g.st))
    /\ g' = [g EXCEPT !.pc = "close"]
    /\ UNCHANGED <<kind, conn, toServer, client, entry, h, mon, fwd, logOpen, sclose, process>>

CondaClose ==
    /\ g.pc = "close"
    /\ logOpen' = FALSE
    /\ g' = [g EXCEPT !.pc = "end"]
    /\ UNCHANGED <<kind, net, client, entry, h, mon, fwd, sclose, process>>
-----------------------------------------------------------------------------
HandlerStep ==
    \/ HandleRun \/ HandleRunError \/ HandleStatus \/ HandleCancel
    \/ CancelKill \/ CancelMark \/ CancelEvent \/ Reply
    \/ ServerClose \/ ServerCloseMux
MonitorStep == MonitorDone \/ MonitorCode \/ MonitorMark \/ MonitorSend
CondaStep ==
    \/ CondaStart \/ CondaError \/ CondaDone \/ CondaCode
    \/ CondaForwarded \/ CondaMark \/ CondaSend \/ CondaClose
DispatchStep == Dispatch \/ Unregister \/ DispatchEnd

Next ==
    \/ Run \/ RunReturn \/ (\E c \in Asked[kind] \cap Calls : Ask(c)) \/ (\E c \in Calls : GiveUp(c))
    \/ CtxDone \/ ("unknown" \in Asked[kind] /\ Stray)
    \/ ClientClose \/ CompleteAll
    \/ Dispatch \/ Unregister \/ DispatchEnd
    \/ ConnFails
    \/ HandleRun \/ HandleRunError \/ HandleStatus \/ HandleCancel
    \/ CancelKill \/ CancelMark \/ CancelEvent \/ Reply
    \/ ServerClose \/ ServerCloseMux
    \/ Exit \/ ForwardEnd \/ LogClose
    \/ MonitorDone \/ MonitorCode \/ MonitorMark \/ MonitorSend
    \/ CondaStart \/ CondaError \/ CondaDone \/ CondaCode
    \/ CondaForwarded \/ CondaMark \/ CondaSend \/ CondaClose

Spec == Init /\ [][Next]_vars

(***************************************************************************)
(* Goroutines that can go on do.  Nothing is assumed of the process, the   *)
(* caller or the network.                                                  *)
(***************************************************************************)
FairSpec ==
    /\ Spec
    /\ WF_vars(RunReturn) /\ WF_vars(DispatchStep) /\ WF_vars(HandlerStep)
    /\ WF_vars(MonitorStep) /\ WF_vars(CondaStep) /\ WF_vars(LogClose) /\ WF_vars(ForwardEnd)
-----------------------------------------------------------------------------
\* Types of the run's record, the handle and the goroutines.
TypeOK ==
    /\ kind \in Kinds /\ conn \in {"up", "down"}
    /\ handle \in {"none", "early", "active", "gone"} /\ registered \in BOOLEAN
    /\ result \in Terminal \cup {"context", "closed", None}
    /\ call \in [Calls -> {"idle", "sent", "ok", "bad", "over"}]
    /\ entry \in Entries \cup {None}
    /\ h.pc \in {"idle", "kill", "mark", "event", "reply"}
    /\ mon.pc \in {"off", "done", "code", "mark", "send"}
    /\ g.pc \in {"off", "start", "done", "code", "forward", "mark", "send", "close", "end"}
    /\ fwd \in 0..2 /\ logOpen \in BOOLEAN /\ sclose \in {"no", "mux", "closed"}
    /\ proc \in {"none", "running", "exited"} /\ killed \in BOOLEAN

(***************************************************************************)
(* What a raw command's handle is completed with by a status event is how  *)
(* the run ended: the outcome of a process that has exited, or canceled    *)
(* when it was told to stop; never a snapshot of a run that goes on.       *)
(***************************************************************************)
ResultIsReal ==
    kind = "raw" /\ result \in Statuses =>
       \/ proc = "exited" /\ result = Outcome(code <= 0)
       \/ killed /\ result = "canceled"

(***************************************************************************)
(* When Cancel of a raw command has succeeded, its process was told to     *)
(* stop, whatever the monitor made of the status meanwhile.  And once      *)
(* Server.Close has seen the runs map, a raw command in it was told to     *)
(* stop or has exited, whatever its monitor, a Cancel and the lost         *)
(* connection were doing.                                                  *)
(***************************************************************************)
StopsRuns ==
    kind = "raw" =>
      /\ call["cancel"] = "ok" => killed
      /\ sclose # "no" /\ entry # None => killed \/ proc = "exited"

(***************************************************************************)
(* A raw run that was canceled stays canceled: the exit of the process,    *)
(* which the cancellation brings about, does not turn it into a failure.   *)
(***************************************************************************)
CanceledStays ==
    [][kind = "raw" /\ entry # None /\ entry.st = "canceled" =>
          entry' = None \/ entry'.st = "canceled"]_vars

(***************************************************************************)
(* A raw command implements RunLife: packets, goroutines and both Closes   *)
(* hidden, its record and its handle go only where a run's may.  The       *)
(* verdict of an exit is recorded once and never over a cancellation, and  *)
(* the handle is completed once, with what has happened by then, whatever  *)
(* overtakes what on the way.  Of other commands nothing is shown.         *)
(***************************************************************************)
IsRaw == kind = "raw"

L == INSTANCE RunLife WITH process <- IF IsRaw THEN proc ELSE "none",
                           exit <- IF IsRaw THEN code ELSE 0,
                           told <- IsRaw /\ killed,
                           record <- IF IsRaw /\ entry # None THEN entry.st ELSE None,
                           result <- IF IsRaw THEN result ELSE None

ImplementsRunLife == L!Spec

(***************************************************************************)
(* The log stream is closed after all output was forwarded (unless the     *)
(* subcommand could not be run): the client can read it to the end.  Only  *)
(* Server.Close, which cancels the run, closes it under the forwarders.    *)
(***************************************************************************)
LogWhole == proc # "none" /\ ~logOpen => fwd = 0 \/ sclose = "closed"

(***************************************************************************)
(* When the process of a raw command has exited and the connection holds,  *)
(* the handle is completed without polling, though the event can come      *)
(* before Run's response or during a Cancel.  (A Status in between is      *)
(* HandleAlwaysCompletes.)                                                 *)
(***************************************************************************)
HandleCompletes ==
    kind = "raw" /\ handle = "active" /\ proc = "exited" ~>
       result # None \/ conn = "down" \/ call["status"] # "idle"

(***************************************************************************)
(* The log stream of a command whose process has exited gets closed.       *)
(***************************************************************************)
LogCloses == kind # "value" /\ proc = "exited" ~> ~logOpen

(***************************************************************************)
(* server.go on the status event: "so the client can complete              *)
(* deterministically without polling".  A Status that is answered while    *)
(* the run ends takes the event for its own answer, and its own answer,    *)
(* taken from an older state, is ignored as an event.                      *)
(***************************************************************************)
HandleAlwaysCompletes ==
    kind = "raw" /\ handle = "active" /\ proc = "exited" ~> result # None \/ conn = "down"

(***************************************************************************)
(* server.go on the conda goroutine's update of the status: "we overwrite  *)
(* it here with the correct values".  Done and ExitCode have one value     *)
(* each and two readers.                                                   *)
(***************************************************************************)
CondaOutcomeCorrect ==
    g.pc \in {"send", "close", "end"} /\ proc = "exited" => g.st = Outcome(code <= 0)
=============================================================================
