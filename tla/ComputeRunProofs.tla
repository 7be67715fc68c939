-------------------------- MODULE ComputeRunProofs --------------------------
(***************************************************************************)
(* Proofs about ComputeRun, for any kinds of command and any questions the *)
(* caller asks of a run.                                                   *)
(***************************************************************************)
EXTENDS ComputeRun, TLAPS

Packets == [re : Calls, ok : BOOLEAN, st : Statuses \cup {"none"}]
Errs == {"nil", "err"}
Codes == {-1, 0, 1}
Workers == [pc : {"off", "start", "done", "code", "forward", "mark", "send", "close", "end"},
            err : Errs, code : Codes \cup {None}, st : Statuses \cup {"none"}]

(***************************************************************************)
(* The inductive invariant, in parts.                                      *)
(***************************************************************************)
ClientTypes ==
    /\ kind \in Kinds /\ conn \in {"up", "down"}
    /\ call \in [Calls -> {"idle", "sent", "ok", "bad", "over"}]
    /\ handle \in {"none", "early", "active", "gone"} /\ registered \in BOOLEAN
    /\ result \in Terminal \cup {"context", "closed", None}
    /\ toClient \in Seq(Packets)

ServerTypes ==
    /\ entry \in Entries \cup {None}
    /\ h \in [pc : {"idle", "kill", "mark", "event", "reply"}, pkt : Packets \cup {None}]
    /\ h.pc = "reply" => h.pkt \in Packets
    /\ mon \in Workers /\ mon.pc \in {"off", "done", "code", "mark", "send"}
    /\ g \in Workers /\ (g.pc = "send" => g.st \in Statuses)
    /\ fwd \in 0..2 /\ logOpen \in BOOLEAN /\ sclose \in {"no", "mux", "closed"}

ProcessTypes ==
    /\ proc \in {"none", "running", "exited"} /\ code \in Codes /\ killed \in BOOLEAN
    /\ doneCh \in [val : Errs \cup {None}, closed : BOOLEAN]
    /\ exitCh \in [val : Codes \cup {None}, closed : BOOLEAN]

\* The server has not seen the run.
Fresh ==
    /\ entry = None /\ h.pc = "idle" /\ mon = At("off") /\ g = At("off") /\ fwd = 0
    /\ proc = "none" /\ ~killed /\ doneCh = Chan /\ exitCh = Chan /\ toClient = <<>>

Questioned == {"status", "cancel", "unknown"}

\* The run is asked for once, and anything else only of a run that was
\* answered for: the server serves it with its entry in place.
Asking ==
    /\ call["run"] = "idle" => toServer = <<>> /\ handle = "none" /\ Fresh
    /\ (toServer = <<"run">> /\ Fresh) \/ toServer \in Seq(Questioned)
    /\ toServer # <<>> => toServer = <<"run">> \/ handle = "active"
    /\ handle = "active" => call["run"] = "over" /\ entry # None
    /\ call["run"] = "ok" => entry # None

\* The entry is there as long as someone uses it without looking.
Serving ==
    /\ h.pc \in {"kill", "mark", "event"} => entry # None
    /\ h.pc = "reply" /\ h.pkt.re = "run" =>
         /\ call["run"] # "ok" /\ handle # "active"
         /\ \A i \in 1..Len(toClient) : toClient[i].re # "run"
    /\ kind = "raw" => g = At("off") /\ (entry # None => entry.cancelFunc)
    /\ kind # "raw" /\ (mon.pc # "off" \/ g.pc # "off") => entry # None

\* The monitor of a raw command takes the exit code from the process.
Monitoring ==
    kind = "raw" =>
      /\ mon.pc = "done" => \/ proc = "running" /\ doneCh = Chan /\ exitCh = Chan
                            \/ proc = "exited" /\ exitCh.val = code
      /\ mon.pc = "code" => proc = "exited" /\ exitCh.val = code
      /\ mon.pc = "mark" => proc = "exited" /\ mon.code = code

\* A terminal status of a raw run says how it ended.
Real(st) ==
    \/ proc = "exited" /\ st = Outcome(code <= 0)
    \/ killed /\ st = "canceled"
Sayable == {st \in Statuses \cup {"none"} : st \in Terminal => Real(st)}

Justified(pkt) ==
    /\ pkt.re = "run" /\ pkt.ok => entry # None
    /\ kind = "raw" /\ pkt.re = "status" => pkt.st \in Sayable
    /\ kind = "raw" /\ pkt.re = "cancel" /\ pkt.ok => killed

Just == {pkt \in Packets : Justified(pkt)}

\* All that is said of a raw run is real, wherever it is.
Telling ==
    /\ h.pc = "reply" => h.pkt \in Just
    /\ \A i \in 1..Len(toClient) : toClient[i] \in Just
    /\ mon.pc = "send" => mon.st \in Statuses
    /\ kind = "raw" =>
         /\ entry # None => entry.st \in Sayable
         /\ mon.pc = "send" => mon.st \in Sayable
         /\ h.pc \in {"mark", "event"} => killed
         /\ result \in Terminal => result \in Sayable
         /\ call["cancel"] = "ok" => killed
         /\ sclose # "no" /\ entry # None => killed \/ proc = "exited"

\* Output is forwarded while the log is open, but after Server.Close.
Logging ==
    /\ proc # "none" /\ ~logOpen => fwd = 0 \/ sclose = "closed"
    /\ kind # "raw" =>
         /\ g.pc = "start" => logOpen \/ sclose = "closed"
         /\ g.pc \in {"mark", "send", "close"} => fwd = 0
         /\ g.pc \in {"off", "start"} => proc = "none" /\ fwd = 0

Inv == /\ ClientTypes /\ ServerTypes /\ ProcessTypes
       /\ Asking /\ Serving /\ Monitoring /\ Telling /\ Logging

\* The initial state satisfies the inductive invariant.
LEMMA InitInv == Init => Inv
  <1> SUFFICES ASSUME Init PROVE Inv
    OBVIOUS
  <1> USE DEF Init
  <1>1. ClientTypes
    <2>1. registered \in BOOLEAN
      BY Zenon
    <2> QED
      BY <2>1 DEF ClientTypes
  <1>2. ServerTypes
    <2>1. At("off") \in Workers
      BY DEF At, Workers, Errs
    <2>2. logOpen \in BOOLEAN
      BY Zenon
    <2>3. h \in [pc : {"idle", "kill", "mark", "event", "reply"}, pkt : Packets \cup {None}]
      OBVIOUS
    <2> QED
      BY <2>1, <2>2, <2>3 DEF ServerTypes, At
  <1>3. ProcessTypes
    BY DEF ProcessTypes, Chan, Codes
  <1>4. Asking /\ Serving
    BY DEF Asking, Fresh, Serving, Calls, At
  <1>5. Monitoring /\ Telling /\ Logging
    BY ComputeAssumption DEF Monitoring, Telling, Logging, At, Calls, Statuses
  <1> QED
    BY <1>1, <1>2, <1>3, <1>4, <1>5 DEF Inv
-----------------------------------------------------------------------------
(* The steps, by who takes them.                                           *)

CallStep ==
    \/ Run \/ RunReturn \/ (\E c \in Asked[kind] \cap Calls : Ask(c)) \/ Stray
    \/ (\E c \in Calls : GiveUp(c))
EndStep == CtxDone \/ ClientClose \/ CompleteAll \/ ConnFails
RunStep == HandleRun \/ HandleRunError \/ HandleStatus
CancelStep == HandleCancel \/ CancelKill \/ CancelMark \/ CancelEvent
AnswerStep == Reply \/ ServerClose \/ ServerCloseMux
ProcessStep == Exit \/ ForwardEnd \/ LogClose

\* Every step is one of these.
LEMMA Steps ==
    ASSUME Next
    PROVE  \/ CallStep \/ EndStep \/ DispatchStep \/ RunStep \/ CancelStep \/ AnswerStep
           \/ ProcessStep \/ MonitorStep \/ CondaStep
    BY DEF Next, CallStep, EndStep, DispatchStep, RunStep, CancelStep, AnswerStep, ProcessStep,
           MonitorStep, CondaStep

\* A packet that is sent may get lost with the connection.
LEMMA Sent ==
    ASSUME NEW pkt \in Packets, toClient \in Seq(Packets), Send(pkt)
    PROVE  /\ toClient' \in Seq(Packets)
           /\ \A i \in 1..Len(toClient') :
                 toClient'[i] = pkt \/ \E j \in 1..Len(toClient) : toClient'[i] = toClient[j]
    BY DEF Send

\* What the server's goroutines send are packets.
LEMMA SentTyped ==
    ASSUME Inv
    PROVE  /\ h.pc = "reply" => h.pkt \in Packets
           /\ Answer("status", TRUE, "canceled") \in Packets
           /\ mon.pc = "send" => Answer("status", TRUE, mon.st) \in Packets
           /\ g.pc = "send" => Answer("status", TRUE, g.st) \in Packets
    BY DEF Inv, ServerTypes, Workers, Packets, Answer, Calls, Statuses, Terminal

\* The questions that may follow Run.
LEMMA Questions == ASSUME Inv, NEW c \in Asked[kind] \cap Calls PROVE c \in {"status", "cancel"}
    BY ComputeAssumption DEF Inv, ClientTypes, Calls

\* The client's state and the packets keep their types.
LEMMA ClientTypesKept == ASSUME Inv, Next PROVE ClientTypes'
  <1> USE DEF Inv, ClientTypes
  <1>1. CASE CallStep
    <2>1. CASE Run
      BY <2>1 DEF Run, Request, RegisteredEarly, Calls
    <2>2. CASE RunReturn
      <3>1. registered' \in BOOLEAN
        BY <2>2 DEF RunReturn
      <3> QED
        BY <2>2, <3>1 DEF RunReturn, Calls, net
    <2>3. ASSUME NEW c \in Asked[kind] \cap Calls, Ask(c) PROVE ClientTypes'
      BY <2>3, Questions DEF Ask, Request, Calls
    <2>4. ASSUME NEW c \in Calls, GiveUp(c) PROVE ClientTypes'
      BY <2>4 DEF GiveUp, net
    <2>5. CASE Stray
      BY <2>5 DEF Stray, client
    <2> QED
      BY <1>1, <2>1, <2>2, <2>3, <2>4, <2>5 DEF CallStep
  <1>2. CASE EndStep
    BY <1>2 DEF EndStep, CtxDone, ClientClose, CompleteAll, ConnFails, CompleteWith, First, net, client
  <1>3. CASE DispatchStep
    <2>1. CASE Dispatch
      <3>1. Head(toClient) \in Packets /\ Tail(toClient) \in Seq(Packets)
        BY <2>1 DEF Dispatch
      <3> QED
        BY <2>1, <3>1 DEF Dispatch, CompleteWith, First, IsTerminal, Packets, Calls, net, client
    <2>2. CASE Unregister
      BY <2>2 DEF Unregister, net
    <2>3. CASE DispatchEnd
      BY <2>3 DEF DispatchEnd
    <2> QED
      BY <1>3, <2>1, <2>2, <2>3 DEF DispatchStep
  <1>4. CASE RunStep
    BY <1>4 DEF RunStep, HandleRun, HandleRunError, HandleStatus, client
  <1>5. CASE CancelStep
    <2>1. CASE CancelEvent
      BY <2>1, Sent, SentTyped DEF CancelEvent, client
    <2>2. CASE HandleCancel \/ CancelKill \/ CancelMark
      BY <2>2 DEF HandleCancel, CancelKill, CancelMark, net, client
    <2> QED
      BY <1>5, <2>1, <2>2 DEF CancelStep
  <1>6. CASE AnswerStep
    <2>1. CASE Reply
      BY <2>1, Sent, SentTyped DEF Reply, client
    <2>2. CASE ServerClose
      BY <2>2, Sent, SentTyped DEF ServerClose, client
    <2>3. CASE ServerCloseMux
      BY <2>3 DEF ServerCloseMux, client
    <2> QED
      BY <1>6, <2>1, <2>2, <2>3 DEF AnswerStep
  <1>7. CASE ProcessStep
    BY <1>7 DEF ProcessStep, Exit, ForwardEnd, LogClose, net, client
  <1>8. CASE MonitorStep
    <2>1. CASE MonitorSend
      BY <2>1, Sent, SentTyped DEF MonitorSend, client
    <2>2. CASE MonitorDone \/ MonitorCode \/ MonitorMark
      BY <2>2 DEF MonitorDone, MonitorCode, MonitorMark, net, client
    <2> QED
      BY <1>8, <2>1, <2>2 DEF MonitorStep
  <1>9. CASE CondaStep
    <2>1. CASE CondaSend
      BY <2>1, Sent, SentTyped DEF CondaSend, client
    <2>2. CASE CondaStart \/ CondaError \/ CondaDone \/ CondaCode \/ CondaForwarded \/ CondaMark \/ CondaClose
      BY <2>2 DEF CondaStart, CondaError, CondaDone, CondaCode, CondaForwarded, CondaMark, CondaClose,
                  net, client
    <2> QED
      BY <1>9, <2>1, <2>2 DEF CondaStep
  <1> QED
    BY <1>1, <1>2, <1>3, <1>4, <1>5, <1>6, <1>7, <1>8, <1>9, Steps

\* Whoever changes the entry finds it there.
LEMMA EntryThere ==
    ASSUME Inv
    PROVE  /\ Handling("status") \/ Handling("cancel") => entry \in Entries
           /\ h.pc \in {"kill", "mark", "event"} => entry \in Entries
           /\ g.pc # "off" => entry \in Entries
           /\ mon.pc = "mark" => entry \in Entries \/ entry = None
    BY DEF Inv, ServerTypes, Asking, Serving, Handling, At

\* The server's state keeps its types.
LEMMA ServerTypesKept == ASSUME Inv, Next PROVE ServerTypes'
  <1> USE DEF Inv, ServerTypes
  <1>1. CASE CallStep \/ EndStep
    BY <1>1 DEF CallStep, Run, RunReturn, Ask, Stray, GiveUp, EndStep, CtxDone, ClientClose, CompleteAll,
                ConnFails, server
  <1>2. CASE DispatchStep
    BY <1>2 DEF DispatchStep, Dispatch, Unregister, DispatchEnd, server
  <1>3. CASE RunStep
    <2>1. CASE HandleRun
      BY <2>1 DEF HandleRun, Then, Start, Answer, At, Entries, Statuses, Packets, Calls, Workers, Errs
    <2>2. CASE HandleRunError
      BY <2>2 DEF HandleRunError, Then, Answer, Packets, Calls
    <2>3. CASE HandleStatus
      BY <2>3, EntryThere DEF HandleStatus, Then, Answer, Entries, Packets, Calls
    <2> QED
      BY <1>3, <2>1, <2>2, <2>3 DEF RunStep
  <1>4. CASE CancelStep
    <2>1. CASE HandleCancel \/ CancelEvent
      <3>1. Answer("cancel", TRUE, "none") \in Packets /\ Answer("cancel", FALSE, "none") \in Packets
        BY DEF Answer, Packets, Calls
      <3>2. \/ Then("kill", None) \/ \E pkt \in Packets : Then("reply", pkt)
        BY <2>1, <3>1 DEF HandleCancel, CancelEvent
      <3>3. UNCHANGED <<entry, mon, g, fwd, logOpen, sclose>>
        BY <2>1 DEF HandleCancel, CancelEvent
      <3> QED
        BY <3>2, <3>3 DEF Then
    <2>2. CASE CancelKill
      BY <2>2 DEF CancelKill, Then
    <2>3. CASE CancelMark
      BY <2>3, EntryThere DEF CancelMark, Then, Entries, Statuses, Terminal
    <2> QED
      BY <1>4, <2>1, <2>2, <2>3 DEF CancelStep
  <1>5. CASE AnswerStep
    <2>1. CASE Reply
      BY <2>1 DEF Reply, Then
    <2>2. CASE ServerClose
      BY <2>2 DEF ServerClose, Entries, Statuses, Terminal
    <2>3. CASE ServerCloseMux
      <3>1. logOpen' \in BOOLEAN
        BY <2>3, Zenon DEF ServerCloseMux
      <3> QED
        BY <2>3, <3>1 DEF ServerCloseMux
    <2> QED
      BY <1>5, <2>1, <2>2, <2>3 DEF AnswerStep
  <1>6. CASE ProcessStep
    <2>1. CASE Exit
      BY <2>1 DEF Exit, server
    <2>2. CASE ForwardEnd
      BY <2>2 DEF ForwardEnd
    <2>3. CASE LogClose
      BY <2>3 DEF LogClose
    <2> QED
      BY <1>6, <2>1, <2>2, <2>3 DEF ProcessStep
  <1>7. CASE MonitorStep
    <2>1. CASE MonitorDone
      BY <2>1 DEF MonitorDone, Workers
    <2>2. CASE MonitorCode
      <3>1. exitCh.val \in Codes \cup {None}
        BY DEF ProcessTypes
      <3>2. PICK c \in Codes \cup {None} : mon' = [mon EXCEPT !.pc = "mark", !.code = c]
        BY <2>2, <3>1, Zenon DEF MonitorCode
      <3>3. mon' \in Workers /\ mon'.pc = "mark"
        BY <3>2 DEF Workers
      <3>4. UNCHANGED <<entry, h, g, fwd, logOpen, sclose>>
        BY <2>2 DEF MonitorCode
      <3> QED
        BY <3>3, <3>4
    <2>3. CASE MonitorMark
      BY <2>3 DEF MonitorMark, At, Outcome, Entries, Statuses, Terminal, Workers, Errs
    <2>4. CASE MonitorSend
      BY <2>4 DEF MonitorSend, At, Workers, Errs
    <2> QED
      BY <1>7, <2>1, <2>2, <2>3, <2>4 DEF MonitorStep
  <1>8. CASE CondaStep
    <2>1. CASE CondaStart
      <3>1. entry' \in Entries
        BY <2>1, EntryThere, Zenon DEF CondaStart, Entries
      <3>2. At("done") \in Workers
        BY DEF At, Workers, Errs
      <3> QED
        BY <2>1, <3>1, <3>2 DEF CondaStart, At
    <2>2. CASE CondaError
      <3>1. g' = [pc |-> "mark", err |-> "err", code |-> 1, st |-> "none"]
        BY <2>2 DEF CondaError, At
      <3>2. g' \in Workers
        BY <3>1 DEF Workers, Errs, Codes
      <3>3. logOpen' \in BOOLEAN
        BY <2>2, Zenon DEF CondaError
      <3>4. UNCHANGED <<entry, h, mon, fwd, sclose>>
        BY <2>2 DEF CondaError
      <3> QED
        BY <3>1, <3>2, <3>3, <3>4
    <2>3. CASE CondaDone
      <3>1. (IF doneCh.val = None THEN "nil" ELSE doneCh.val) \in Errs
        BY DEF ProcessTypes, Errs
      <3>2. PICK e \in Errs : g' = [g EXCEPT !.pc = "code", !.err = e]
        BY <2>3, <3>1, Zenon DEF CondaDone
      <3>3. g' \in Workers /\ g'.pc = "code"
        BY <3>2 DEF Workers
      <3>4. UNCHANGED <<entry, h, mon, fwd, logOpen, sclose>>
        BY <2>3 DEF CondaDone
      <3> QED
        BY <3>3, <3>4
    <2>4. CASE CondaCode
      <3>1. (IF exitCh.val = None THEN 0 ELSE exitCh.val) \in Codes
        BY DEF ProcessTypes, Codes
      <3>2. PICK c \in Codes : g' = [g EXCEPT !.pc = "forward", !.code = c]
        BY <2>4, <3>1, Zenon DEF CondaCode
      <3>3. g' \in Workers /\ g'.pc = "forward"
        BY <3>2 DEF Workers
      <3>4. UNCHANGED <<entry, h, mon, fwd, logOpen, sclose>>
        BY <2>4 DEF CondaCode
      <3> QED
        BY <3>3, <3>4
    <2>5. CASE CondaForwarded
      BY <2>5 DEF CondaForwarded, Workers
    <2>6. CASE CondaMark
      BY <2>6, EntryThere DEF CondaMark, At, Outcome, Entries, Statuses, Terminal, Workers, Errs
    <2>7. CASE CondaSend \/ CondaClose
      BY <2>7 DEF CondaSend, CondaClose, Workers
    <2> QED
      BY <1>8, <2>1, <2>2, <2>3, <2>4, <2>5, <2>6, <2>7 DEF CondaStep
  <1> QED
    BY <1>1, <1>2, <1>3, <1>4, <1>5, <1>6, <1>7, <1>8, Steps

\* The process and its channels keep their types.
LEMMA ProcessTypesKept == ASSUME Inv, Next PROVE ProcessTypes'
  <1> USE DEF Inv, ProcessTypes
  <1>1. CASE CallStep \/ EndStep \/ DispatchStep \/ CondaStep
    BY <1>1 DEF CallStep, Run, RunReturn, Ask, Stray, GiveUp, EndStep, CtxDone, ClientClose, CompleteAll,
                ConnFails, DispatchStep, Dispatch, Unregister, DispatchEnd, CondaStep, CondaStart,
                CondaError, CondaDone, CondaCode, CondaForwarded, CondaMark, CondaSend, CondaClose,
                process, Taken, Chan, Errs, Codes
  <1>2. CASE RunStep \/ CancelStep \/ AnswerStep
    BY <1>2, EntryThere DEF RunStep, HandleRun, HandleRunError, HandleStatus, CancelStep, HandleCancel,
                CancelKill, CancelMark, CancelEvent, AnswerStep, Reply, ServerClose, ServerCloseMux, CancelFunc,
                ServerTypes, Entries, process
  <1>3. CASE Exit
    BY <1>3 DEF Exit, ChansClosed, Errs, Codes
  <1>4. CASE ForwardEnd \/ LogClose \/ MonitorStep
    BY <1>4 DEF ForwardEnd, LogClose, MonitorStep, MonitorDone, MonitorCode, MonitorMark, MonitorSend,
                Taken, process
  <1> QED
    BY <1>1, <1>2, <1>3, <1>4, Steps DEF ProcessStep

\* The first request is Run, and there is nothing behind it.
LEMMA FirstIsRun ==
    ASSUME Inv, Handling("run")
    PROVE  toServer = <<"run">> /\ Fresh /\ Tail(toServer) = <<>>
  <1>1. ASSUME toServer \in Seq(Questioned) PROVE FALSE
    <2>1. Head(toServer) \in Questioned
      BY <1>1 DEF Handling
    <2> QED
      BY <2>1 DEF Handling, Questioned
  <1>2. toServer = <<"run">> /\ Fresh
    BY <1>1 DEF Inv, Asking
  <1> QED
    BY <1>2

\* A server that has not seen the run does nothing but take it.
LEMMA FreshStays == ASSUME Inv, Next, Fresh PROVE Fresh' \/ Handling("run")
  <1> USE DEF Fresh
  <1>1. CASE CallStep \/ EndStep
    BY <1>1 DEF CallStep, Run, RunReturn, Ask, Stray, GiveUp, EndStep, CtxDone, ClientClose, CompleteAll,
                ConnFails, Request, server, process, net
  <1>2. CASE DispatchStep
    BY <1>2 DEF DispatchStep, Dispatch, Unregister, DispatchEnd, server, process, net
  <1>3. CASE RunStep \/ HandleCancel
    <2>1. Handling("status") \/ Handling("cancel") => FALSE
      BY EntryThere, ComputeAssumption
    <2> QED
      BY <1>3, <2>1 DEF RunStep, HandleRun, HandleRunError, HandleStatus, HandleCancel
  <1>4. CASE CancelKill \/ CancelMark \/ CancelEvent \/ AnswerStep
    BY <1>4 DEF CancelKill, CancelMark, CancelEvent, AnswerStep, Reply, ServerClose, ServerCloseMux, process
  <1>5. CASE ProcessStep \/ MonitorStep \/ CondaStep
    BY <1>5 DEF ProcessStep, Exit, ForwardEnd, LogClose, MonitorStep, MonitorDone, MonitorCode,
                MonitorMark, MonitorSend, CondaStep, CondaStart, CondaError, CondaDone, CondaCode,
                CondaForwarded, CondaMark, CondaSend, CondaClose, At, net, process
  <1> QED
    BY <1>1, <1>2, <1>3, <1>4, <1>5, Steps DEF CancelStep

\* The answer of Run that cannot be sent: the run is forgotten.
Forgets == h.pc = "reply" /\ conn = "down" /\ h.pkt.re = "run" /\ kind = "raw"

\* Only then does the entry go.
LEMMA EntryStays ==
    ASSUME Inv, Next, entry # None
    PROVE  (entry' \in Entries /\ (entry.cancelFunc => entry'.cancelFunc)) \/ (Reply /\ Forgets)
  <1>0. entry \in Entries
    BY DEF Inv, ServerTypes
  <1>1. CASE CallStep \/ EndStep \/ DispatchStep
    BY <1>0, <1>1 DEF CallStep, Run, RunReturn, Ask, Stray, GiveUp, EndStep, CtxDone, ClientClose, CompleteAll,
                ConnFails, DispatchStep, Dispatch, Unregister, DispatchEnd, server
  <1>2. CASE RunStep \/ HandleCancel \/ CancelKill \/ CancelEvent
    BY <1>0, <1>2, FirstIsRun DEF RunStep, HandleRun, HandleRunError, HandleStatus, HandleCancel, CancelKill,
                CancelEvent, Fresh
  <1>3. CASE CancelMark
    BY <1>0, <1>3 DEF CancelMark, Entries, Statuses, Terminal
  <1>4. CASE Reply
    BY <1>0, <1>4 DEF Reply, Forgets
  <1>5. CASE ServerClose \/ ServerCloseMux
    BY <1>0, <1>5 DEF ServerClose, ServerCloseMux, Entries, Statuses, Terminal
  <1>6. CASE ProcessStep \/ MonitorDone \/ MonitorCode \/ MonitorSend
    BY <1>0, <1>6 DEF ProcessStep, Exit, ForwardEnd, LogClose, MonitorDone, MonitorCode, MonitorSend, server
  <1>7. CASE MonitorMark
    BY <1>0, <1>7 DEF MonitorMark, Outcome, Entries, Statuses, Terminal
  <1>8. CASE CondaStart
    <2>1. entry' = [entry EXCEPT !.cancelFunc = TRUE]
      BY <1>8 DEF CondaStart
    <2>2. entry' = [st |-> entry.st, cancelFunc |-> TRUE]
      BY <1>0, <2>1, Zenon DEF Entries
    <2> QED
      BY <1>0, <2>2, Zenon DEF Entries
  <1>9. CASE CondaMark
    BY <1>0, <1>9 DEF CondaMark, Outcome, Entries, Statuses, Terminal
  <1>10. CASE CondaError \/ CondaDone \/ CondaCode \/ CondaForwarded \/ CondaSend \/ CondaClose
    BY <1>0, <1>10 DEF CondaError, CondaDone, CondaCode, CondaForwarded, CondaSend, CondaClose
  <1> QED
    BY <1>1, <1>2, <1>3, <1>4, <1>5, <1>6, <1>7, <1>8, <1>9, <1>10, Steps
    DEF CancelStep, AnswerStep, MonitorStep, CondaStep

\* The kind of command does not change.
LEMMA KindStays == ASSUME Next PROVE kind' = kind
    BY Steps DEF CallStep, Run, RunReturn, Ask, Stray, GiveUp, EndStep, CtxDone, ClientClose, CompleteAll,
                ConnFails, DispatchStep, Dispatch, Unregister, DispatchEnd, RunStep, HandleRun,
                HandleRunError, HandleStatus, CancelStep, HandleCancel, CancelKill, CancelMark, CancelEvent,
                AnswerStep, Reply, ServerClose, ServerCloseMux, ProcessStep, Exit, ForwardEnd,
                LogClose, MonitorStep, MonitorDone, MonitorCode, MonitorMark, MonitorSend, CondaStep,
                CondaStart, CondaError, CondaDone, CondaCode, CondaForwarded, CondaMark, CondaSend,
                CondaClose

\* Run is asked for once, and the rest after it was answered for.
LEMMA AskingKept == ASSUME Inv, Next PROVE Asking'
  <1> USE DEF Asking
  <1>0. Asking /\ entry' \in Entries \cup {None}
    BY ServerTypesKept DEF Inv, ServerTypes
  <1>1. entry # None => entry' # None \/ Forgets
    BY EntryStays, ComputeAssumption
  <1>2. Forgets => call["run"] # "ok" /\ handle # "active"
    BY DEF Inv, Serving, Forgets
  <1>3. call \in [Calls -> {"idle", "sent", "ok", "bad", "over"}]
    BY DEF Inv, ClientTypes
  <1>4. CASE Run
    <2>1. Fresh'
      BY <1>0, <1>4, FreshStays DEF Run, Handling
    <2>2. toServer' = <<"run">> \/ toServer' = <<>>
      BY <1>0, <1>4 DEF Run, Request
    <2>3. call'["run"] \in {"sent", "bad"} /\ handle' = "early"
      BY <1>3, <1>4 DEF Run, Request, Calls
    <2> QED
      <3>1. CASE toServer' = <<"run">>
        BY <2>1, <2>3, <3>1
      <3>2. CASE toServer' = <<>>
        BY <2>1, <2>3, <3>2
      <3> QED
        BY <2>2, <3>1, <3>2
  <1>5. CASE RunReturn
    <2>1. Fresh => Fresh'
      BY <1>5 DEF RunReturn, Fresh, net, server, process
    <2>2. call'["run"] = "over" /\ call["run"] \in {"ok", "bad"} /\ (handle' = "active" => call["run"] = "ok")
      BY <1>3, <1>5 DEF RunReturn, Calls
    <2>3. UNCHANGED <<toServer, entry>>
      BY <1>5 DEF RunReturn, net, server
    <2>4. handle # "active"
      BY <1>0, <2>2
    <2> QED
      BY <1>0, <2>1, <2>2, <2>3, <2>4
  <1>6. ASSUME NEW c \in Asked[kind] \cap Calls, Ask(c) PROVE Asking'
    <2>1. c \in {"status", "cancel"} /\ handle = "active" /\ entry # None
      BY <1>0, <1>6, Questions DEF Ask
    <2>2. toServer \in Seq(Questioned)
      BY <1>0, <2>1 DEF Fresh
    <2>3. toServer' = Append(toServer, c) \/ toServer' = toServer
      BY <1>6 DEF Ask, Request
    <2>4. toServer' \in Seq(Questioned)
      BY <2>1, <2>2, <2>3 DEF Questioned
    <2>5. call'["run"] = call["run"] /\ UNCHANGED <<handle, entry>>
      BY <1>3, <1>6, <2>1 DEF Ask, Request, Calls, server
    <2> QED
      BY <1>0, <2>1, <2>4, <2>5
  <1>7. ASSUME NEW c \in Calls, GiveUp(c) PROVE Asking'
    <2>1. call'["run"] = call["run"] \/ (call'["run"] = "bad" /\ call["run"] = "sent")
      BY <1>3, <1>7 DEF GiveUp, Calls
    <2>2. UNCHANGED <<handle, entry, toServer>> /\ (Fresh => Fresh')
      BY <1>7 DEF GiveUp, Fresh, net, server, process
    <2> QED
      BY <1>0, <2>1, <2>2
  <1>8. CASE EndStep
    <2>1. UNCHANGED <<toServer, call, handle, entry>> /\ (Fresh => Fresh')
      BY <1>8 DEF EndStep, CtxDone, ClientClose, CompleteAll, ConnFails, client, net, server, process, Fresh
    <2> QED
      BY <1>0, <2>1
  <1>9. CASE Dispatch
    <2>1. UNCHANGED <<toServer, handle, entry>> /\ toClient # <<>>
      BY <1>9 DEF Dispatch, server
    <2>2. PICK pkt \in Packets : pkt = Head(toClient) /\ Justified(pkt)
      BY <2>1 DEF Inv, ClientTypes, Telling, Just
    <2>3. \/ call' = call
          \/ call[pkt.re] = "sent" /\ call' = [call EXCEPT ![pkt.re] = IF pkt.ok THEN "ok" ELSE "bad"]
      BY <1>9, <2>2 DEF Dispatch
    <2>4. \/ call'["run"] = call["run"]
          \/ call["run"] = "sent" /\ call'["run"] \in {"ok", "bad"} /\ (call'["run"] = "ok" => pkt.ok /\ pkt.re = "run")
      BY <1>3, <2>3 DEF Calls, Packets
    <2>5. ~Fresh
      BY <2>1 DEF Fresh
    <2> QED
      BY <1>0, <2>1, <2>2, <2>4, <2>5 DEF Justified
  <1>10. CASE Unregister \/ DispatchEnd
    <2>1. UNCHANGED <<toServer, handle, entry>> /\ (Fresh => Fresh')
      BY <1>10 DEF Unregister, DispatchEnd, Fresh, net, server, process
    <2>2. call'["run"] = call["run"] \/ (call'["run"] = "bad" /\ call["run"] = "sent")
      BY <1>10 DEF Unregister, DispatchEnd, Calls
    <2> QED
      BY <1>0, <2>1, <2>2
  <1>11. CASE HandleRun \/ HandleRunError
    <2>1. Handling("run") /\ toServer' = Tail(toServer) /\ UNCHANGED <<call, handle>>
      BY <1>11 DEF HandleRun, HandleRunError, client
    <2>2. toServer = <<"run">> /\ Fresh /\ toServer' = <<>>
      BY <2>1, FirstIsRun
    <2>3. call["run"] \notin {"idle", "ok"} /\ handle # "active"
      BY <1>0, <2>2 DEF Fresh
    <2>4. toServer' \in Seq(Questioned)
      BY <2>2
    <2> QED
      BY <2>1, <2>2, <2>3, <2>4
  <1>12. CASE HandleStatus \/ HandleCancel
    <2>1. Handling("status") \/ Handling("cancel")
      BY <1>12 DEF HandleStatus, HandleCancel
    <2>2. toServer' = Tail(toServer) /\ UNCHANGED <<call, handle, entry>>
      BY <1>12 DEF HandleStatus, HandleCancel, client
    <2>3. toServer # <<"run">> /\ handle = "active"
      BY <1>0, <2>1 DEF Handling
    <2>4. toServer' \in Seq(Questioned)
      BY <1>0, <2>1, <2>2, <2>3 DEF Handling
    <2> QED
      BY <1>0, <2>2, <2>3, <2>4
  <1>13. CASE CancelKill \/ CancelMark \/ CancelEvent \/ Reply \/ ProcessStep \/ MonitorStep \/ CondaStep
    <2>1. UNCHANGED <<toServer, call, handle>>
      BY <1>13 DEF CancelKill, CancelMark, CancelEvent, Reply, ProcessStep, Exit, ForwardEnd, LogClose,
                MonitorStep, MonitorDone, MonitorCode, MonitorMark, MonitorSend, CondaStep, CondaStart,
                CondaError, CondaDone, CondaCode, CondaForwarded, CondaMark, CondaSend, CondaClose,
                client, net
    <2>2. ASSUME Fresh PROVE Fresh'
      BY <1>13, <2>2 DEF Fresh, CancelKill, CancelMark, CancelEvent, Reply, ProcessStep, Exit, ForwardEnd,
                LogClose, MonitorStep, MonitorDone, MonitorCode, MonitorMark, MonitorSend, CondaStep,
                CondaStart, CondaError, CondaDone, CondaCode, CondaForwarded, CondaMark, CondaSend,
                CondaClose, At, net, process
    <2> QED
      BY <1>0, <1>1, <1>2, <2>1, <2>2
  <1>14. CASE ServerClose
    <2>1. toServer' = <<>> /\ UNCHANGED <<call, handle>> /\ h.pc = "idle" /\ (Fresh => Fresh')
      BY <1>14 DEF ServerClose, ServeEnds, client, Fresh
    <2> QED
      BY <1>0, <1>1, <2>1 DEF Forgets
  <1>15. CASE ServerCloseMux
    <2>1. UNCHANGED <<toServer, call, handle, entry>> /\ (Fresh => Fresh')
      BY <1>15 DEF ServerCloseMux, client, process, Fresh
    <2> QED
      BY <1>0, <2>1
  <1>16. CASE Stray
    <2>1. handle = "active" /\ entry # None /\ toServer \in Seq(Questioned)
      BY <1>0, <1>16 DEF Stray, Fresh
    <2>2. toServer' \in Seq(Questioned)
      BY <1>16, <2>1 DEF Stray, Questioned
    <2>3. UNCHANGED <<call, handle, entry>>
      BY <1>16 DEF Stray, client, server
    <2> QED
      BY <1>0, <2>1, <2>2, <2>3
  <1> QED
    BY <1>4, <1>5, <1>6, <1>7, <1>8, <1>9, <1>10, <1>11, <1>12, <1>13, <1>14, <1>15, <1>16, Steps
    DEF CallStep, DispatchStep, RunStep, CancelStep, AnswerStep

\* No answer of Run is on its way while the handler has yet to send it.
Unanswered ==
    /\ call["run"] # "ok" /\ handle # "active"
    /\ \A i \in 1..Len(toClient) : toClient[i].re # "run"

\* It stays so in all steps but that of the handler.
LEMMA UnansweredStays ==
    ASSUME Inv, Next, h.pc = "reply", Unanswered, ~Reply
    PROVE  Unanswered'
  <1> USE DEF Unanswered
  <1>0. call \in [Calls -> {"idle", "sent", "ok", "bad", "over"}] /\ toClient \in Seq(Packets)
    BY DEF Inv, ClientTypes
  <1>1. CASE CallStep
    <2>1. UNCHANGED toClient
      BY <1>1 DEF CallStep, Run, RunReturn, Ask, Stray, GiveUp, net
    <2>2. handle' # "active"
      BY <1>1 DEF CallStep, Run, RunReturn, Ask, Stray, GiveUp
    <2>3. call'["run"] # "ok"
      BY <1>0, <1>1, Questions DEF CallStep, Run, RunReturn, Ask, Stray, GiveUp, Request, Calls
    <2> QED
      BY <2>1, <2>2, <2>3
  <1>2. CASE EndStep
    BY <1>2 DEF EndStep, CtxDone, ClientClose, CompleteAll, ConnFails, net, client
  <1>3. CASE Dispatch
    <2>1. Head(toClient) = toClient[1] /\ Len(toClient) > 0 /\ toClient' = Tail(toClient) /\ handle' = handle
      BY <1>0, <1>3 DEF Dispatch
    <2>2. \A i \in 1..Len(toClient') : toClient'[i] = toClient[i + 1] /\ i + 1 \in 1..Len(toClient)
      BY <1>0, <2>1
    <2>3. Head(toClient).re # "run"
      BY <2>1
    <2>4. call'["run"] = call["run"]
      BY <1>0, <1>3, <2>3 DEF Dispatch, Calls
    <2> QED
      BY <2>1, <2>2, <2>4
  <1>4. CASE Unregister \/ DispatchEnd
    BY <1>0, <1>4 DEF Unregister, DispatchEnd, net, Calls
  <1>5. CASE RunStep \/ CancelStep \/ ServerClose
    BY <1>5 DEF RunStep, HandleRun, HandleRunError, HandleStatus, CancelStep, HandleCancel, CancelKill,
                CancelMark, CancelEvent, ServerClose, ServeEnds, Handling
  <1>9. CASE ServerCloseMux
    BY <1>9 DEF ServerCloseMux, client
  <1>6. CASE ProcessStep \/ MonitorDone \/ MonitorCode \/ MonitorMark
    BY <1>6 DEF ProcessStep, Exit, ForwardEnd, LogClose, MonitorDone, MonitorCode, MonitorMark, net, client
  <1>7. CASE CondaStart \/ CondaError \/ CondaDone \/ CondaCode \/ CondaForwarded \/ CondaMark \/ CondaClose
    BY <1>7 DEF CondaStart, CondaError, CondaDone, CondaCode, CondaForwarded, CondaMark, CondaClose, net,
                client
  <1>8. CASE MonitorSend \/ CondaSend
    <2>1. PICK st \in Statuses \cup {"none"} : Send(Answer("status", TRUE, st)) /\ UNCHANGED client
      BY <1>8 DEF MonitorSend, CondaSend, Inv, ServerTypes, Workers
    <2>2. Answer("status", TRUE, st) \in Packets /\ Answer("status", TRUE, st).re = "status"
      BY DEF Answer, Packets, Calls
    <2> QED
      BY <1>0, <2>1, <2>2, Sent DEF client
  <1> QED
    BY <1>1, <1>2, <1>3, <1>4, <1>5, <1>6, <1>7, <1>8, <1>9, Steps
    DEF DispatchStep, AnswerStep, MonitorStep, CondaStep

\* A raw command has no conda goroutine.
LEMMA RawHasNoConda == ASSUME Inv, kind = "raw" PROVE g.pc = "off" /\ ~CondaStep
  <1>1. g.pc = "off"
    BY DEF Inv, Serving, At
  <1>2. CondaStep => g.pc # "off"
    BY DEF CondaStep, CondaStart, CondaError, CondaDone, CondaCode, CondaForwarded, CondaMark, CondaSend,
           CondaClose
  <1> QED
    BY <1>1, <1>2

\* The entry is there for those who use it.
LEMMA ServingKept == ASSUME Inv, Next PROVE Serving'
  <1> USE DEF Serving
  <1>0. Serving /\ ServerTypes
    BY DEF Inv
  <1>1. entry # None => entry' # None \/ (Reply /\ Forgets)
    BY EntryStays, ComputeAssumption
  <1>2. h'.pc \in {"kill", "mark", "event"} => entry' # None
    <2>1. CASE CallStep \/ EndStep \/ DispatchStep \/ ProcessStep \/ MonitorStep \/ CondaStep
      <3>1. h' = h
        BY <2>1 DEF CallStep, Run, RunReturn, Ask, Stray, GiveUp, EndStep, CtxDone, ClientClose, CompleteAll,
                ConnFails, DispatchStep, Dispatch, Unregister, DispatchEnd, ProcessStep, Exit, ForwardEnd,
                LogClose, MonitorStep, MonitorDone, MonitorCode, MonitorMark, MonitorSend, CondaStep,
                CondaStart, CondaError, CondaDone, CondaCode, CondaForwarded, CondaMark, CondaSend,
                CondaClose, server
      <3> QED
        BY <1>0, <1>1, <3>1 DEF Forgets
    <2>2. CASE RunStep \/ AnswerStep
      <3>1. RunStep => h'.pc = "reply"
        BY DEF RunStep, HandleRun, HandleRunError, HandleStatus, Then, Answer
      <3>2. AnswerStep => h'.pc = "idle" \/ (ServerCloseMux /\ h' = h)
        <4>1. Reply => h'.pc = "idle"
          BY DEF Reply, Then
        <4>2. ServerClose => h'.pc = "idle"
          BY DEF ServerClose, ServeEnds
        <4>3. ServerCloseMux => h' = h
          BY DEF ServerCloseMux
        <4> QED
          BY <4>1, <4>2, <4>3 DEF AnswerStep
      <3> QED
        BY <1>0, <1>1, <2>2, <3>1, <3>2 DEF ServerCloseMux
    <2>3. CASE HandleCancel
      BY <2>3, EntryThere, ComputeAssumption DEF HandleCancel
    <2>4. CASE CancelKill \/ CancelMark \/ CancelEvent
      BY <1>0, <1>1, <2>4 DEF CancelKill, CancelMark, CancelEvent, Forgets
    <2> QED
      BY <2>1, <2>2, <2>3, <2>4, Steps DEF CancelStep
  <1>3. h'.pc = "reply" /\ h'.pkt.re = "run" => Unanswered'
    <2>1. CASE h' = h
      BY <1>0, <2>1, UnansweredStays DEF Unanswered, Reply, Then
    <2>2. CASE HandleRun \/ HandleRunError
      <3>1. Fresh /\ call["run"] # "ok" /\ handle # "active" /\ toClient = <<>>
        BY <2>2, FirstIsRun DEF HandleRun, HandleRunError, Inv, Asking, Fresh
      <3>2. UNCHANGED <<call, handle, toClient>>
        BY <2>2 DEF HandleRun, HandleRunError, client
      <3> QED
        BY <3>1, <3>2 DEF Unanswered
    <2>3. CASE HandleStatus \/ CancelStep \/ AnswerStep
      BY <2>1, <2>3 DEF HandleStatus, CancelStep, HandleCancel, CancelKill, CancelMark, CancelEvent, AnswerStep,
                  Reply, ServerClose, ServerCloseMux, Then, Answer
    <2>4. CASE CallStep \/ EndStep \/ DispatchStep \/ ProcessStep \/ MonitorStep \/ CondaStep
      <3>1. h' = h
        BY <2>4 DEF CallStep, Run, RunReturn, Ask, Stray, GiveUp, EndStep, CtxDone, ClientClose, CompleteAll,
                ConnFails, DispatchStep, Dispatch, Unregister, DispatchEnd, ProcessStep, Exit, ForwardEnd,
                LogClose, MonitorStep, MonitorDone, MonitorCode, MonitorMark, MonitorSend, CondaStep,
                CondaStart, CondaError, CondaDone, CondaCode, CondaForwarded, CondaMark, CondaSend,
                CondaClose, server
      <3> QED
        BY <2>1, <3>1
    <2> QED
      BY <2>2, <2>3, <2>4, Steps DEF RunStep
  <1>4. kind' = kind
    BY KindStays
  <1>5. kind = "raw" => g' = At("off")
    <2>1. kind = "raw" => ~CondaStep
      BY RawHasNoConda
    <2>2. kind = "raw" /\ ~CondaStep => g' = g
      BY Steps DEF CallStep, Run, RunReturn, Ask, Stray, GiveUp, EndStep, CtxDone, ClientClose, CompleteAll,
                ConnFails, DispatchStep, Dispatch, Unregister, DispatchEnd, RunStep, HandleRun,
                HandleRunError, HandleStatus, CancelStep, HandleCancel, CancelKill, CancelMark, CancelEvent,
                AnswerStep, Reply, ServerClose, ServerCloseMux, ProcessStep, Exit, ForwardEnd, LogClose, MonitorStep,
                MonitorDone, MonitorCode, MonitorMark, MonitorSend, server
    <2> QED
      BY <1>0, <2>1, <2>2
  <1>6. kind = "raw" /\ entry' # None => entry'.cancelFunc
    <2>1. CASE entry # None
      BY <1>0, <2>1, EntryStays DEF Reply, Forgets
    <2>2. CASE entry = None
      <3>1. CASE HandleRun
        BY <3>1 DEF HandleRun, Start
      <3>2. CASE ~HandleRun /\ kind = "raw"
        <4>1. h.pc \notin {"kill", "mark", "event"} /\ g.pc = "off"
          BY <1>0, <2>2, <3>2 DEF At
        <4>2. entry' = None
          BY <2>2, <3>2, <4>1, Steps DEF CallStep, Run, RunReturn, Ask, Stray, GiveUp, EndStep, CtxDone, ClientClose,
                CompleteAll, ConnFails, DispatchStep, Dispatch, Unregister, DispatchEnd, RunStep,
                HandleRunError, HandleStatus, CancelStep, HandleCancel, CancelKill, CancelMark, CancelEvent,
                AnswerStep, Reply, ServerClose, ServerCloseMux, ProcessStep, Exit, ForwardEnd, LogClose, MonitorStep,
                MonitorDone, MonitorCode, MonitorMark, MonitorSend, CondaStep, CondaStart, CondaError,
                CondaDone, CondaCode, CondaForwarded, CondaMark, CondaSend, CondaClose, server
        <4> QED
          BY <4>2
      <3> QED
        BY <3>1, <3>2
    <2> QED
      BY <2>1, <2>2
  <1>7. kind # "raw" /\ (mon'.pc # "off" \/ g'.pc # "off") => entry' # None
    <2>1. CASE HandleRun
      <3>1. Start # None
        <4>1. Start \in Entries
          BY DEF Start, Entries, Statuses
        <4> QED
          BY <4>1, ComputeAssumption
      <3> QED
        BY <2>1, <3>1 DEF HandleRun
    <2>2. CASE ~HandleRun
      <3>1. mon'.pc # "off" \/ g'.pc # "off" => mon.pc # "off" \/ g.pc # "off"
        BY <2>2, Steps DEF CallStep, Run, RunReturn, Ask, Stray, GiveUp, EndStep, CtxDone, ClientClose,
                CompleteAll, ConnFails, DispatchStep, Dispatch, Unregister, DispatchEnd, RunStep,
                HandleRunError, HandleStatus, CancelStep, HandleCancel, CancelKill, CancelMark, CancelEvent,
                AnswerStep, Reply, ServerClose, ServerCloseMux, ProcessStep, Exit, ForwardEnd, LogClose, MonitorStep,
                MonitorDone, MonitorCode, MonitorMark, MonitorSend, CondaStep, CondaStart, CondaError,
                CondaDone, CondaCode, CondaForwarded, CondaMark, CondaSend, CondaClose, server, At
      <3> QED
        BY <1>0, <1>1, <3>1 DEF Forgets
    <2> QED
      BY <2>1, <2>2
  <1> QED
    BY <1>2, <1>3, <1>4, <1>5, <1>6, <1>7 DEF Unanswered

\* MonitorMark in one equation per outcome.
LEMMA MonitorMarks ==
    ASSUME MonitorMark
    PROVE  \/ mon' = At("off") /\ entry = None /\ entry' = entry
           \/ /\ mon' = [pc |-> "send", err |-> "nil", code |-> None, st |-> entry'.st]
              /\ entry # None
              /\ entry' = IF MonitorMayMark
                          THEN [entry EXCEPT !.st = Outcome(mon.code # None /\ mon.code <= 0)]
                          ELSE entry
  <1>1. CASE entry = None
    BY <1>1 DEF MonitorMark
  <1>2. CASE entry # None
    <2>1. mon' = [At("send") EXCEPT !.st = entry'.st]
      BY <1>2 DEF MonitorMark
    <2>2. mon' = [pc |-> "send", err |-> "nil", code |-> None, st |-> entry'.st]
      BY <2>1 DEF At
    <2> QED
      BY <1>2, <2>2 DEF MonitorMark
  <1> QED
    BY <1>1, <1>2

\* What the monitor of a raw command has or will get is the exit code.
LEMMA MonitoringKept == ASSUME Inv, Next PROVE Monitoring'
  <1> SUFFICES ASSUME kind = "raw" PROVE Monitoring'
    BY KindStays DEF Monitoring
  <1> USE DEF Monitoring
  <1>0. Monitoring /\ mon \in Workers /\ ~CondaStep
    BY RawHasNoConda DEF Inv, ServerTypes
  <1>1. CASE HandleRun
    <2>1. doneCh = Chan /\ exitCh = Chan
      BY <1>1, FirstIsRun DEF HandleRun, Fresh
    <2> QED
      BY <1>1, <2>1 DEF HandleRun, At
  <1>2. CASE Exit
    BY <1>0, <1>2 DEF Exit, server
  <1>3. CASE MonitorDone
    BY <1>0, <1>3 DEF MonitorDone, Ready, Chan, Workers
  <1>4. CASE MonitorCode
    BY <1>0, <1>4 DEF MonitorCode, Workers
  <1>5. CASE MonitorMark \/ MonitorSend
    <2>1. mon'.pc \in {"off", "send"}
      <3>1. MonitorMark => mon'.pc \in {"off", "send"}
        <4>1. MonitorMark => mon' = At("off") \/ mon'.pc = "send"
          BY MonitorMarks
        <4> QED
          BY <4>1 DEF At
      <3>2. MonitorSend => mon'.pc = "off"
        BY DEF MonitorSend, At
      <3> QED
        BY <1>5, <3>1, <3>2
    <2> QED
      BY <2>1
  <1>6. CASE UNCHANGED <<kind, mon, proc, code, doneCh, exitCh>>
    BY <1>0, <1>6
  <1> QED
    BY <1>0, <1>1, <1>2, <1>3, <1>4, <1>5, <1>6, Steps
    DEF CallStep, Run, RunReturn, Ask, Stray, GiveUp, EndStep, CtxDone, ClientClose, CompleteAll, ConnFails,
        DispatchStep, Dispatch, Unregister, DispatchEnd, RunStep, HandleRunError, HandleStatus, CancelStep,
        HandleCancel, CancelKill, CancelMark, CancelEvent, AnswerStep, Reply, ServerClose, ServerCloseMux, ProcessStep,
        ForwardEnd, LogClose, MonitorStep, server, process

\* A raw process that has exited, and a process that was told to stop, stay so.
LEMMA RealStays ==
    ASSUME Inv, Next, kind = "raw"
    PROVE  /\ killed => killed'
           /\ proc = "exited" => proc' = "exited" /\ code' = code
           /\ Sayable \subseteq Sayable'
  <1>0. ~CondaStep
    BY RawHasNoConda
  <1>1. CASE HandleRun
    BY <1>1, FirstIsRun DEF HandleRun, Fresh, Sayable, Real
  <1>2. CASE CancelKill \/ ServerClose
    BY <1>2 DEF CancelKill, ServerClose, CancelFunc, Sayable, Real
  <1>3. CASE Exit
    BY <1>3 DEF Exit, Sayable, Real
  <1>4. CASE UNCHANGED <<proc, code, killed>>
    BY <1>4 DEF Sayable, Real
  <1> QED
    BY <1>0, <1>1, <1>2, <1>3, <1>4, Steps
    DEF CallStep, Run, RunReturn, Ask, Stray, GiveUp, EndStep, CtxDone, ClientClose, CompleteAll, ConnFails,
        DispatchStep, Dispatch, Unregister, DispatchEnd, RunStep, HandleRunError, HandleStatus, CancelStep,
        HandleCancel, CancelMark, CancelEvent, AnswerStep, Reply, ServerCloseMux, ProcessStep, ForwardEnd, LogClose,
        MonitorStep, MonitorDone, MonitorCode, MonitorMark, MonitorSend, process

\* What justifies a packet lasts, but for an answer of Run that its own
\* handler is still to send.
LEMMA JustifiedStays ==
    ASSUME Inv, Next, NEW pkt \in Just, pkt.re # "run" \/ ~(Reply /\ Forgets)
    PROVE  pkt \in Just'
  <1>1. kind' = kind
    BY KindStays
  <1>2. pkt.re = "run" /\ pkt.ok => entry' # None
    BY EntryStays, ComputeAssumption DEF Just, Justified
  <1> QED
    BY <1>1, <1>2, RealStays DEF Just, Justified, Sayable

\* What the client reads next, and what remains.
LEMMA NextPacket ==
    ASSUME Inv, toClient # <<>>
    PROVE  /\ Head(toClient) \in Just
           /\ \A i \in 1..Len(Tail(toClient)) :
                 Tail(toClient)[i] = toClient[i + 1] /\ i + 1 \in 1..Len(toClient)
  <1>1. toClient \in Seq(Packets) /\ \A i \in 1..Len(toClient) : toClient[i] \in Just
    BY DEF Inv, ClientTypes, Telling
  <1>2. Head(toClient) = toClient[1] /\ 1 \in 1..Len(toClient)
    BY <1>1
  <1> QED
    BY <1>1, <1>2

\* A status of a raw run is justified if it is real.
LEMMA StatusJust ==
    ASSUME NEW st \in Statuses \cup {"none"}, kind = "raw" => st \in Sayable
    PROVE  Answer("status", TRUE, st) \in Just
    BY DEF Answer, Just, Justified, Packets, Calls

\* The packets on their way stay justified, and those sent are.
LEMMA PacketsJustified ==
    ASSUME Inv, Next
    PROVE  \A i \in 1..Len(toClient') : toClient'[i] \in Just'
  <1>0. toClient \in Seq(Packets) /\ \A i \in 1..Len(toClient) : toClient[i] \in Just
    BY DEF Inv, ClientTypes, Telling
  <1>1. \A i \in 1..Len(toClient) : toClient[i] \in Just'
    <2> SUFFICES ASSUME NEW i \in 1..Len(toClient) PROVE toClient[i] \in Just'
      OBVIOUS
    <2>1. toClient[i].re # "run" \/ ~(Reply /\ Forgets)
      BY DEF Inv, Serving, Forgets
    <2> QED
      BY <1>0, <2>1, JustifiedStays
  <1>2. CASE toClient' = toClient
    BY <1>1, <1>2
  <1>3. CASE toClient' = <<>>
    BY <1>3
  <1>4. CASE toClient # <<>> /\ toClient' = Tail(toClient)
    BY <1>1, <1>4, NextPacket
  <1>5. ASSUME NEW pkt \in Packets, Send(pkt), pkt \in Just' PROVE \A i \in 1..Len(toClient') : toClient'[i] \in Just'
    BY <1>0, <1>1, <1>5, Sent
  <1>6. ASSUME NEW pkt \in Just, Send(pkt), conn = "up" \/ ~Reply
        PROVE \A i \in 1..Len(toClient') : toClient'[i] \in Just'
    <2>1. pkt \in Just' /\ pkt \in Packets
      BY <1>6, JustifiedStays DEF Forgets, Just
    <2> QED
      BY <1>5, <1>6, <2>1
  <1>7. CASE CancelEvent
    <2>1. kind = "raw" => "canceled" \in Sayable
      BY <1>7 DEF CancelEvent, Inv, Telling, Sayable, Real, Statuses, Terminal
    <2>2. Answer("status", TRUE, "canceled") \in Just
      BY <2>1, StatusJust DEF Statuses, Terminal
    <2>3. ~Reply /\ Send(Answer("status", TRUE, "canceled"))
      BY <1>7 DEF CancelEvent, Reply
    <2> QED
      BY <1>6, <2>2, <2>3
  <1>8. CASE Reply
    <2>1. h.pkt \in Just /\ Send(h.pkt)
      BY <1>8 DEF Reply, Inv, Telling
    <2>2. conn # "up" => toClient' = toClient
      BY <1>8 DEF Reply, Send
    <2> QED
      BY <1>2, <1>6, <2>1, <2>2
  <1>11. CASE ServerClose
    <2>1. CASE Send(Answer("status", TRUE, "canceled")) /\ entry # None /\ killed' = CancelFunc
      <3>1. kind = "raw" => killed'
        BY <2>1 DEF CancelFunc, Inv, Serving
      <3>2. Answer("status", TRUE, "canceled") \in Packets
        BY SentTyped
      <3>3. Answer("status", TRUE, "canceled") \in Just'
        <4>1. kind' = kind
          BY KindStays
        <4>2. PICK pkt \in Packets : pkt = Answer("status", TRUE, "canceled")
          BY <3>2
        <4>3. pkt.re = "status" /\ pkt.st = "canceled"
          BY <4>2 DEF Answer
        <4> QED
          BY <3>1, <4>1, <4>2, <4>3 DEF Just, Justified, Sayable, Real, Statuses, Terminal
      <3> QED
        BY <1>5, <2>1, <3>2, <3>3
    <2> QED
      BY <1>2, <1>11, <2>1 DEF ServerClose
  <1>9. CASE MonitorSend
    <2>1. mon.st \in Statuses /\ (kind = "raw" => mon.st \in Sayable)
      BY <1>9 DEF MonitorSend, Inv, Telling
    <2>2. Answer("status", TRUE, mon.st) \in Just'
      <3>1. Answer("status", TRUE, mon.st).re = "status"
        BY DEF Answer
      <3> QED
        BY <2>1, <3>1, StatusJust, JustifiedStays
    <2>3. Answer("status", TRUE, mon.st) \in Packets
      BY <2>1, StatusJust DEF Just
    <2> QED
      BY <1>5, <1>9, <2>2, <2>3 DEF MonitorSend
  <1>10. CASE CondaSend
    <2>1. kind # "raw" /\ g.st \in Statuses
      BY <1>10, RawHasNoConda DEF CondaStep, CondaSend, Inv, ServerTypes
    <2>2. Answer("status", TRUE, g.st).re = "status" /\ Answer("status", TRUE, g.st) \in Just
      BY <2>1, StatusJust DEF Answer
    <2>3. Answer("status", TRUE, g.st) \in Just' /\ Answer("status", TRUE, g.st) \in Packets
      BY <2>2, JustifiedStays DEF Just
    <2> QED
      BY <1>5, <1>10, <2>3 DEF CondaSend
  <1> QED
    BY <1>2, <1>3, <1>4, <1>7, <1>8, <1>9, <1>10, <1>11, Steps
    DEF CallStep, Run, RunReturn, Ask, Stray, GiveUp, EndStep, CtxDone, ClientClose, CompleteAll, ConnFails,
        DispatchStep, Dispatch, Unregister, DispatchEnd, RunStep, HandleRun, HandleRunError, HandleStatus,
        CancelStep, HandleCancel, CancelKill, CancelMark, AnswerStep, ServerCloseMux, ProcessStep, Exit,
        ForwardEnd, LogClose, MonitorStep, MonitorDone, MonitorCode, MonitorMark, CondaStep, CondaStart,
        CondaError, CondaDone, CondaCode, CondaForwarded, CondaMark, CondaClose, net

\* The answer that the handler is about to send is justified.
LEMMA ReplyJustified == ASSUME Inv, Next PROVE h'.pc = "reply" => h'.pkt \in Just'
  <1>0. h.pc = "reply" => h.pkt \in Just
    BY DEF Inv, Telling
  <1>1. CASE h' = h
    <2>1. Reply => h'.pc # "reply"
      BY DEF Reply, Then
    <2> QED
      BY <1>0, <1>1, <2>1, JustifiedStays
  <1>2. CASE HandleRun
    <2>1. Start \in Entries
      BY DEF Start, Entries, Statuses
    <2>2. entry' # None /\ h'.pkt = [re |-> "run", ok |-> TRUE, st |-> "none"]
      BY <1>2, <2>1, ComputeAssumption DEF HandleRun, Then, Answer
    <2> QED
      BY <2>2 DEF Just, Justified, Packets, Calls
  <1>3. CASE HandleRunError
    <2>1. h'.pkt = [re |-> "run", ok |-> FALSE, st |-> "none"]
      BY <1>3 DEF HandleRunError, Then, Answer
    <2> QED
      BY <2>1 DEF Just, Justified, Packets, Calls
  <1>4. CASE HandleStatus
    <2>1. entry \in Entries /\ entry # None
      BY <1>4, EntryThere, ComputeAssumption DEF HandleStatus
    <2>2. entry.st \in Statuses /\ (kind = "raw" => entry.st \in Sayable)
      BY <2>1 DEF Inv, Telling, Entries
    <2>3. Answer("status", TRUE, entry.st) \in Just /\ Answer("status", TRUE, entry.st).re = "status"
      BY <2>2, StatusJust DEF Answer
    <2>4. h'.pkt = Answer("status", TRUE, entry.st)
      BY <1>4 DEF HandleStatus, Then
    <2> QED
      BY <2>3, <2>4, JustifiedStays
  <1>5. CASE HandleCancel
    <2> DEFINE pkt == [re |-> "cancel", ok |-> FALSE, st |-> "none"]
    <2>1. Answer("cancel", FALSE, "none") = pkt
      BY DEF Answer
    <2>2. Then("kill", None) \/ Then("reply", pkt)
      BY <1>5, <2>1 DEF HandleCancel
    <2>3. pkt \in Just'
      BY DEF Just, Justified, Packets, Calls
    <2> HIDE DEF pkt
    <2> QED
      BY <2>2, <2>3 DEF Then
  <1>6. CASE CancelEvent
    <2>1. h'.pkt = [re |-> "cancel", ok |-> TRUE, st |-> "none"]
      BY <1>6 DEF CancelEvent, Then, Answer
    <2>2. kind' = "raw" => killed'
      BY <1>6, KindStays, RealStays DEF CancelEvent, Inv, Telling
    <2> QED
      BY <2>1, <2>2 DEF Just, Justified, Packets, Calls
  <1>7. CASE CancelKill \/ CancelMark \/ Reply
    BY <1>7 DEF CancelKill, CancelMark, Reply, Then
  <1> QED
    BY <1>1, <1>2, <1>3, <1>4, <1>5, <1>6, <1>7, Steps
    DEF CallStep, Run, RunReturn, Ask, Stray, GiveUp, EndStep, CtxDone, ClientClose, CompleteAll, ConnFails,
        DispatchStep, Dispatch, Unregister, DispatchEnd, RunStep, CancelStep, AnswerStep, ServerClose, ServerCloseMux,
        ProcessStep, Exit, ForwardEnd, LogClose, MonitorStep, MonitorDone, MonitorCode, MonitorMark,
        MonitorSend, CondaStep, CondaStart, CondaError, CondaDone, CondaCode, CondaForwarded, CondaMark,
        CondaSend, CondaClose, server

\* MonitorMark leaves a real status behind.
LEMMA MonitorTells ==
    ASSUME Inv, MonitorMark, kind = "raw", entry # None
    PROVE  entry'.st \in Sayable
  <1>1. entry \in Entries /\ entry.st \in Sayable /\ proc = "exited" /\ mon.code = code /\ code \in Codes
    BY DEF Inv, ServerTypes, ProcessTypes, Telling, Monitoring, MonitorMark
  <1>2. mon.code # None
    BY <1>1, ComputeAssumption DEF Codes
  <1>3. entry'.st = Outcome(code <= 0) \/ entry' = entry
    BY <1>1, <1>2, MonitorMarks DEF Entries, Outcome
  <1> QED
    BY <1>1, <1>3 DEF Sayable, Real, Outcome, Statuses, Terminal, Entries

\* The recorded status of a raw run is real.
LEMMA EntryTells ==
    ASSUME Inv, Next, kind = "raw", entry' # None
    PROVE  entry'.st \in Sayable'
  <1>0. ~CondaStep /\ (entry # None => entry \in Entries /\ entry.cancelFunc /\ entry.st \in Sayable)
    BY RawHasNoConda DEF Inv, Serving, Telling, ServerTypes
  <1>1. CASE entry' = entry
    BY <1>0, <1>1, RealStays DEF Sayable
  <1>2. CASE HandleRun
    BY <1>2 DEF HandleRun, Start, Sayable, Terminal, Statuses
  <1>3. CASE CancelMark
    <2>1. killed /\ killed'
      BY <1>3, RealStays DEF CancelMark, Inv, Telling
    <2>2. entry \in Entries
      BY <1>3, EntryThere DEF CancelMark
    <2>3. entry'.st = "canceled"
      BY <1>3, <2>2 DEF CancelMark, Entries
    <2> QED
      BY <2>1, <2>3 DEF Sayable, Real, Statuses, Terminal
  <1>4. CASE Reply
    BY <1>1, <1>4 DEF Reply
  <1>5. CASE ServerClose
    <2>1. entry' = entry \/ (entry \in Entries /\ killed' = CancelFunc /\ entry' = [entry EXCEPT !.st = "canceled"])
      BY <1>0, <1>5 DEF ServerClose
    <2>2. entry' = entry \/ (killed' /\ entry'.st = "canceled")
      BY <1>0, <2>1, ComputeAssumption DEF CancelFunc, Entries
    <2> QED
      BY <1>1, <2>2 DEF Sayable, Real, Statuses, Terminal
  <1>6. CASE MonitorMark
    <2>1. entry # None
      BY <1>6, MonitorMarks
    <2>2. entry'.st \in Sayable /\ UNCHANGED <<proc, code, killed>>
      BY <1>6, <2>1, MonitorTells DEF MonitorMark, process
    <2> QED
      BY <2>2 DEF Sayable, Real
  <1> QED
    BY <1>0, <1>1, <1>2, <1>3, <1>4, <1>5, <1>6, Steps
    DEF CallStep, Run, RunReturn, Ask, Stray, GiveUp, EndStep, CtxDone, ClientClose, CompleteAll, ConnFails,
        DispatchStep, Dispatch, Unregister, DispatchEnd, RunStep, HandleRunError, HandleStatus, CancelStep,
        HandleCancel, CancelKill, CancelEvent, AnswerStep, ServerCloseMux, ProcessStep, Exit, ForwardEnd, LogClose,
        MonitorStep, MonitorDone, MonitorCode, MonitorSend, server

\* The monitor has a real status to send.
LEMMA MonitorSays ==
    ASSUME Inv, Next, mon'.pc = "send"
    PROVE  mon'.st \in Statuses /\ (kind = "raw" => mon'.st \in Sayable')
  <1>0. mon.pc = "send" => mon.st \in Statuses /\ (kind = "raw" => mon.st \in Sayable)
    BY DEF Inv, Telling
  <1>1. CASE mon' = mon
    BY <1>0, <1>1, RealStays DEF Sayable
  <1>2. CASE HandleRun \/ CondaStart \/ MonitorSend
    <2>1. mon' \in {mon, At("done"), At("off")}
      BY <1>2 DEF HandleRun, CondaStart, MonitorSend
    <2> QED
      BY <1>1, <2>1 DEF At
  <1>3. CASE MonitorDone \/ MonitorCode
    BY <1>3 DEF MonitorDone, MonitorCode, Inv, ServerTypes, Workers
  <1>4. CASE MonitorMark
    <2>1. entry # None /\ mon'.st = entry'.st
      <3>1. At("off").pc # "send"
        BY DEF At
      <3> QED
        BY <1>4, <3>1, MonitorMarks
    <2>2. entry' \in Entries
      BY <1>4, <2>1, EntryStays DEF MonitorMark, Reply, Forgets
    <2>3. kind = "raw" => entry'.st \in Sayable
      BY <1>4, <2>1, MonitorTells
    <2>4. UNCHANGED <<proc, code, killed>>
      BY <1>4 DEF MonitorMark, process
    <2> QED
      BY <2>1, <2>2, <2>3, <2>4 DEF Sayable, Real, Entries
  <1> QED
    BY <1>1, <1>2, <1>3, <1>4, Steps
    DEF CallStep, Run, RunReturn, Ask, Stray, GiveUp, EndStep, CtxDone, ClientClose, CompleteAll, ConnFails,
        DispatchStep, Dispatch, Unregister, DispatchEnd, RunStep, HandleRunError, HandleStatus, CancelStep,
        HandleCancel, CancelKill, CancelMark, CancelEvent, AnswerStep, Reply, ServerClose, ServerCloseMux, ProcessStep,
        Exit, ForwardEnd, LogClose, MonitorStep, CondaStep, CondaError, CondaDone, CondaCode,
        CondaForwarded, CondaMark, CondaSend, CondaClose, server

\* The handler of Cancel has told the process to stop before it says so.
LEMMA CancelTells ==
    ASSUME Inv, Next, kind = "raw", h'.pc \in {"mark", "event"}
    PROVE  killed'
  <1>0. h.pc \in {"mark", "event"} => killed
    BY DEF Inv, Telling
  <1>1. CASE CancelKill
    <2>1. entry.cancelFunc
      BY <1>1 DEF CancelKill, Inv, Serving
    <2> QED
      BY <1>1, <2>1 DEF CancelKill, CancelFunc
  <1>2. CASE ~CancelKill
    <2>1. h.pc \in {"mark", "event"}
      <3>1. CASE RunStep
        BY <3>1 DEF RunStep, HandleRun, HandleRunError, HandleStatus, Then, Answer
      <3>2. CASE CancelStep
        BY <1>2, <3>2 DEF CancelStep, HandleCancel, CancelMark, CancelEvent, Then, Answer
      <3>3. CASE AnswerStep
        <4>1. Reply => h'.pc = "idle"
          BY DEF Reply, Then
        <4>2. ServerClose \/ ServerCloseMux => h' = h
          BY DEF ServerClose, ServerCloseMux
        <4> QED
          BY <3>3, <4>1, <4>2 DEF AnswerStep
      <3>4. CASE ~(RunStep \/ CancelStep \/ AnswerStep)
        <4>1. h' = h
          BY <3>4, Steps
          DEF CallStep, Run, RunReturn, Ask, Stray, GiveUp, EndStep, CtxDone, ClientClose, CompleteAll, ConnFails,
              DispatchStep, Dispatch, Unregister, DispatchEnd, ProcessStep, Exit, ForwardEnd, LogClose,
              MonitorStep, MonitorDone, MonitorCode, MonitorMark, MonitorSend, CondaStep, CondaStart,
              CondaError, CondaDone, CondaCode, CondaForwarded, CondaMark, CondaSend, CondaClose, server
        <4> QED
          BY <4>1
      <3> QED
        BY <3>1, <3>2, <3>3, <3>4
    <2> QED
      BY <1>0, <2>1, RealStays
  <1> QED
    BY <1>1, <1>2

\* The client believes the packets only.
LEMMA ClientTells ==
    ASSUME Inv, Next, kind = "raw"
    PROVE  /\ result' \in Terminal => result' \in Sayable'
           /\ call'["cancel"] = "ok" => killed'
  <1>0. /\ result \in Terminal => result \in Sayable
        /\ call["cancel"] = "ok" => killed
        /\ call \in [Calls -> {"idle", "sent", "ok", "bad", "over"}]
    BY DEF Inv, Telling, ClientTypes
  <1>1. /\ result \in Terminal => result \in Sayable'
        /\ call["cancel"] = "ok" => killed'
    BY <1>0, RealStays DEF Sayable
  <1>2. CASE Dispatch
    <2>1. PICK pkt \in Just : pkt = Head(toClient)
      BY <1>2, NextPacket DEF Dispatch
    <2>2. pkt \in Packets /\ Justified(pkt)
      BY <2>1 DEF Just
    <2>3. UNCHANGED <<proc, code, killed>>
      BY <1>2 DEF Dispatch, process
    <2>4. call' = call \/ (pkt.re \in Calls /\ call' = [call EXCEPT ![pkt.re] = IF pkt.ok THEN "ok" ELSE "bad"])
      BY <1>2, <2>1, <2>2 DEF Dispatch, Packets
    <2>5. call'["cancel"] = "ok" => call["cancel"] = "ok" \/ (pkt.re = "cancel" /\ pkt.ok)
      BY <1>0, <2>4 DEF Calls
    <2>6. result' = result \/ (result' = pkt.st /\ pkt.re = "status" /\ pkt.st \in Terminal)
      BY <1>2, <2>1 DEF Dispatch, CompleteWith, IsTerminal
    <2> QED
      BY <1>1, <2>2, <2>3, <2>5, <2>6 DEF Justified, Sayable, Real
  <1>3. CASE CallStep
    <2>1. result' = result
      BY <1>3 DEF CallStep, Run, RunReturn, Ask, Stray, GiveUp, client
    <2>2. call'["cancel"] = "ok" => call["cancel"] = "ok"
      BY <1>0, <1>3, Questions DEF CallStep, Run, RunReturn, Ask, Stray, GiveUp, Request, Calls, client
    <2> QED
      BY <1>1, <2>1, <2>2
  <1>4. CASE EndStep
    <2>1. call' = call /\ (result' = result \/ result' \in {"context", "closed"})
      BY <1>4 DEF EndStep, CtxDone, ClientClose, CompleteAll, ConnFails, CompleteWith, client
    <2> QED
      BY <1>1, <2>1 DEF Sayable, Terminal
  <1>5. CASE Unregister \/ DispatchEnd
    <2>1. result' = result /\ (call'["cancel"] = "ok" => call["cancel"] = "ok")
      BY <1>5 DEF Unregister, DispatchEnd, Calls
    <2> QED
      BY <1>1, <2>1
  <1>6. CASE UNCHANGED <<call, result>>
    BY <1>1, <1>6
  <1> QED
    BY <1>2, <1>3, <1>4, <1>5, <1>6, Steps
    DEF DispatchStep, RunStep, HandleRun, HandleRunError, HandleStatus, CancelStep, HandleCancel, CancelKill,
        CancelMark, CancelEvent, AnswerStep, Reply, ServerClose, ServerCloseMux, ProcessStep, Exit, ForwardEnd, LogClose,
        MonitorStep, MonitorDone, MonitorCode, MonitorMark, MonitorSend, CondaStep, CondaStart, CondaError,
        CondaDone, CondaCode, CondaForwarded, CondaMark, CondaSend, CondaClose, client

\* Server.Close leaves no raw command running unasked.
LEMMA CloseStops ==
    ASSUME Inv, Next, kind = "raw", sclose' # "no", entry' # None
    PROVE  killed' \/ proc' = "exited"
  <1>1. CASE ServerClose
    <2>1. entry # None
      BY <1>1 DEF ServerClose
    <2>2. entry.cancelFunc /\ entry \in Entries /\ entry.st \in Sayable
      BY <2>1 DEF Inv, Serving, Telling, ServerTypes
    <2>3. CASE entry.st = "running"
      BY <1>1, <2>1, <2>2, <2>3 DEF ServerClose, CancelFunc
    <2>4. CASE entry.st # "running"
      BY <2>2, <2>4, RealStays DEF Entries, Statuses, Sayable, Real
    <2> QED
      BY <2>3, <2>4
  <1>2. CASE ~ServerClose
    <2>1. sclose # "no"
      BY <1>2, Steps
      DEF CallStep, Run, RunReturn, Ask, Stray, GiveUp, EndStep, CtxDone, ClientClose, CompleteAll, ConnFails,
        DispatchStep, Dispatch, Unregister, DispatchEnd, RunStep, HandleRun, HandleRunError, HandleStatus,
        CancelStep, HandleCancel, CancelKill, CancelMark, CancelEvent, AnswerStep, Reply, ServerCloseMux, ProcessStep,
        Exit, ForwardEnd, LogClose, MonitorStep, MonitorDone, MonitorCode, MonitorMark, MonitorSend,
        CondaStep, CondaStart, CondaError, CondaDone, CondaCode, CondaForwarded, CondaMark, CondaSend,
        CondaClose, server
    <2>2. entry # None
      <3>1. ~CondaStep /\ ~HandleRun
        BY <2>1, RawHasNoConda DEF HandleRun, Handling
      <3>2. h.pc = "mark" => entry # None
        BY DEF Inv, Serving
      <3> QED
        BY <1>2, <3>1, <3>2, Steps, MonitorMarks
        DEF CallStep, Run, RunReturn, Ask, Stray, GiveUp, EndStep, CtxDone, ClientClose, CompleteAll, ConnFails,
        DispatchStep, Dispatch, Unregister, DispatchEnd, RunStep, HandleRunError, HandleStatus,
        CancelStep, HandleCancel, CancelKill, CancelMark, CancelEvent, AnswerStep, Reply, ServerCloseMux, ProcessStep,
        Exit, ForwardEnd, LogClose, MonitorStep, MonitorDone, MonitorCode, MonitorSend, server
    <2> QED
      BY <2>1, <2>2, RealStays DEF Inv, Telling
  <1> QED
    BY <1>1, <1>2

\* What is said of a run is real.
LEMMA TellingKept == ASSUME Inv, Next PROVE Telling'
  <1>1. kind' = kind
    BY KindStays
  <1> QED
    BY <1>1, PacketsJustified, ReplyJustified, EntryTells, MonitorSays, CancelTells, ClientTells, CloseStops
    DEF Telling

\* While output is being forwarded the log is open, but for a subcommand
\* that could not be run.
LEMMA LoggingKept == ASSUME Inv, Next PROVE Logging'
  <1> USE DEF Logging
  <1>0. Logging /\ g \in Workers /\ fwd \in 0..2 /\ kind' = kind
    BY KindStays DEF Inv, ServerTypes
  <1>1. CASE HandleRun
    <2>1. Fresh
      BY <1>1, FirstIsRun DEF HandleRun
    <2> QED
      BY <1>1, <2>1 DEF HandleRun, Fresh, At
  <1>2. CASE Exit
    BY <1>0, <1>2 DEF Exit, server
  <1>3. CASE ForwardEnd
    BY <1>0, <1>3 DEF ForwardEnd, process
  <1>4. CASE LogClose
    BY <1>0, <1>4 DEF LogClose, OutputForwarded, process
  <1>5. CASE CondaStart
    <2>1. kind # "raw" /\ (logOpen \/ sclose = "closed") /\ g'.pc = "done" /\ UNCHANGED <<logOpen, sclose>>
      BY <1>0, <1>5, RawHasNoConda DEF CondaStep, CondaStart, At
    <2> QED
      BY <1>0, <2>1
  <1>6. CASE CondaError
    <2>1. kind # "raw" /\ g.pc = "start" /\ UNCHANGED <<fwd, proc, sclose>>
      BY <1>6, RawHasNoConda DEF CondaStep, CondaError, process
    <2>2. g'.pc = "mark"
      <3>1. g' = [pc |-> "mark", err |-> "err", code |-> 1, st |-> "none"]
        BY <1>6 DEF CondaError, At
      <3> QED
        BY <3>1
    <2> QED
      BY <1>0, <2>1, <2>2
  <1>7. CASE CondaDone \/ CondaCode \/ CondaForwarded
    <2>1. kind # "raw" /\ UNCHANGED <<fwd, proc, logOpen, sclose>> /\ g.pc \in {"done", "code", "forward"}
      BY <1>7, RawHasNoConda DEF CondaStep, CondaDone, CondaCode, CondaForwarded, process
    <2>2. g'.pc \in {"code", "forward"} \/ (g'.pc = "mark" /\ fwd = 0)
      BY <1>0, <1>7 DEF CondaDone, CondaCode, CondaForwarded, OutputForwarded, Workers
    <2> QED
      BY <1>0, <2>1, <2>2
  <1>8. CASE CondaMark \/ CondaSend \/ CondaClose
    <2>1. /\ kind # "raw" /\ UNCHANGED <<fwd, proc, sclose>> /\ g.pc \in {"mark", "send", "close"}
          /\ logOpen' = logOpen \/ ~logOpen'
      BY <1>8, RawHasNoConda DEF CondaStep, CondaMark, CondaSend, CondaClose, process
    <2>2. g'.pc \in {"send", "close", "end"}
      <3>1. CASE CondaMark
        <4>1. g' = [pc |-> "send", err |-> "nil", code |-> None, st |-> entry'.st]
          BY <3>1 DEF CondaMark, At
        <4> QED
          BY <4>1
      <3>2. CASE CondaSend \/ CondaClose
        BY <1>0, <3>2 DEF CondaSend, CondaClose, Workers
      <3> QED
        BY <1>8, <3>1, <3>2
    <2> QED
      BY <1>0, <2>1, <2>2
  <1>9. CASE ServerClose \/ ServerCloseMux
    <2>1. UNCHANGED <<proc, fwd, g>> /\ (sclose' = "closed" \/ (logOpen' = logOpen /\ sclose # "closed"))
      BY <1>9 DEF ServerClose, ServeEnds, ServerCloseMux, process
    <2> QED
      BY <1>0, <2>1
  <1>10. CASE UNCHANGED <<proc, logOpen, fwd, g, sclose>>
    BY <1>0, <1>10
  <1> QED
    BY <1>1, <1>2, <1>3, <1>4, <1>5, <1>6, <1>7, <1>8, <1>9, <1>10, Steps
    DEF CallStep, Run, RunReturn, Ask, Stray, GiveUp, EndStep, CtxDone, ClientClose, CompleteAll, ConnFails,
        DispatchStep, Dispatch, Unregister, DispatchEnd, RunStep, HandleRunError, HandleStatus, CancelStep,
        HandleCancel, CancelKill, CancelMark, CancelEvent, AnswerStep, Reply, ServerClose, ServerCloseMux, ProcessStep,
        MonitorStep, MonitorDone, MonitorCode, MonitorMark, MonitorSend, CondaStep, server, process
-----------------------------------------------------------------------------
\* A step of nobody changes nothing.
LEMMA StutterInv == ASSUME Inv, UNCHANGED vars PROVE Inv'
  BY DEF Inv, ClientTypes, ServerTypes, ProcessTypes, Asking, Fresh, Serving, Monitoring, Telling, Just,
         Justified, Sayable, Real, Logging, vars, net, client, server, process

\* Every reachable state satisfies the inductive invariant.
THEOREM Invariance == Spec => []Inv
  <1>1. Inv /\ [Next]_vars => Inv'
    <2> SUFFICES ASSUME Inv, Next \/ UNCHANGED vars PROVE Inv'
      OBVIOUS
    <2>1. CASE Next
      BY <2>1, ClientTypesKept, ServerTypesKept, ProcessTypesKept, AskingKept, ServingKept, MonitoringKept,
         TellingKept, LoggingKept DEF Inv
    <2> QED
      BY <2>1, StutterInv
  <1> QED
    BY <1>1, InitInv, PTL DEF Spec

(***************************************************************************)
(* The run's record, the handle and the goroutines keep their types,       *)
(* though server.go dereferences a record that Reply may have forgotten.   *)
(***************************************************************************)
THEOREM ComputeRunTypeCorrect == Spec => []TypeOK
  <1>1. Inv => TypeOK
    BY DEF Inv, ClientTypes, ServerTypes, ProcessTypes, TypeOK, Workers
  <1> QED
    BY <1>1, Invariance, PTL

(***************************************************************************)
(* What the handle of a raw command is completed with by a status event is *)
(* how the run ended: every status that is recorded, sent, on its way or   *)
(* about to be is real (Telling).                                          *)
(***************************************************************************)
THEOREM ResultReal == Spec => []ResultIsReal
  <1>1. Inv => ResultIsReal
    <2> SUFFICES ASSUME Inv, kind = "raw", result \in Statuses
                 PROVE  \/ proc = "exited" /\ result = Outcome(code <= 0)
                        \/ killed /\ result = "canceled"
      BY DEF ResultIsReal
    <2>1. result \in Terminal
      BY ComputeAssumption DEF Inv, ClientTypes, Statuses, Terminal
    <2> QED
      BY <2>1 DEF Inv, Telling, Sayable, Real
  <1> QED
    BY <1>1, Invariance, PTL

(***************************************************************************)
(* A Cancel that has succeeded, and Server.Close, have told the process of *)
(* a raw command to stop, whatever the monitor did meanwhile.              *)
(***************************************************************************)
THEOREM Stopped == Spec => []StopsRuns
  <1>1. Inv => StopsRuns
    BY DEF Inv, Telling, StopsRuns
  <1> QED
    BY <1>1, Invariance, PTL

(***************************************************************************)
(* The log stream is closed after all output was forwarded.                *)
(***************************************************************************)
THEOREM LogIsWhole == Spec => []LogWhole
  <1>1. Inv => LogWhole
    BY DEF Inv, Logging, LogWhole
  <1> QED
    BY <1>1, Invariance, PTL

(***************************************************************************)
(* A raw run that was canceled stays canceled: monitorExecution leaves a   *)
(* status that is no longer running alone, and no conda goroutine writes.  *)
(***************************************************************************)
THEOREM StaysCanceled == Spec => CanceledStays
  <1> DEFINE Stays == kind = "raw" /\ entry # None /\ entry.st = "canceled" =>
                        entry' = None \/ entry'.st = "canceled"
  <1>1. Inv /\ [Next]_vars => [Stays]_vars
    <2> SUFFICES ASSUME Inv, Next, kind = "raw", entry # None, entry.st = "canceled"
                 PROVE  entry' = None \/ entry'.st = "canceled"
      OBVIOUS
    <2>1. entry \in Entries /\ ~CondaStep
      BY RawHasNoConda DEF Inv, ServerTypes
    <2>2. ~HandleRun
      BY FirstIsRun DEF HandleRun, Fresh
    <2>3. CASE CancelMark
      BY <2>1, <2>3 DEF CancelMark, Entries
    <2>4. CASE MonitorMark
      BY <2>1, <2>4 DEF MonitorMark, MonitorMayMark
    <2>5. CASE Reply \/ ServerClose
      BY <2>1, <2>5 DEF Reply, ServerClose
    <2>6. CASE UNCHANGED entry
      BY <2>6
    <2> QED
      BY <2>1, <2>2, <2>3, <2>4, <2>5, <2>6, Steps
      DEF CallStep, Run, RunReturn, Ask, Stray, GiveUp, EndStep, CtxDone, ClientClose, CompleteAll, ConnFails,
          DispatchStep, Dispatch, Unregister, DispatchEnd, RunStep, HandleRunError, HandleStatus, CancelStep,
          HandleCancel, CancelKill, CancelEvent, AnswerStep, ServerCloseMux, ProcessStep, Exit, ForwardEnd, LogClose,
          MonitorStep, MonitorDone, MonitorCode, MonitorSend, server
  <1> QED
    BY <1>1, Invariance, PTL DEF Spec, CanceledStays
-----------------------------------------------------------------------------
(* The steps of a raw run, as RunLife has them.                            *)

LifeStays == UNCHANGED <<proc, code, killed, entry, result>>

\* Which of them a step of the client takes.
LEMMA ClientLife ==
    ASSUME Inv, kind = "raw", CallStep \/ EndStep \/ DispatchStep
    PROVE  /\ UNCHANGED <<proc, code, killed, entry>>
           /\ \/ result' = result
              \/ result = None /\ (result' \in {"context", "closed"} \/ Real(result'))
  <1>1. UNCHANGED <<proc, code, killed, entry>>
    BY DEF CallStep, Run, RunReturn, Ask, Stray, GiveUp, EndStep, CtxDone, ClientClose, CompleteAll, ConnFails,
           DispatchStep, Dispatch, Unregister, DispatchEnd, client, server, process
  <1>2. CASE CtxDone \/ CompleteAll
    BY <1>1, <1>2 DEF CtxDone, CompleteAll, CompleteWith, First
  <1>3. CASE Dispatch
    <2>1. CASE result' = result
      BY <1>1, <2>1
    <2>2. CASE result' # result
      <3>1. toClient # <<>> /\ toClient \in Seq(Packets)
        BY <1>3 DEF Dispatch, Inv, ClientTypes
      <3>2. PICK pkt : pkt = Head(toClient)
        OBVIOUS
      <3>3. pkt \in Just
        <4>1. 1 \in 1..Len(toClient) /\ Head(toClient) = toClient[1]
          BY <3>1
        <4> QED
          BY <3>2, <4>1 DEF Inv, Telling
      <3>4. result = None /\ result' = pkt.st /\ pkt.re = "status" /\ pkt.st \in Terminal
        BY <1>3, <2>2, <3>2 DEF Dispatch, CompleteWith, First, IsTerminal
      <3>5. Real(pkt.st)
        BY <3>3, <3>4 DEF Just, Justified, Sayable
      <3> QED
        BY <1>1, <3>4, <3>5
    <2> QED
      BY <2>1, <2>2
  <1>4. CASE UNCHANGED result
    BY <1>1, <1>4
  <1> QED
    BY <1>2, <1>3, <1>4 DEF CallStep, Run, RunReturn, Ask, Stray, GiveUp, EndStep, ClientClose, ConnFails,
       DispatchStep, Unregister, DispatchEnd, client

\* And one of the server or of the process.
LEMMA ServerLife ==
    ASSUME Inv, Next, kind = "raw", RunStep \/ CancelStep \/ AnswerStep \/ ProcessStep \/ MonitorStep
    PROVE  \/ LifeStays
           \/ L!Start \/ L!Exit \/ L!Record \/ L!Cancel \/ L!Forget
  <1>0. /\ entry \in Entries \cup {None} /\ None \notin Entries /\ None \notin Statuses
        /\ entry # None => entry.st \in Statuses
    BY ComputeAssumption DEF Inv, ServerTypes, Entries
  <1>1. IsRaw /\ IsRaw' /\ kind' = "raw"
    BY KindStays DEF IsRaw
  <1>2. CASE HandleRun
    <2>1. proc = "none" /\ entry = None
      BY <1>2, FirstIsRun DEF HandleRun, Fresh
    <2>2. proc' = "running" /\ entry' = [st |-> "running", cancelFunc |-> TRUE] /\ UNCHANGED <<code, killed, result>>
      BY <1>2 DEF HandleRun, Start, client
    <2>3. entry' \in Entries
      BY <2>2 DEF Entries, Statuses
    <2>4. entry' # None /\ entry'.st = "running"
      BY <1>0, <2>2, <2>3
    <2> QED
      BY <1>1, <2>1, <2>2, <2>4 DEF L!Start
  <1>3. CASE CancelKill
    <2>1. entry \in Entries /\ entry.cancelFunc
      BY <1>0, <1>3 DEF CancelKill, Inv, Serving
    <2>2. killed' = TRUE /\ UNCHANGED <<entry, proc, code, result>>
      <3>1. killed' = (killed \/ entry.cancelFunc)
        BY <1>3 DEF CancelKill, CancelFunc
      <3> QED
        BY <1>3, <2>1, <3>1 DEF CancelKill, client
    <2> QED
      BY <1>0, <1>1, <2>1, <2>2 DEF L!Cancel
  <1>4. CASE CancelMark
    <2>1. entry \in Entries /\ killed = TRUE
      BY <1>0, <1>4 DEF CancelMark, Inv, Serving, Telling, ProcessTypes
    <2>2. entry' = [entry EXCEPT !.st = "canceled"] /\ UNCHANGED <<proc, code, killed, result>>
      BY <1>4 DEF CancelMark, client, process
    <2>3. entry' \in Entries /\ entry'.st = "canceled"
      BY <2>1, <2>2 DEF Entries, Statuses, Terminal
    <2> QED
      BY <1>0, <1>1, <2>1, <2>2, <2>3 DEF L!Cancel
  <1>5. CASE Reply
    <2>1. entry' \in {entry, None} /\ UNCHANGED <<proc, code, killed, result>>
      BY <1>5 DEF Reply, client, process
    <2> QED
      BY <1>0, <1>1, <2>1 DEF LifeStays, L!Forget
  <1>6. CASE ServerClose
    <2>1. CASE entry # None /\ entry.st = "running"
      <3>1. entry \in Entries /\ entry.cancelFunc
        BY <1>0, <2>1 DEF Inv, Serving
      <3>2. killed' = TRUE
        <4>1. killed' = (killed \/ entry.cancelFunc)
          BY <1>6, <2>1 DEF ServerClose, CancelFunc
        <4> QED
          BY <3>1, <4>1
      <3>3. entry' = [entry EXCEPT !.st = "canceled"] /\ UNCHANGED <<proc, code, result>>
        BY <1>6, <2>1 DEF ServerClose, client
      <3>4. entry' \in Entries /\ entry'.st = "canceled"
        BY <3>1, <3>3 DEF Entries, Statuses, Terminal
      <3> QED
        BY <1>0, <1>1, <2>1, <3>2, <3>3, <3>4 DEF L!Cancel
    <2>2. CASE ~(entry # None /\ entry.st = "running")
      BY <1>6, <2>2 DEF ServerClose, LifeStays, client
    <2> QED
      BY <2>1, <2>2
  <1>7. CASE Exit
    BY <1>1, <1>7 DEF Exit, client, server, L!Exit
  <1>8. CASE MonitorMark
    <2>1. proc = "exited" /\ mon.code = code /\ code \in Codes /\ None \notin Codes
      BY <1>8, ComputeAssumption DEF MonitorMark, Inv, Monitoring, ProcessTypes, Codes
    <2>2. UNCHANGED <<proc, code, killed, result>>
      BY <1>8 DEF MonitorMark, client, process
    <2>3. CASE entry' = entry
      BY <2>2, <2>3 DEF LifeStays
    <2>4. CASE entry' # entry
      <3>1. entry # None /\ entry.st = "running" /\ entry' = [entry EXCEPT !.st = Outcome(mon.code # None /\ mon.code <= 0)]
        BY <1>8, <2>4, MonitorMarks DEF MonitorMayMark
      <3>2. Outcome(mon.code # None /\ mon.code <= 0) = IF code <= 0 THEN "completed" ELSE "failed"
        BY <2>1 DEF Outcome
      <3>3. entry' \in Entries /\ entry'.st = IF code <= 0 THEN "completed" ELSE "failed"
        BY <1>0, <3>1, <3>2 DEF Entries, Statuses, Terminal
      <3> QED
        BY <1>0, <1>1, <2>1, <2>2, <3>1, <3>3 DEF L!Record, L!Verdict
    <2> QED
      BY <2>3, <2>4
  <1>9. CASE LifeStays
    BY <1>9
  <1> QED
    BY <1>2, <1>3, <1>4, <1>5, <1>6, <1>7, <1>8, <1>9 DEF RunStep, HandleRunError, HandleStatus,
       CancelStep, HandleCancel, CancelEvent, AnswerStep, ServerCloseMux, ProcessStep, ForwardEnd, LogClose,
       MonitorStep, MonitorDone, MonitorCode, MonitorSend, LifeStays, client, process

(***************************************************************************)
(* The client, the server and their goroutines together implement the life *)
(* of a raw run: what RawExecutionHandle.complete is called with, and each *)
(* status handleCancel, Close and monitorExecution write, is a step that   *)
(* life allows.                                                            *)
(***************************************************************************)
THEOREM LifeImplemented == Spec => ImplementsRunLife
  <1>1. Init => L!Init
    BY DEF Init, L!Init
  <1>2. Inv /\ [Next]_vars => [L!Next]_(L!vars)
    <2> SUFFICES ASSUME Inv, Next \/ UNCHANGED vars PROVE L!Next \/ UNCHANGED (L!vars)
      OBVIOUS
    <2>1. CASE UNCHANGED vars
      BY <2>1 DEF vars, client, server, process, L!vars, IsRaw
    <2>2. ASSUME Next, kind # "raw" PROVE UNCHANGED (L!vars)
      BY <2>2, KindStays DEF L!vars, IsRaw
    <2>3. ASSUME Next, kind = "raw" PROVE L!Next \/ UNCHANGED (L!vars)
      <3>1. IsRaw /\ IsRaw' /\ kind' = "raw"
        BY <2>3, KindStays DEF IsRaw
      <3>2. ASSUME LifeStays PROVE UNCHANGED (L!vars)
        BY <3>1, <3>2 DEF LifeStays, L!vars
      <3>3. CASE CallStep \/ EndStep \/ DispatchStep
        <4>1. CASE result' = result
          BY <2>3, <3>2, <3>3, <4>1, ClientLife DEF LifeStays
        <4>2. CASE result' # result
          <5>1. L!Complete
            BY <2>3, <3>1, <3>3, <4>2, ClientLife DEF L!Complete, L!Verdict, Real, Outcome
          <5> QED
            BY <5>1 DEF L!Next
        <4> QED
          BY <4>1, <4>2
      <3>4. CASE RunStep \/ CancelStep \/ AnswerStep \/ ProcessStep \/ MonitorStep
        BY <2>3, <3>2, <3>4, ServerLife DEF L!Next
      <3> QED
        BY <2>3, <3>3, <3>4, Steps, RawHasNoConda
    <2> QED
      BY <2>1, <2>2, <2>3
  <1> QED
    BY <1>1, <1>2, Invariance, PTL DEF Spec, ImplementsRunLife, L!Spec
=============================================================================
