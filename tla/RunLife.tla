------------------------------- MODULE RunLife -------------------------------
(***************************************************************************)
(* What the compute protocol promises of the run of one raw command: its   *)
(* process starts and exits once; its record is running until the exit is  *)
(* recorded, and once it is canceled no exit is; and its handle is         *)
(* completed once, with what was real by then, or because the caller has   *)
(* given up.                                                               *)
(***************************************************************************)
EXTENDS Integers

CONSTANT None

VARIABLES process,   \* none, running, exited
          exit,      \* its exit code
          told,      \* it was told to stop
          record,    \* what the server says of the run, or None
          result     \* what the handle was completed with, or None

vars == <<process, exit, told, record, result>>

Verdict == IF exit <= 0 THEN "completed" ELSE "failed"

Init ==
    /\ process = "none" /\ exit = 0 /\ told = FALSE
    /\ record = None /\ result = None

Start ==
    /\ process = "none" /\ record = None
    /\ process' = "running" /\ record' = "running"
    /\ UNCHANGED <<exit, told, result>>

Exit ==
    /\ process = "running"
    /\ process' = "exited" /\ exit' \in {-1, 0, 1}
    /\ UNCHANGED <<told, record, result>>

Record ==
    /\ process = "exited" /\ record = "running"
    /\ record' = Verdict
    /\ UNCHANGED <<process, exit, told, result>>

\* A cancellation that has begun goes on, even if the exit was recorded
\* meanwhile.
Cancel ==
    /\ record # None
    /\ told' = TRUE /\ record' \in {record, "canceled"}
    /\ UNCHANGED <<process, exit, result>>

\* The caller could not be told that the run has started.
Forget ==
    /\ record # None
    /\ record' = None
    /\ UNCHANGED <<process, exit, told, result>>

Complete ==
    /\ result = None
    /\ \/ process = "exited" /\ result' = Verdict
       \/ told /\ result' = "canceled"
       \/ result' \in {"context", "closed"}
    /\ UNCHANGED <<process, exit, told, record>>

Next == Start \/ Exit \/ Record \/ Cancel \/ Forget \/ Complete

Spec == Init /\ [][Next]_vars
=============================================================================
