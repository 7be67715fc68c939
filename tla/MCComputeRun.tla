---------------------------- MODULE MCComputeRun ----------------------------
(* ComputeRun for TLC: what the caller asks for, per kind of command.      *)
EXTENDS ComputeRun

\* Safety: all of it for a raw command; for the others, which have more
\* goroutines, what may end them.
AskAll == [k \in Kinds |-> IF k = "raw" THEN {"status", "cancel", "unknown"}
                           ELSE IF k = "conda" THEN {"cancel"} ELSE {"cancel", "unknown"}]

\* Liveness: HandleCompletes excludes Status, LogCloses needs no question.
AskCancel == [k \in Kinds |-> IF k = "raw" THEN {"cancel"} ELSE {}]
=============================================================================
