---------------------------- MODULE MCApiCompute ----------------------------
(* ApiCompute for TLC: much output while one handler looks, some while one *)
(* handler cancels or deletes, or none while two handlers meet.            *)
EXTENDS ApiCompute

CONSTANTS r1, r2

Case(what, out, err, codes, ops1, ops2) ==
    [kind |-> IF what \in {"local", "parent"} THEN "local" ELSE "remote",
     conda |-> what = "conda", heirs |-> what = "parent", codes |-> codes,
     chunks |-> [s \in Std |-> IF s = "out" THEN out ELSE err],
     ops |-> [r \in Reqs |-> IF r = r1 THEN ops1 ELSE ops2]]

\* Much output; output of both streams; output or an end that is looked at.
Output == {Case("parent", 3, 0, {0}, {}, {}), Case("parent", 1, 1, {0}, {}, {}),
           Case("local", 1, 0, {0, 1}, {"get", "stream"}, {}),
           Case("conda", 0, 0, {0, 1}, {"get"}, {})}

\* Output of a run that is cancelled or deleted.
Stopped == {Case("parent", 1, 0, {0}, {"cancel"}, {}),
            Case("local", 1, 0, {0}, {"delete"}, {}),
            Case("remote", 1, 0, {0}, {"delete", "cancel"}, {})}

\* Two handlers meet.
Meeting == {Case("local", 0, 0, {0}, {"cancel"}, {"delete"}),
            Case("remote", 0, 0, {0}, {"cancel"}, {"get"}),
            Case("remote", 0, 0, {0}, {"get", "stdin"}, {"delete"})}

AllCases == UNION {Output, Stopped, Meeting}
=============================================================================
