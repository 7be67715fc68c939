--------------------------- MODULE MCFileTransfer ---------------------------
(* FileTransfer for TLC: two operations meet.                              *)
EXTENDS FileTransfer

CONSTANTS p1, p2, n1, n2, k1, k2

Get(k, n) == [kind |-> "get", conn |-> k, name |-> n, content |-> n]
Send(k, n, c) == [kind |-> "send", conn |-> k, name |-> n, content |-> c]
List(k) == [kind |-> "list", conn |-> k, name |-> n1, content |-> n1]
Case(a, b) == [p \in Ops |-> IF p = p1 THEN a ELSE b]

\* On one connection: two of a kind, or one of each; on two, one file.
AllCases == {Case(Get(k1, n1), Get(k1, n2)), Case(Send(k1, n1, p1), Send(k1, n2, p2)),
             Case(Get(k1, n1), Send(k1, n1, p2)), Case(List(k1), Get(k1, n1)),
             Case(Send(k1, n1, p1), Send(k2, n1, p2))}
=============================================================================
