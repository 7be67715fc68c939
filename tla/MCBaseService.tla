--------------------------- MODULE MCBaseService ---------------------------
(* BaseService for TLC: Matchers that tell all requests apart, and callers *)
(* that are interchangeable.                                               *)
EXTENDS BaseService, TLC

OwnKey == [r \in Reqs |-> r]
ReqSymmetry == Permutations(Reqs)
=============================================================================
