--------------------------- MODULE MCMultiplexer ---------------------------
(* Multiplexer for TLC: the workers are interchangeable.                   *)
EXTENDS Multiplexer, TLC

TaskSymmetry == Permutations(Tasks)
=============================================================================
