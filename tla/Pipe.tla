-------------------------------- MODULE Pipe --------------------------------
(***************************************************************************)
(* What a reader of a multiplexed stream may rely on: a one-way pipe that  *)
(* hands out the bytes put into it in order, each once, and accepts        *)
(* nothing after it is shut.  Bytes are named by their position.           *)
(***************************************************************************)
EXTENDS Naturals

VARIABLES written,   \* number of bytes put into the pipe
          taken,     \* position after the last byte handed to the reader
          handed,    \* number of bytes handed to the reader
          shut       \* nothing can be put any more

vars == <<written, taken, handed, shut>>

Init == written = 0 /\ taken = 0 /\ handed = 0 /\ shut = FALSE

Put ==
    /\ ~shut
    /\ written' \in Nat /\ written' > written
    /\ UNCHANGED <<taken, handed, shut>>

Take ==
    /\ handed' \in Nat /\ handed' > handed
    /\ taken' = taken + (handed' - handed) /\ taken' <= written
    /\ UNCHANGED <<written, shut>>

Shut ==
    /\ ~shut
    /\ shut' = TRUE
    /\ UNCHANGED <<written, taken, handed>>

Next == Put \/ Take \/ Shut

Spec == Init /\ [][Next]_vars
=============================================================================
