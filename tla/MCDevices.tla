----------------------------- MODULE MCDevices -----------------------------
(* Devices for TLC: a peer that changes and a call that meets the loops on *)
(* it, and a peer that changes while another may have fallen mute.         *)
EXTENDS Devices

CONSTANTS d1, d2, c1

Case(moods1, moods2, n, calls) ==
    [moods |-> [d \in Devs |-> IF d = d1 THEN moods1 ELSE moods2], turns |-> n, calls |-> calls]

AllCases == {Case(AllMoods, {}, 2, {c1}), Case({"up", "gone"}, {"up", "mute"}, 1, {})}
=============================================================================
