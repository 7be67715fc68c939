------------------------------- MODULE Devices -------------------------------
(***************************************************************************)
(* The tables of other devices a node keeps (node.go): the loop that finds *)
(* peers in the DHT (DiscoverDevices), the periodic health checks          *)
(* (HealthcheckDevices, UpdateDevices) and calls of ConnectDevice.  Each   *)
(* lock of DLock is one step; what happens on the network between two is   *)
(* another.                                                                *)
(*                                                                         *)
(* A peer is in one of these moods, and may change:                        *)
(*   up       it answers;                                                  *)
(*   odd      it answers every command of the echo protocol as unknown,    *)
(*            which Ping takes for an answer and GetEcho for an empty one; *)
(*   failing  it accepts connections and its answers are errors;           *)
(*   mute     it accepts connections and never answers;                    *)
(*   gone     there is no such process.                                    *)
(* libp2p holds one connection to a peer, dialled when a stream needs it;  *)
(* whether a relay carries it makes no difference here.  An entry of a     *)
(* table is its presence: Status says which table it is in.                *)
(***************************************************************************)
EXTENDS Integers

CONSTANTS Devs,      \* peers
          Callers,   \* calls of ConnectDevice, each for one peer
          Cases      \* bounds: per case, the moods each peer may be in (none:
                     \* there is no such peer), how often peers change, and
                     \* the calls that are made

AllMoods == {"up", "odd", "failing", "mute", "gone"}

ASSUME DevicesAssumption ==
    /\ Devs \cap Callers = {}
    /\ \A c \in Cases : c.moods \in [Devs -> SUBSET AllMoods] /\ c.turns \in Nat
                        /\ c.calls \subseteq Callers

VARIABLES
    case,          \* one of Cases
    mood, turns,   \* of the peers; changes so far
    connected,     \* peers libp2p has a connection to
    discovered,    \* keys of discoveredDevices
    healthy,       \* keys of healthyDevices
    \* DiscoverDevices
    found,         \* peers this round has come across
    connectedPeers,
    at,            \* per peer: its goroutine: off, discover, connect, ping, drop
    \* ConnectDevice
    call,          \* per call: idle, discover, connect, ping, drop, echo, move, end
    target,        \* its peer
    \* UpdateDevices, per entry of allDevices: off, echo or ping, move or keep,
    \* drop
    chkDiscovered, chkHealthy

tables == <<discovered, healthy>>
world == <<case, mood, turns>>
finder == <<found, connectedPeers, at>>
caller == <<call, target>>
checker == <<chkDiscovered, chkHealthy>>
vars == <<world, connected, tables, finder, caller, checker>>

Peers == {d \in Devs : case.moods[d] # {}}

Init ==
    /\ case \in Cases /\ turns = 0
    /\ mood \in {m \in [Devs -> AllMoods] :
                   \A d \in Devs : m[d] \in IF d \in Peers THEN case.moods[d] ELSE {"gone"}}
    /\ connected = {} /\ discovered = {} /\ healthy = {}
    /\ found = {} /\ connectedPeers = {} /\ at = [d \in Devs |-> "off"]
    /\ call = [c \in Callers |-> "idle"] /\ target \in [Callers -> Peers]
    /\ chkDiscovered = [d \in Devs |-> "off"] /\ chkHealthy = [d \in Devs |-> "off"]
-----------------------------------------------------------------------------
(* The peers.                                                              *)

Turn(d) ==
    /\ turns < case.turns /\ turns' = turns + 1
    /\ \E m \in case.moods[d] \ {mood[d]} : mood' = [mood EXCEPT ![d] = m]
    /\ connected' = IF mood[d] = "gone" THEN connected \ {d} ELSE connected
    /\ UNCHANGED <<case, tables, finder, caller, checker>>

\* A connection breaks, or libp2p notices that the peer is gone.
Disconnected(d) ==
    /\ d \in connected /\ connected' = connected \ {d}
    /\ UNCHANGED <<world, tables, finder, caller, checker>>

\* What may come of dialling, of a Ping and of GetEcho with json.Unmarshal;
\* a mute peer's answer never comes, but its connection may break.
Dials(d) == IF d \in connected THEN {TRUE}
            ELSE CASE mood[d] = "gone" -> {FALSE}
                   [] mood[d] = "failing" -> {TRUE, FALSE}
                   [] OTHER -> {TRUE}
Mute(d) == IF d \in connected THEN {} ELSE {FALSE}
Pings(d) == CASE mood[d] \in {"up", "odd"} -> {TRUE} [] mood[d] = "mute" -> Mute(d) [] OTHER -> {FALSE}
Echoes(d) == CASE mood[d] = "up" -> {TRUE} [] mood[d] = "mute" -> Mute(d) [] OTHER -> {FALSE}

\* An answer came over a connection.
Via(d, ok) == connected' = IF ok THEN connected \cup {d} ELSE connected

BugDrop(d) == discovered' = discovered \ {d} /\ UNCHANGED healthy
Drop(d) == discovered' = discovered \ {d} /\ healthy' = healthy \ {d}
BugMove(d) == healthy' = healthy \cup {d} /\ UNCHANGED discovered
Move(d) == discovered' = discovered \ {d} /\ healthy' = healthy \cup {d}
-----------------------------------------------------------------------------
(* discoverDevice, by a goroutine of DiscoverDevices or by ConnectDevice:  *)
(* from one place to the next.                                             *)

Discover(d, from, to) ==
    /\ from = "discover" /\ to = "connect"
    /\ discovered' = discovered \cup {d}
    /\ UNCHANGED <<healthy, connected>>

Connect(d, from, to) ==
    /\ from = "connect"
    /\ \E ok \in Dials(d) : to = (IF ok THEN "ping" ELSE "drop") /\ Via(d, ok)
    /\ UNCHANGED tables

\* A failed Ping closes the connection.
FirstPing(d, from, to, next) ==
    /\ from = "ping"
    /\ \E ok \in Pings(d) : to = (IF ok THEN next ELSE "drop")
                            /\ connected' = IF ok THEN connected \cup {d} ELSE connected \ {d}
    /\ UNCHANGED tables

GiveUp(d, from, to, next) ==
    /\ from = "drop" /\ to = next
    /\ Drop(d) /\ UNCHANGED connected

Places == {"off", "idle", "discover", "connect", "ping", "drop", "echo", "move", "keep", "end"}

DiscoverDevice(d, from, to, done, failed) ==
    \/ Discover(d, from, to) \/ Connect(d, from, to)
    \/ FirstPing(d, from, to, done) \/ GiveUp(d, from, to, failed)
-----------------------------------------------------------------------------
(* DiscoverDevices.                                                        *)

BugWaited == TRUE
Waited == \A d \in Devs : at[d] = "off"

\* A tick of findTicker, once the last round's goroutines are done.
FindRound ==
    /\ Waited
    /\ found # {} /\ found' = {}
    /\ UNCHANGED <<world, connected, tables, connectedPeers, at, caller, checker>>

SkipExisting(d) == d \in healthy \/ d \in discovered

\* FindPeers yields a peer, maybe one that has gone.  A peer it has found
\* before is let be as long as there is a connection to it.
Found(d) ==
    /\ d \in Peers \ found /\ at[d] = "off"
    /\ found' = found \cup {d}
    /\ IF d \in connectedPeers /\ d \in connected THEN UNCHANGED <<connectedPeers, at>>
       ELSE /\ connectedPeers' = connectedPeers \ {d}
            /\ at' = IF SkipExisting(d) THEN at ELSE [at EXCEPT ![d] = "discover"]
    /\ UNCHANGED <<world, connected, tables, caller, checker>>

FindStep(d) ==
    /\ at[d] # "off"
    /\ \E to \in Places :
         /\ DiscoverDevice(d, at[d], to, "off", "off")
         /\ at' = [at EXCEPT ![d] = to]
         /\ connectedPeers' = IF at[d] = "ping" /\ to = "off" THEN connectedPeers \cup {d}
                              ELSE connectedPeers
    /\ UNCHANGED <<world, found, caller, checker>>
-----------------------------------------------------------------------------
(* ConnectDevice.                                                          *)

ConnectDevice(c) ==
    /\ c \in case.calls /\ call[c] = "idle"
    /\ call' = [call EXCEPT ![c] = IF target[c] \in healthy THEN "end" ELSE "discover"]
    /\ UNCHANGED <<world, connected, tables, finder, target, checker>>

\* healthCheckDevice of a discovered device, from one place to the next.
HealthCheck(d, from, to, next) ==
    \/ /\ from = "echo" /\ UNCHANGED tables
       /\ \E ok \in Echoes(d) : to = (IF ok THEN "move" ELSE "drop") /\ Via(d, ok)
    \/ /\ from = "move" /\ to = next
       /\ Move(d) /\ UNCHANGED connected
    \/ GiveUp(d, from, to, next)

CallStep(c) ==
    /\ \E to \in Places :
         /\ \/ DiscoverDevice(target[c], call[c], to, "echo", "end")
            \/ call[c] # "drop" /\ HealthCheck(target[c], call[c], to, "end")
         /\ call' = [call EXCEPT ![c] = to]
    /\ UNCHANGED <<world, finder, target, checker>>
-----------------------------------------------------------------------------
(* UpdateDevices.                                                          *)

\* A tick of HealthcheckDevices, once the last round's checks are done: the
\* entries are copied.
CheckRound ==
    /\ \A d \in Devs : chkDiscovered[d] = "off" /\ chkHealthy[d] = "off"
    /\ discovered \cup healthy # {}
    /\ chkDiscovered' = [d \in Devs |-> IF d \in discovered THEN "echo" ELSE "off"]
    /\ chkHealthy' = [d \in Devs |-> IF d \in healthy THEN "ping" ELSE "off"]
    /\ UNCHANGED <<world, connected, tables, finder, caller>>

CheckDiscovered(d) ==
    /\ \E to \in Places : HealthCheck(d, chkDiscovered[d], to, "off")
                          /\ chkDiscovered' = [chkDiscovered EXCEPT ![d] = to]
    /\ UNCHANGED <<world, finder, caller, chkHealthy>>

\* The copy is written back, also when the device was removed meanwhile.
CheckHealthy(d) ==
    /\ \E to \in Places :
         /\ \/ /\ chkHealthy[d] = "ping" /\ UNCHANGED tables
               /\ \E ok \in Pings(d) : to = (IF ok THEN "keep" ELSE "drop") /\ Via(d, ok)
            \/ /\ chkHealthy[d] = "keep" /\ to = "off"
               /\ healthy' = healthy \cup {d} /\ UNCHANGED <<discovered, connected>>
            \/ GiveUp(d, chkHealthy[d], to, "off")
         /\ chkHealthy' = [chkHealthy EXCEPT ![d] = to]
    /\ UNCHANGED <<world, finder, caller, chkDiscovered>>
-----------------------------------------------------------------------------
Next ==
    \/ \E d \in Devs : Turn(d) \/ Disconnected(d) \/ Found(d) \/ FindStep(d)
                       \/ CheckDiscovered(d) \/ CheckHealthy(d)
    \/ FindRound \/ CheckRound
    \/ \E c \in Callers : ConnectDevice(c) \/ CallStep(c)

Spec == Init /\ [][Next]_vars

(***************************************************************************)
(* Both loops go on, a peer that runs is found again and again, libp2p     *)
(* notices that one is gone, and what waits for the network gets the       *)
(* answer, unless the peer is mute: no call here has a timeout of its own  *)
(* once it is connected.                                                   *)
(***************************************************************************)
FairSpec ==
    /\ Spec
    /\ WF_vars(FindRound) /\ WF_vars(CheckRound)
    /\ \A d \in Devs : /\ SF_vars(mood[d] # "gone" /\ Found(d)) /\ WF_vars(FindStep(d))
                       /\ WF_vars(CheckDiscovered(d)) /\ WF_vars(CheckHealthy(d))
                       /\ WF_vars(mood[d] = "gone" /\ Disconnected(d))
    /\ \A c \in Callers : WF_vars(CallStep(c))
-----------------------------------------------------------------------------
\* Types; goroutines of DiscoverDevices work for the present round.
TypeOK ==
    /\ mood \in [Devs -> AllMoods] /\ turns \in 0..case.turns
    /\ connected \subseteq Devs /\ discovered \subseteq Devs /\ healthy \subseteq Devs
    /\ found \subseteq Devs /\ connectedPeers \subseteq Devs
    /\ at \in [Devs -> {"off", "discover", "connect", "ping", "drop"}]
    /\ \A d \in Devs : at[d] # "off" => d \in found
    /\ call \in [Callers -> {"idle", "discover", "connect", "ping", "drop", "echo", "move", "end"}]
    /\ target \in [Callers -> Devs]
    /\ chkDiscovered \in [Devs -> {"off", "echo", "move", "drop"}]
    /\ chkHealthy \in [Devs -> {"off", "ping", "keep", "drop"}]

NobodyMute == \A d \in Devs : mood[d] # "mute"

(***************************************************************************)
(* A peer that runs and answers gets to be a healthy device and nothing    *)
(* else, whatever it did before and whichever goroutines met on it; but    *)
(* one that DiscoverDevices had connected to and a health check has        *)
(* removed stays out of the tables as long as that connection holds.  And  *)
(* one mute peer keeps all others from being checked.                      *)
(***************************************************************************)
Forgotten(d) == d \in connectedPeers /\ d \in connected /\ d \notin discovered

ComesBack ==
    <>[]NobodyMute =>
    \A d \in Devs : <>[](mood[d] = "up" => IF d \in healthy THEN d \notin discovered
                                           ELSE Forgotten(d))

(***************************************************************************)
(* A peer that has gone for good is not among the healthy devices in the   *)
(* end, though checks write back entries they took earlier; and it is not  *)
(* in discoveredDevices for good.                                          *)
(***************************************************************************)
GhostsGo ==
    <>[]NobodyMute =>
    \A d \in Devs : <>[](mood[d] = "gone" => d \notin healthy)
                    /\ []<>(mood[d] = "gone" => d \notin discovered)
=============================================================================
