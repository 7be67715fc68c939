---------------------------- MODULE DevicesProofs ----------------------------
(***************************************************************************)
(* What holds of the tables of devices for every set of peers and calls:   *)
(* the type invariant, with its part on the rounds of DiscoverDevices.     *)
(* The proof follows one goroutine's step from place to place, once for    *)
(* each of the operations two of the actors share.                         *)
(***************************************************************************)
EXTENDS Devices, TLAPS

WorldTypes ==
    /\ case \in Cases
    /\ mood \in [Devs -> AllMoods] /\ turns \in 0..case.turns

TableTypes == connected \subseteq Devs /\ discovered \subseteq Devs /\ healthy \subseteq Devs

FinderTypes ==
    /\ found \subseteq Devs /\ connectedPeers \subseteq Devs
    /\ at \in [Devs -> {"off", "discover", "connect", "ping", "drop"}]

\* A goroutine of DiscoverDevices works for the round that found its peer.
ThisRound == \A d \in Devs : at[d] # "off" => d \in found

CallTypes ==
    /\ call \in [Callers -> {"idle", "discover", "connect", "ping", "drop", "echo", "move", "end"}]
    /\ target \in [Callers -> Devs]

CheckTypes ==
    /\ chkDiscovered \in [Devs -> {"off", "echo", "move", "drop"}]
    /\ chkHealthy \in [Devs -> {"off", "ping", "keep", "drop"}]

Inv == WorldTypes /\ TableTypes /\ FinderTypes /\ ThisRound /\ CallTypes /\ CheckTypes

-----------------------------------------------------------------------------
(* The shared operations: where they lead, and that the tables stay tables *)
(* of peers.                                                               *)

\* discoverDevice goes on to the connection, the Ping, the removal, or to
\* where its caller sends it.
LEMMA DiscoverLeads ==
    ASSUME NEW d \in Devs, NEW from, NEW to, NEW done, NEW failed, TableTypes,
           DiscoverDevice(d, from, to, done, failed)
    PROVE  /\ TableTypes'
           /\ from \in {"discover", "connect", "ping", "drop"}
           /\ to \in {"connect", "ping", "drop", done, failed}
<1>1. CASE Discover(d, from, to)
  BY <1>1 DEF Discover, TableTypes
<1>2. CASE Connect(d, from, to)
  <2>1. from = "connect" /\ to \in {"ping", "drop"}
    BY <1>2 DEF Connect
  <2>2. connected' \in {connected, connected \cup {d}} /\ UNCHANGED tables
    BY <1>2 DEF Connect, Via
  <2>. QED BY <2>1, <2>2 DEF TableTypes, tables
<1>3. CASE FirstPing(d, from, to, done)
  <2>1. from = "ping" /\ to \in {done, "drop"}
    BY <1>3 DEF FirstPing
  <2>2. connected' \in {connected \ {d}, connected \cup {d}} /\ UNCHANGED tables
    BY <1>3 DEF FirstPing
  <2>. QED BY <2>1, <2>2 DEF TableTypes, tables
<1>4. CASE GiveUp(d, from, to, failed)
  BY <1>4 DEF GiveUp, Drop, TableTypes
<1>. QED BY <1>1, <1>2, <1>3, <1>4 DEF DiscoverDevice

\* healthCheckDevice goes on to the move, the removal, or to its end.
LEMMA HealthLeads ==
    ASSUME NEW d \in Devs, NEW from, NEW to, NEW next, TableTypes,
           HealthCheck(d, from, to, next)
    PROVE  TableTypes' /\ to \in {"move", "drop", next}
<1>1. CASE from = "echo" /\ UNCHANGED tables
           /\ \E ok \in Echoes(d) : to = (IF ok THEN "move" ELSE "drop") /\ Via(d, ok)
  <2>1. to \in {"move", "drop"} /\ connected' \in {connected, connected \cup {d}}
    BY <1>1 DEF Via
  <2>. QED BY <1>1, <2>1 DEF TableTypes, tables
<1>2. CASE from = "move" /\ to = next /\ Move(d) /\ UNCHANGED connected
  BY <1>2 DEF Move, TableTypes
<1>3. CASE GiveUp(d, from, to, next)
  BY <1>3 DEF GiveUp, Drop, TableTypes
<1>. QED BY <1>1, <1>2, <1>3 DEF HealthCheck

-----------------------------------------------------------------------------
\* The peers of a case are peers.
LEMMA CaseTyped ==
    ASSUME NEW c \in Cases
    PROVE  c.moods \in [Devs -> SUBSET AllMoods] /\ c.turns \in Nat
BY DevicesAssumption

LEMMA InitInv == Init => Inv
<1>. SUFFICES ASSUME Init PROVE Inv
  OBVIOUS
<1>1. WorldTypes
  <2>1. case \in Cases /\ turns = 0 /\ case.turns \in Nat
    BY CaseTyped DEF Init
  <2>2. mood \in [Devs -> AllMoods]
    BY DEF Init
  <2>. QED BY <2>1, <2>2 DEF WorldTypes
<1>2. TableTypes /\ CheckTypes
  BY DEF Init, TableTypes, CheckTypes
<1>3. FinderTypes /\ ThisRound
  BY DEF Init, FinderTypes, ThisRound
<1>4. CallTypes
  <2>1. Peers \subseteq Devs
    BY DEF Peers
  <2>. QED BY <2>1 DEF Init, CallTypes
<1>. QED BY <1>1, <1>2, <1>3, <1>4 DEF Inv

LEMMA TurnKept ==
    ASSUME Inv, NEW d \in Devs, Turn(d)
    PROVE  Inv'
<1>1. PICK m \in case.moods[d] \ {mood[d]} : mood' = [mood EXCEPT ![d] = m]
  BY DEF Turn
<1>2. m \in AllMoods
  BY CaseTyped DEF Inv, WorldTypes
<1>3. WorldTypes'
  <2>1. case' = case /\ turns' = turns + 1 /\ turns < case.turns
    BY DEF Turn
  <2>2. case.turns \in Nat /\ turns \in 0..case.turns
    BY CaseTyped DEF Inv, WorldTypes
  <2>3. turns' \in 0..case'.turns
    BY <2>1, <2>2
  <2>4. mood' \in [Devs -> AllMoods]
    BY <1>1, <1>2 DEF Inv, WorldTypes
  <2>. QED BY <2>1, <2>3, <2>4 DEF Inv, WorldTypes
<1>4. TableTypes'
  BY DEF Turn, tables, Inv, TableTypes
<1>5. (FinderTypes /\ ThisRound /\ CallTypes /\ CheckTypes)'
  BY DEF Turn, finder, caller, checker, Inv, FinderTypes, ThisRound, CallTypes, CheckTypes
<1>. QED BY <1>3, <1>4, <1>5 DEF Inv

LEMMA DisconnectedKept ==
    ASSUME Inv, NEW d \in Devs, Disconnected(d)
    PROVE  Inv'
BY DEF Disconnected, world, tables, finder, caller, checker, Inv, WorldTypes, TableTypes,
       FinderTypes, ThisRound, CallTypes, CheckTypes

\* A new round starts only when no goroutine of the last one is left, so
\* none is without its peer when found is emptied.
LEMMA FindRoundKept ==
    ASSUME Inv, FindRound
    PROVE  Inv'
<1>1. \A d \in Devs : at[d] = "off"
  BY DEF FindRound, Waited
<1>2. (FinderTypes /\ ThisRound)'
  BY <1>1 DEF FindRound, Inv, FinderTypes, ThisRound
<1>. QED BY <1>2 DEF FindRound, world, tables, caller, checker, Inv, WorldTypes, TableTypes,
                      CallTypes, CheckTypes

LEMMA FoundKept ==
    ASSUME Inv, NEW d \in Devs, Found(d)
    PROVE  Inv'
<1>1. found' = found \cup {d} /\ connectedPeers' \in {connectedPeers, connectedPeers \ {d}}
      /\ at' \in {at, [at EXCEPT ![d] = "discover"]}
  BY DEF Found
<1>2. (FinderTypes /\ ThisRound)'
  BY <1>1 DEF Inv, FinderTypes, ThisRound
<1>. QED BY <1>2 DEF Found, world, tables, caller, checker, Inv, WorldTypes, TableTypes,
                      CallTypes, CheckTypes

LEMMA FindStepKept ==
    ASSUME Inv, NEW d \in Devs, FindStep(d)
    PROVE  Inv'
<1>1. PICK to \in Places :
         /\ DiscoverDevice(d, at[d], to, "off", "off")
         /\ at' = [at EXCEPT ![d] = to]
         /\ connectedPeers' = IF at[d] = "ping" /\ to = "off" THEN connectedPeers \cup {d}
                              ELSE connectedPeers
  BY DEF FindStep
<1>2. TableTypes' /\ to \in {"connect", "ping", "drop", "off"}
  BY <1>1, DiscoverLeads DEF Inv
<1>3. found' = found /\ d \in found
  BY DEF FindStep, Inv, ThisRound
<1>4. connectedPeers' \in {connectedPeers, connectedPeers \cup {d}}
  BY <1>1
<1>5. (FinderTypes /\ ThisRound)'
  BY <1>1, <1>2, <1>3, <1>4 DEF Inv, FinderTypes, ThisRound
<1>. QED BY <1>2, <1>5 DEF FindStep, world, caller, checker, Inv, WorldTypes, CallTypes, CheckTypes

LEMMA ConnectDeviceKept ==
    ASSUME Inv, NEW c \in Callers, ConnectDevice(c)
    PROVE  Inv'
<1>1. PICK to \in {"end", "discover"} : call' = [call EXCEPT ![c] = to]
  BY DEF ConnectDevice
<1>2. CallTypes'
  BY <1>1 DEF ConnectDevice, Inv, CallTypes
<1>. QED BY <1>2 DEF ConnectDevice, world, tables, finder, checker, Inv, WorldTypes, TableTypes,
                      FinderTypes, ThisRound, CheckTypes

LEMMA CallStepKept ==
    ASSUME Inv, NEW c \in Callers, CallStep(c)
    PROVE  Inv'
<1>1. PICK to \in Places :
         /\ \/ DiscoverDevice(target[c], call[c], to, "echo", "end")
            \/ call[c] # "drop" /\ HealthCheck(target[c], call[c], to, "end")
         /\ call' = [call EXCEPT ![c] = to]
  BY DEF CallStep
<1>2. target[c] \in Devs
  BY DEF Inv, CallTypes
<1>3. TableTypes' /\ to \in {"connect", "ping", "drop", "echo", "move", "end"}
  <2>1. CASE DiscoverDevice(target[c], call[c], to, "echo", "end")
    BY <1>2, <2>1, DiscoverLeads DEF Inv
  <2>2. CASE HealthCheck(target[c], call[c], to, "end")
    BY <1>2, <2>2, HealthLeads DEF Inv
  <2>. QED BY <1>1, <2>1, <2>2
<1>4. CallTypes'
  BY <1>1, <1>3 DEF CallStep, Inv, CallTypes
<1>. QED BY <1>3, <1>4 DEF CallStep, world, finder, checker, Inv, WorldTypes, FinderTypes,
                            ThisRound, CheckTypes

LEMMA CheckRoundKept ==
    ASSUME Inv, CheckRound
    PROVE  Inv'
<1>1. CheckTypes'
  BY DEF CheckRound, CheckTypes
<1>. QED BY <1>1 DEF CheckRound, world, tables, finder, caller, Inv, WorldTypes, TableTypes,
                      FinderTypes, ThisRound, CallTypes

LEMMA CheckDiscoveredKept ==
    ASSUME Inv, NEW d \in Devs, CheckDiscovered(d)
    PROVE  Inv'
<1>1. PICK to \in Places : HealthCheck(d, chkDiscovered[d], to, "off")
                           /\ chkDiscovered' = [chkDiscovered EXCEPT ![d] = to]
  BY DEF CheckDiscovered
<1>2. TableTypes' /\ to \in {"move", "drop", "off"}
  BY <1>1, HealthLeads DEF Inv
<1>3. CheckTypes'
  BY <1>1, <1>2 DEF CheckDiscovered, Inv, CheckTypes
<1>. QED BY <1>2, <1>3 DEF CheckDiscovered, world, finder, caller, Inv, WorldTypes, FinderTypes,
                            ThisRound, CallTypes

\* What is written back is the entry of a peer, removed meanwhile or not.
LEMMA CheckHealthyKept ==
    ASSUME Inv, NEW d \in Devs, CheckHealthy(d)
    PROVE  Inv'
<1>1. PICK to \in Places :
         /\ \/ /\ chkHealthy[d] = "ping" /\ UNCHANGED tables
               /\ \E ok \in Pings(d) : to = (IF ok THEN "keep" ELSE "drop") /\ Via(d, ok)
            \/ /\ chkHealthy[d] = "keep" /\ to = "off"
               /\ healthy' = healthy \cup {d} /\ UNCHANGED <<discovered, connected>>
            \/ GiveUp(d, chkHealthy[d], to, "off")
         /\ chkHealthy' = [chkHealthy EXCEPT ![d] = to]
  BY DEF CheckHealthy
<1>2. TableTypes' /\ to \in {"keep", "drop", "off"}
  <2>1. CASE chkHealthy[d] = "ping" /\ UNCHANGED tables
             /\ \E ok \in Pings(d) : to = (IF ok THEN "keep" ELSE "drop") /\ Via(d, ok)
    <3>1. to \in {"keep", "drop"} /\ connected' \in {connected, connected \cup {d}}
      BY <2>1 DEF Via
    <3>. QED BY <2>1, <3>1 DEF Inv, TableTypes, tables
  <2>2. CASE to = "off" /\ healthy' = healthy \cup {d} /\ UNCHANGED <<discovered, connected>>
    BY <2>2 DEF Inv, TableTypes
  <2>3. CASE GiveUp(d, chkHealthy[d], to, "off")
    BY <2>3 DEF GiveUp, Drop, Inv, TableTypes
  <2>. QED BY <1>1, <2>1, <2>2, <2>3
<1>3. CheckTypes'
  BY <1>1, <1>2 DEF CheckHealthy, Inv, CheckTypes
<1>. QED BY <1>2, <1>3 DEF CheckHealthy, world, finder, caller, Inv, WorldTypes, FinderTypes,
                            ThisRound, CallTypes

-----------------------------------------------------------------------------
LEMMA StutterKept ==
    ASSUME Inv, UNCHANGED vars
    PROVE  Inv'
BY DEF vars, world, tables, finder, caller, checker, Inv, WorldTypes, TableTypes,
       FinderTypes, ThisRound, CallTypes, CheckTypes

\* Every reachable state is typed, and every goroutine of DiscoverDevices
\* belongs to the round that is under way.
THEOREM DevicesInv == Spec => []Inv
<1>1. Init => Inv
  BY InitInv
<1>2. Inv /\ [Next]_vars => Inv'
  <2>. SUFFICES ASSUME Inv, [Next]_vars PROVE Inv'
    OBVIOUS
  <2>1. ASSUME NEW d \in Devs,
               Turn(d) \/ Disconnected(d) \/ Found(d) \/ FindStep(d)
               \/ CheckDiscovered(d) \/ CheckHealthy(d)
        PROVE  Inv'
    BY <2>1, TurnKept, DisconnectedKept, FoundKept, FindStepKept, CheckDiscoveredKept,
       CheckHealthyKept
  <2>2. CASE FindRound
    BY <2>2, FindRoundKept
  <2>3. CASE CheckRound
    BY <2>3, CheckRoundKept
  <2>4. ASSUME NEW c \in Callers, ConnectDevice(c) \/ CallStep(c)
        PROVE  Inv'
    BY <2>4, ConnectDeviceKept, CallStepKept
  <2>5. CASE UNCHANGED vars
    BY <2>5, StutterKept
  <2>. QED BY <2>1, <2>2, <2>3, <2>4, <2>5 DEF Next
<1>. QED BY <1>1, <1>2, PTL DEF Spec

\* The type invariant of the runs: the tables hold peers only, whoever writes
\* an entry back, and FindRound never takes the round away from a goroutine.
THEOREM DevicesTypeCorrect == Spec => []TypeOK
<1>1. Inv => TypeOK
  BY DEF Inv, WorldTypes, TableTypes, FinderTypes, ThisRound, CallTypes, CheckTypes, TypeOK
<1>. QED BY <1>1, DevicesInv, PTL
=============================================================================
