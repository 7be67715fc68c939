------------------------- MODULE MultiplexerProofs -------------------------
(***************************************************************************)
(* Proofs about Multiplexer, for any workers, number of stream IDs, number *)
(* of streams, capacity and traffic.                                       *)
(***************************************************************************)
EXTENDS Multiplexer, SequenceTheorems, FiniteSetTheorems, TLAPS

Owners == Tasks \cup {None}
Records == {s \in [id : Ids, q : Seq({"data", "eof"}), rclosed : BOOLEAN, told : BOOLEAN,
                   sclosed : BOOLEAN, wclosed : BOOLEAN, sMu : Owners, swMu : Owners] :
              Len(s.q) <= Cap}
Workers == [pc : PCs, at : Nat \ {0}, id : Ids, todo : SUBSET Nat, back : {"idle", "mNext", "gOpen"}]
Frames == [id : Ids, kind : {"data", "eof", "bad"}]
Parts == [part : {"header", "payload", "eof"}, id : Ids]

(***************************************************************************)
(* The inductive invariant, in parts.                                      *)
(***************************************************************************)
StreamTypes == obj \in Seq(Records) /\ 1 \in Objs

MapTypes ==
    /\ streams \in [Ids -> Nat \cup {None}] /\ nextID \in Ids /\ closed \in BOOLEAN
    /\ \A id \in Ids : Live(id) => streams[id] \in Objs /\ obj[streams[id]].id = id

TaskTypes ==
    /\ task \in [Tasks -> Workers]
    /\ \A t \in Tasks : /\ at(t) \in Objs /\ task[t].todo \subseteq Objs
                        /\ pc(t) = "gRemove" => task[t].id # 0

LoopTypes ==
    /\ rl \in {"header", "data", "deliver", "notify", "done"} /\ frame \in Frames
    /\ rlObj \in Objs /\ (rl = "deliver" => frame.kind # "bad")

WireTypes == out \in Seq(Parts) /\ writeMu \in Owners /\ conn \in {"up", "down"}

\* A Write holds its stream's lock until its frame is out.
Writing(t) == pc(t) \in {"wLock", "wBody"}
Locked == \A t \in Tasks : Writing(t) => obj[at(t)].swMu = t /\ ~obj[at(t)].wclosed

\* Between header and payload of a frame nobody else has writeMu.
HeaderOf(t) == [part |-> "header", id |-> obj[at(t)].id]
Framing ==
    /\ \A t \in Tasks : pc(t) = "wBody" <=> writeMu = t
    /\ \A t \in Tasks : pc(t) = "wBody" => out # <<>> /\ out[Len(out)] = HeaderOf(t)
    /\ writeMu = None /\ conn = "up" /\ out # <<>> => out[Len(out)].part # "header"

\* No stream is created once readLoop has failed.
Telling == (rl \in {"notify", "done"} => closed) /\ EveryStreamTold

Inv == /\ StreamTypes /\ MapTypes /\ TaskTypes /\ LoopTypes /\ WireTypes
       /\ ControlKept /\ Locked /\ Framing /\ FramesIntact /\ Telling
-----------------------------------------------------------------------------
(* Least elements.                                                         *)

\* Every set of naturals that is not empty has a least element: among the
\* intervals from 0 to its elements one contains no other.
LEMMA LeastExists ==
    ASSUME NEW S \in SUBSET Nat, NEW n \in S
    PROVE  \E x \in S : \A y \in S : x <= y
  <1> DEFINE Upto == {0..k : k \in S \cap 0..n}
  <1>1. Upto \subseteq FiniteSubsetsOf(0..n) /\ Upto # {}
    <2>1. IsFiniteSet(0..n)
      BY FS_Interval
    <2>2. FiniteSubsetsOf(0..n) = SUBSET (0..n)
      BY <2>1, FS_FiniteSubsetsOfFinite
    <2> QED
      BY <2>2
  <1>2. PICK I \in Upto : \A J \in Upto : <<J, I>> \notin StrictSubsetOrdering(0..n)
    <2> HIDE DEF Upto
    <2> QED
      BY <1>1, FS_StrictSubsetOrderingWellFounded, WFMin, Zenon
  <1>3. PICK x \in S \cap 0..n : I = 0..x
    OBVIOUS
  <1>4. ASSUME NEW y \in S, y < x PROVE FALSE
    <2>1. 0..y \in Upto
      BY <1>4
    <2>2. 0..y \subseteq 0..x /\ 0..y # 0..x
      <3>1. x \in 0..x /\ x \notin 0..y
        BY <1>4
      <3> QED
        BY <1>4, <3>1
    <2>3. 0..y \in SUBSET (0..n) /\ 0..x \in SUBSET (0..n)
      BY <1>4
    <2> QED
      BY <1>2, <1>3, <2>1, <2>2, <2>3 DEF StrictSubsetOrdering
  <1> QED
    BY <1>3, <1>4

LEMMA HasMin ==
    ASSUME NEW S \in SUBSET Nat, S # {}
    PROVE  Min(S) \in S
  <1>2. \E x \in S : \A y \in S : x <= y
    BY LeastExists
  <1> QED
    BY <1>2, Zenon DEF Min
-----------------------------------------------------------------------------
(* What the steps have in common.                                          *)

\* Streams are never destroyed; IDs stay, and what was told is not taken back.
Grows ==
    /\ obj' \in Seq(Records) /\ Len(obj') >= Len(obj)
    /\ \A o \in Objs : obj'[o].id = obj[o].id /\ (obj[o].told => obj'[o].told)

WritersKept ==
    \A o \in Objs : obj'[o].swMu = obj[o].swMu /\ obj'[o].wclosed = obj[o].wclosed

\* Worker t moves, and the others do not.
Moves(t) ==
    /\ task' = [task EXCEPT ![t] = task'[t]] /\ task'[t] \in Workers
    /\ task'[t].at \in Objs' /\ task'[t].todo \subseteq Objs'
    /\ task'[t].pc = "gRemove" => task'[t].id # 0

\* ... neither from a Write nor to one.
Quiet(t) == Moves(t) /\ ~Writing(t) /\ task'[t].pc \notin {"wLock", "wBody"}

LEMMA Same ==
    ASSUME StreamTypes, obj' = obj
    PROVE  Grows /\ WritersKept
  BY DEF StreamTypes, Grows, WritersKept, Objs

LEMMA Appended ==
    ASSUME StreamTypes, NEW id \in Ids, obj' = Append(obj, NewStream(id))
    PROVE  /\ Grows /\ WritersKept
           /\ Len(obj') = Len(obj) + 1 /\ obj'[Len(obj) + 1].id = id
           /\ obj'[Len(obj) + 1].told = FALSE
  <1>1. NewStream(id) \in Records
    BY MuxAssumption DEF NewStream, Records, Owners
  <1>2. NewStream(id).id = id /\ NewStream(id).told = FALSE
    BY DEF NewStream
  <1>3. obj \in Seq(Records)
    BY DEF StreamTypes
  <1>4. obj' \in Seq(Records) /\ Len(obj') = Len(obj) + 1 /\ obj'[Len(obj) + 1] = NewStream(id)
    BY <1>1, <1>3
  <1>5. \A o \in Objs : obj'[o] = obj[o]
    BY <1>1, <1>3 DEF Objs
  <1>6. Len(obj) \in Nat /\ Len(obj') >= Len(obj)
    BY <1>3, <1>4
  <1>7. Grows
    BY <1>4, <1>5, <1>6 DEF Grows
  <1>8. WritersKept
    BY <1>5 DEF WritersKept
  <1> QED
    BY <1>2, <1>4, <1>7, <1>8

LEMMA Updated ==
    ASSUME StreamTypes, NEW o \in Objs, NEW s \in Records,
           s.id = obj[o].id, obj[o].told => s.told, obj' = [obj EXCEPT ![o] = s]
    PROVE  /\ Grows /\ Len(obj') = Len(obj) /\ obj'[o] = s
           /\ \A p \in Objs : p # o => obj'[p] = obj[p]
  <1>1. obj \in Seq(Records) /\ o \in 1..Len(obj)
    BY DEF StreamTypes, Objs
  <1>2. /\ obj' \in Seq(Records) /\ Len(obj') = Len(obj) /\ obj'[o] = s
        /\ \A p \in Objs : p # o => obj'[p] = obj[p]
    BY <1>1 DEF Objs
  <1>3. Len(obj) \in Nat
    BY <1>1
  <1> QED
    BY <1>2, <1>3 DEF Grows

-----------------------------------------------------------------------------
(* What each kind of step does to streams and workers.                     *)

LEMMA CreateEffect ==
    ASSUME StreamTypes, NEW id \in Ids, Create(id)
    PROVE  /\ Grows /\ WritersKept /\ Len(obj') = Len(obj) + 1
           /\ obj'[Len(obj) + 1].id = id /\ streams' = [streams EXCEPT ![id] = Len(obj) + 1]
  BY Appended DEF Create

\* The ID OpenStream finds is free, and so is not 0.
LEMMA OpenEffect ==
    ASSUME Inv, OpenStream \/ \E id \in Ids : OpenStreamWithID(id)
    PROVE  /\ ~closed /\ nextID' \in Ids
           /\ \E id \in Ids : id # 0 /\ ~Live(id) /\ Create(id)
           /\ UNCHANGED <<closed, conn, wire, task, rloop, returned>>
  <1> USE DEF Inv
  <1>1. nextID \in Nat /\ nextID <= MaxID /\ MaxID \in Nat /\ MaxID > 0
    BY MuxAssumption DEF MapTypes, Ids
  <1>2. \A id \in Ids : After(id) \in Ids
    BY <1>1 DEF After, Ids
  <1>3. Live(0)
    BY MuxAssumption DEF ControlKept, Live
  <1>4. CASE OpenStream
    <2> DEFINE Free == {k \in Ids : ~Live(Probe(k))}
    <2>1. FreeRound \in Free
      BY <1>4, HasMin DEF OpenStream, FreeRound, Ids
    <2>2. Probe(FreeRound) \in Ids /\ ~Live(Probe(FreeRound))
      <3> HIDE DEF FreeRound
      <3>1. FreeRound \in Nat /\ ~Live(Probe(FreeRound))
        BY <2>1 DEF Ids
      <3>2. Probe(FreeRound) \in 0..MaxID
        BY <1>1, <3>1 DEF Probe
      <3> QED
        BY <3>1, <3>2 DEF Ids
    <2>3. Probe(FreeRound) # 0
      BY <1>3, <2>2
    <2> QED
      BY <1>2, <1>4, <2>2, <2>3 DEF OpenStream
  <1>5. CASE \E id \in Ids : OpenStreamWithID(id)
    <2>1. PICK id \in Ids : OpenStreamWithID(id)
      BY <1>5
    <2> QED
      BY <1>2, <2>1 DEF OpenStreamWithID, OpenWithID, MapTypes
  <1> QED
    BY <1>4, <1>5

\* Stream.Close of stream o, by a worker that is not writing.
LEMMA CloseBeginEffect ==
    ASSUME StreamTypes, TaskTypes, closed \in BOOLEAN, NEW t \in Tasks, NEW o \in Objs,
           NEW rest \in SUBSET Objs, NEW then \in {"idle", "mNext", "gOpen"},
           CloseBegin(t, o, rest, then), ~Writing(t)
    PROVE  Grows /\ WritersKept /\ Quiet(t) /\ Len(obj') = Len(obj)
  <1>1. obj \in Seq(Records) /\ obj[o] \in Records /\ Len(obj) \in Nat /\ 1 \in Objs
    BY DEF StreamTypes, Objs
  <1>2. task[t] \in Workers /\ task \in [Tasks -> Workers] /\ task[t].todo \subseteq Objs
    BY DEF TaskTypes
  <1>3. rest \in SUBSET Nat /\ o \in Nat \ {0}
    BY <1>1 DEF Objs
  <1>4. Idle \in Workers /\ Idle.pc = "idle" /\ Idle.at = 1 /\ Idle.todo = {}
    BY MuxAssumption DEF Idle, Workers, PCs, Ids
  <1>5. CASE obj[o].sclosed
    <2>1. obj' = obj
      BY <1>5 DEF CloseBegin
    <2>2. PICK w : /\ task' = [task EXCEPT ![t] = w]
                   /\ w = Idle \/ w = [task[t] EXCEPT !.pc = then, !.todo = rest]
      BY <1>5 DEF CloseBegin, Set
    <2>3. /\ w \in Workers /\ w.pc \in {"idle", "mNext", "gOpen"}
          /\ w.at \in Objs /\ w.todo \subseteq Objs
      <3>1. CASE w = Idle
        BY <1>1, <1>4, <3>1
      <3>2. CASE w = [task[t] EXCEPT !.pc = then, !.todo = rest]
        <4>1. w \in Workers
          BY <1>2, <1>3, <3>2 DEF Workers, PCs
        <4>2. w.pc = then /\ w.todo = rest /\ w.at = at(t)
          BY <1>2, <3>2 DEF Workers, at
        <4> QED
          BY <4>1, <4>2 DEF TaskTypes
      <3> QED
        BY <2>2, <3>1, <3>2
    <2>4. task'[t] = w
      BY <1>2, <2>2
    <2> QED
      BY <2>1, <2>2, <2>3, <2>4, Same DEF Quiet, Moves, Objs
  <1>6. CASE ~obj[o].sclosed
    <2>1. PICK s : /\ obj' = [obj EXCEPT ![o] = s]
                   /\ s = [obj[o] EXCEPT !.sMu = t, !.sclosed = TRUE,
                                         !.rclosed = TRUE, !.told = TRUE]
      BY <1>1, <1>6 DEF CloseBegin, Objs
    <2>2. /\ s \in Records /\ s.id = obj[o].id /\ s.told
          /\ s.swMu = obj[o].swMu /\ s.wclosed = obj[o].wclosed
      BY <1>1, <2>1 DEF Records, Owners
    <2>3. /\ Grows /\ Len(obj') = Len(obj) /\ obj'[o] = s
          /\ \A p \in Objs : p # o => obj'[p] = obj[p]
      BY <2>1, <2>2, Updated
    <2>8. WritersKept
      BY <2>2, <2>3 DEF WritersKept
    <2>4. PICK p \in {"cMark", "cEof"} :
             task' = [task EXCEPT ![t] = [task[t] EXCEPT !.pc = p, !.at = o, !.todo = rest,
                                                         !.back = then]]
      BY <1>6 DEF CloseBegin, Set
    <2>5. PICK w : w = [task[t] EXCEPT !.pc = p, !.at = o, !.todo = rest, !.back = then]
      OBVIOUS
    <2>6. w \in Workers /\ w.pc = p /\ w.at = o /\ w.todo = rest
      BY <1>2, <1>3, <2>5 DEF Workers, PCs
    <2>7. task' = [task EXCEPT ![t] = w] /\ task'[t] = w
      BY <1>2, <2>4, <2>5
    <2> QED
      BY <2>3, <2>6, <2>7, <2>8 DEF Quiet, Moves, Objs
  <1> QED
    BY <1>5, <1>6

LEMMA CloseEffect ==
    ASSUME Inv, NEW t \in Tasks,
           \/ \E o \in Objs : StreamClose(t, o)
           \/ CloseNext(t)
           \/ MuxCloseNext(t)
    PROVE  /\ Grows /\ WritersKept /\ Quiet(t)
           /\ UNCHANGED <<map, closed, conn, wire, rloop>>
  <1> USE DEF Inv
  <1>1. closed \in BOOLEAN
    BY DEF MapTypes
  <1>2. CASE \E o \in Objs : StreamClose(t, o)
    BY <1>1, <1>2, CloseBeginEffect DEF StreamClose, Writing, wire
  <1>3. CASE CloseNext(t)
    <2>1. at(t) \in Objs /\ task[t].back \in {"idle", "mNext", "gOpen"}
      BY DEF TaskTypes, Workers
    <2> QED
      BY <1>1, <1>3, <2>1, CloseBeginEffect DEF CloseNext, Writing, wire
  <1>4. CASE MuxCloseNext(t)
    <2>1. task[t].todo \subseteq Objs
      BY DEF TaskTypes
    <2> QED
      BY <1>1, <1>4, <2>1, CloseBeginEffect DEF MuxCloseNext, Writing, wire
  <1> QED
    BY <1>2, <1>3, <1>4

LEMMA IdleType == Idle \in Workers /\ Idle.pc = "idle" /\ Idle.at = 1 /\ Idle.todo = {}
  BY MuxAssumption DEF Idle, Workers, PCs, Ids

LEMMA MovesTo ==
    ASSUME TaskTypes, StreamTypes, NEW t \in Tasks, NEW w \in Workers,
           task' = [task EXCEPT ![t] = w], w.at \in Objs, w.todo \subseteq Objs,
           w.pc = "gRemove" => w.id # 0, obj' = obj
    PROVE  Moves(t) /\ task'[t] = w
  <1>1. task'[t] = w
    BY DEF TaskTypes
  <1>2. Objs' = Objs
    BY DEF Objs
  <1>3. task'[t].at \in Objs' /\ task'[t].todo \subseteq Objs'
    BY <1>1, <1>2
  <1> QED
    BY <1>1, <1>3 DEF Moves

\* A worker that only goes to another place.
LEMMA GoEffect ==
    ASSUME StreamTypes, TaskTypes, NEW t \in Tasks, obj' = obj,
           NEW where \in PCs \ {"gRemove"}, Go(t, where)
    PROVE  Moves(t) /\ task'[t].pc = where
  <1>1. task \in [Tasks -> Workers] /\ task[t] \in Workers
        /\ at(t) \in Objs /\ task[t].todo \subseteq Objs /\ 1 \in Objs
    BY DEF TaskTypes, StreamTypes
  <1>2. PICK w : w = IF where = "idle" THEN Idle ELSE [task[t] EXCEPT !.pc = where]
    OBVIOUS
  <1>3. task' = [task EXCEPT ![t] = w] /\ task'[t] = w
    BY <1>1, <1>2 DEF Go, Set
  <1>4. w \in Workers /\ w.pc = where /\ w.at \in Objs /\ w.todo \subseteq Objs
    <2>1. CASE where = "idle"
      BY <1>1, <1>2, <2>1, IdleType
    <2>2. CASE where # "idle"
      <3>1. w = [task[t] EXCEPT !.pc = where]
        BY <1>2, <2>2
      <3>2. w \in Workers
        BY <1>1, <3>1 DEF Workers
      <3>3. w.pc = where /\ w.at = at(t) /\ w.todo = task[t].todo
        BY <1>1, <3>1 DEF Workers, at
      <3> QED
        BY <1>1, <3>2, <3>3
    <2> QED
      BY <2>1, <2>2
  <1> QED
    BY <1>3, <1>4, MovesTo

LEMMA WriteEffect ==
    ASSUME StreamTypes, TaskTypes, NEW t \in Tasks, NEW o \in Objs, Write(t, o)
    PROVE  /\ Grows /\ Moves(t) /\ ~Writing(t) /\ obj[o].swMu = None
           /\ task'[t].pc = "wLock" /\ task'[t].at = o
           /\ obj'[o].swMu = t /\ ~obj'[o].wclosed
           /\ \A p \in Objs : p # o => obj'[p] = obj[p]
           /\ UNCHANGED <<map, closed, conn, wire, rloop>>
  <1>1. obj \in Seq(Records) /\ obj[o] \in Records /\ 1 \in Objs /\ o \in Nat \ {0}
    BY DEF StreamTypes, Objs
  <1>2. PICK s : s = [obj[o] EXCEPT !.swMu = t] /\ obj' = [obj EXCEPT ![o] = s]
    BY <1>1 DEF Write, Objs
  <1>3. s \in Records
    BY <1>1, <1>2 DEF Records, Owners
  <1>4. s.id = obj[o].id /\ s.told = obj[o].told /\ s.swMu = t /\ s.wclosed = obj[o].wclosed
    BY <1>1, <1>2 DEF Records
  <1>5. /\ Grows /\ Len(obj') = Len(obj) /\ obj'[o] = s
        /\ \A p \in Objs : p # o => obj'[p] = obj[p]
    BY <1>2, <1>3, <1>4, Updated
  <1>6. PICK w : w = [Idle EXCEPT !.pc = "wLock", !.at = o] /\ task' = [task EXCEPT ![t] = w]
    BY DEF Write, Set
  <1>7. w \in Workers /\ w.pc = "wLock" /\ w.at = o /\ w.todo = {}
    BY <1>1, <1>6, IdleType DEF Workers, PCs
  <1>8. task'[t] = w
    BY <1>6 DEF TaskTypes
  <1>9. Moves(t)
    BY <1>5, <1>6, <1>7, <1>8 DEF Moves, Objs
  <1>10. /\ ~Writing(t) /\ obj[o].swMu = None /\ ~obj[o].wclosed
         /\ UNCHANGED <<map, closed, conn, wire, rloop>>
    BY DEF Write, Writing, wire
  <1> QED
    BY <1>4, <1>5, <1>7, <1>8, <1>9, <1>10

\* A worker that is not writing after the step gives back at most the lock of
\* its own Write.
Finishes(t) ==
    /\ Grows /\ Moves(t) /\ task'[t].pc \notin {"wLock", "wBody"}
    /\ IF Writing(t) THEN \A p \in Objs : p # at(t) => obj'[p] = obj[p] ELSE WritersKept

LEMMA WriteDoneEffect ==
    ASSUME StreamTypes, TaskTypes, NEW t \in Tasks, pc(t) \in {"wLock", "wBody", "cEof"},
           WriteDone(t)
    PROVE  Finishes(t)
  <1>1. obj \in Seq(Records) /\ at(t) \in Objs /\ obj[at(t)] \in Records
    BY DEF StreamTypes, TaskTypes, Objs
  <1>2. CASE Writing(t)
    <2>1. PICK s : s = [obj[at(t)] EXCEPT !.swMu = None] /\ obj' = [obj EXCEPT ![at(t)] = s]
      BY <1>1, <1>2 DEF WriteDone, Writing, Objs
    <2>2. s \in Records
      BY <1>1, <2>1 DEF Records, Owners
    <2>3. s.id = obj[at(t)].id /\ s.told = obj[at(t)].told
      BY <1>1, <2>1 DEF Records
    <2>4. /\ Grows /\ Len(obj') = Len(obj)
          /\ \A p \in Objs : p # at(t) => obj'[p] = obj[p]
      BY <1>1, <2>1, <2>2, <2>3, Updated
    <2>5. task' = [task EXCEPT ![t] = Idle]
      BY <1>2 DEF WriteDone, Writing, Go, Set
    <2>6. task'[t] = Idle /\ 1 \in Objs
      BY <2>5 DEF TaskTypes, StreamTypes
    <2>7. Moves(t)
      BY <2>4, <2>5, <2>6, IdleType DEF Moves, Objs
    <2> QED
      BY <1>2, <2>4, <2>6, <2>7, IdleType DEF Finishes
  <1>3. CASE ~Writing(t)
    <2>1. Go(t, "cMark") /\ obj' = obj
      BY <1>3 DEF WriteDone, Writing
    <2>2. Moves(t) /\ task'[t].pc = "cMark"
      BY <2>1, GoEffect DEF PCs
    <2> QED
      BY <1>3, <2>1, <2>2, Same DEF Finishes
  <1> QED
    BY <1>2, <1>3

LEMMA CloseMarkEffect ==
    ASSUME StreamTypes, TaskTypes, NEW t \in Tasks, CloseMark(t)
    PROVE  /\ Grows /\ Quiet(t) /\ at(t) \in Objs /\ obj[at(t)].swMu = None
           /\ \A p \in Objs : p # at(t) => obj'[p] = obj[p]
           /\ UNCHANGED <<map, closed, conn, wire, rloop>>
  <1>1. obj \in Seq(Records) /\ at(t) \in Objs /\ obj[at(t)] \in Records /\ 1 \in Objs
    BY DEF StreamTypes, TaskTypes, Objs
  <1>2. PICK s : /\ s = [obj[at(t)] EXCEPT !.wclosed = TRUE, !.sMu = None]
                 /\ obj' = [obj EXCEPT ![at(t)] = s]
    BY <1>1 DEF CloseMark, Objs
  <1>3. s \in Records
    BY <1>1, <1>2 DEF Records, Owners
  <1>4. s.id = obj[at(t)].id /\ s.told = obj[at(t)].told
    BY <1>1, <1>2 DEF Records
  <1>5. /\ Grows /\ Len(obj') = Len(obj)
        /\ \A p \in Objs : p # at(t) => obj'[p] = obj[p]
    BY <1>1, <1>2, <1>3, <1>4, Updated
  <1>6. task \in [Tasks -> Workers] /\ task[t] \in Workers /\ task[t].todo \subseteq Objs
    BY DEF TaskTypes
  <1>7. task[t].back \in {"idle", "mNext", "gOpen"}
    BY <1>6 DEF Workers
  <1>8. PICK w : w = IF task[t].back = "idle" THEN Idle ELSE [task[t] EXCEPT !.pc = task[t].back]
    OBVIOUS
  <1>9. task' = [task EXCEPT ![t] = w] /\ task'[t] = w
    BY <1>6, <1>8 DEF CloseMark, Go, Set
  <1>10. w \in Workers /\ w.pc \in {"idle", "mNext", "gOpen"} /\ w.at \in Objs /\ w.todo \subseteq Objs
    <2>1. CASE task[t].back = "idle"
      BY <1>1, <1>8, <2>1, IdleType
    <2>2. CASE task[t].back # "idle"
      <3>1. w = [task[t] EXCEPT !.pc = task[t].back]
        BY <1>8, <2>2
      <3>2. w \in Workers
        BY <1>6, <1>7, <3>1 DEF Workers, PCs
      <3>3. w.pc = task[t].back /\ w.at = at(t) /\ w.todo = task[t].todo
        BY <1>6, <3>1 DEF Workers, at
      <3> QED
        BY <1>1, <1>6, <1>7, <3>2, <3>3
    <2> QED
      BY <2>1, <2>2
  <1>11. Moves(t)
    BY <1>5, <1>9, <1>10 DEF Moves, Objs
  <1>12. /\ ~Writing(t) /\ obj[at(t)].swMu = None
         /\ UNCHANGED <<map, closed, conn, wire, rloop>>
    BY DEF CloseMark, WriterFree, Writing
  <1> QED
    BY <1>1, <1>5, <1>9, <1>10, <1>11, <1>12 DEF Quiet

\* CloseStream and CloseStream of GetOrCreateStream, which never mean ID 0.
LEMMA RemoveEffect ==
    ASSUME Inv, NEW t \in Tasks, (\E id \in Ids : CloseStream(t, id)) \/ GetRemove(t)
    PROVE  /\ Quiet(t) /\ obj' = obj
           /\ streams' = streams \/ \E id \in Ids : id # 0 /\ streams' = [streams EXCEPT ![id] = None]
           /\ UNCHANGED <<nextID, closed, conn, wire, rloop>>
  <1> USE DEF Inv
  <1>1. /\ task \in [Tasks -> Workers] /\ task[t] \in Workers /\ at(t) \in Objs
        /\ task[t].todo \subseteq Objs /\ 1 \in Objs
    BY DEF TaskTypes, StreamTypes
  <1>2. \A id \in Ids : Live(id) => streams[id] \in Objs
    BY DEF MapTypes
  <1>3. \A o \in Objs : o \in Nat \ {0}
    BY DEF Objs, StreamTypes
  <1>4. CASE \E id \in Ids : CloseStream(t, id)
    <2>1. PICK id \in Ids : CloseStream(t, id)
      BY <1>4
    <2>2. PICK w : /\ w = [Idle EXCEPT !.pc = "sNext", !.at = streams[id]]
                   /\ task' = [task EXCEPT ![t] = w]
      BY <2>1 DEF CloseStream, Set
    <2>3. streams[id] \in Objs
      BY <1>2, <2>1 DEF CloseStream
    <2>4. w \in Workers /\ w.pc = "sNext" /\ w.at = streams[id] /\ w.todo = {}
      BY <1>3, <2>2, <2>3, IdleType DEF Workers, PCs
    <2>5. task'[t] = w
      BY <1>1, <2>2
    <2>6. /\ obj' = obj /\ ~Writing(t) /\ id # 0 /\ streams' = [streams EXCEPT ![id] = None]
          /\ UNCHANGED <<nextID, closed, conn, wire, rloop>>
      BY <2>1 DEF CloseStream, Writing
    <2>7. Moves(t)
      BY <1>1, <2>2, <2>3, <2>4, <2>6, MovesTo
    <2>8. Quiet(t)
      BY <2>4, <2>5, <2>6, <2>7 DEF Quiet
    <2> QED
      BY <2>6, <2>8
  <1>5. CASE GetRemove(t)
    <2>1. /\ obj' = obj /\ ~Writing(t) /\ pc(t) = "gRemove" /\ task[t].id \in Ids /\ task[t].id # 0
          /\ UNCHANGED <<nextID, closed, conn, wire, rloop>>
      BY <1>5 DEF GetRemove, Writing, TaskTypes, Workers
    <2>2. CASE Live(task[t].id)
      <3>1. PICK w : /\ w = [task[t] EXCEPT !.pc = "sNext", !.at = streams[task[t].id],
                                            !.back = "gOpen"]
                     /\ task' = [task EXCEPT ![t] = w]
        BY <1>5, <2>2 DEF GetRemove, Set
      <3>2. streams[task[t].id] \in Objs
        BY <1>2, <2>1, <2>2
      <3>3. w \in Workers
        BY <1>1, <1>3, <3>1, <3>2 DEF Workers, PCs
      <3>4. w.pc = "sNext" /\ w.at = streams[task[t].id] /\ w.todo = task[t].todo
        BY <1>1, <3>1 DEF Workers
      <3>5. task'[t] = w
        BY <1>1, <3>1
      <3>6. Objs' = Objs
        BY <2>1 DEF Objs
      <3>7. Quiet(t)
        BY <1>1, <2>1, <3>1, <3>2, <3>3, <3>4, <3>5, <3>6 DEF Quiet, Moves
      <3>8. streams' = [streams EXCEPT ![task[t].id] = None]
        BY <1>5, <2>2 DEF GetRemove
      <3> QED
        BY <2>1, <3>7, <3>8
    <2>3. CASE ~Live(task[t].id)
      <3>1. Go(t, "gOpen") /\ streams' = streams
        BY <1>5, <2>3 DEF GetRemove
      <3>2. Moves(t) /\ task'[t].pc = "gOpen"
        BY <2>1, <3>1, GoEffect DEF PCs
      <3> QED
        BY <2>1, <3>1, <3>2 DEF Quiet
    <2> QED
      BY <2>2, <2>3
  <1> QED
    BY <1>4, <1>5

\* Close of the multiplexer, and the look at the map that begins
\* GetOrCreateStream: no stream is changed.
MuxStep(t) ==
    \/ MuxCloseAgain(t) \/ MuxClose(t) \/ MuxCloseConn(t) \/ MuxCloseReturn(t)
    \/ \E id \in Ids : GetOrCreateStream(t, id)

LEMMA MuxEffect ==
    ASSUME Inv, NEW t \in Tasks, MuxStep(t)
    PROVE  /\ Quiet(t) \/ task' = task
           /\ obj' = obj /\ closed' \in BOOLEAN /\ (closed => closed')
           /\ conn' = conn \/ conn' = "down"
           /\ UNCHANGED <<map, wire, rloop>>
  <1> USE DEF Inv
  <1>1. /\ task \in [Tasks -> Workers] /\ task[t] \in Workers /\ at(t) \in Objs
        /\ task[t].todo \subseteq Objs /\ 1 \in Objs /\ closed \in BOOLEAN
    BY DEF TaskTypes, StreamTypes, MapTypes
  <1>2. CASE MuxCloseAgain(t)
    BY <1>1, <1>2 DEF MuxCloseAgain
  <1>3. CASE MuxClose(t)
    <2>1. PICK live : live = {streams[id] : id \in {i \in Ids : Live(i)}}
      OBVIOUS
    <2>2. live \subseteq Objs /\ live \subseteq Nat
      <3>1. \A id \in Ids : Live(id) => streams[id] \in Objs
        BY DEF MapTypes
      <3>2. live \subseteq Objs
        BY <2>1, <3>1
      <3> QED
        BY <3>2 DEF Objs, StreamTypes
    <2>3. PICK w : w = [Idle EXCEPT !.pc = "mConn", !.todo = live] /\ task' = [task EXCEPT ![t] = w]
      BY <1>3, <2>1 DEF MuxClose, Set
    <2>4. w \in Workers /\ w.pc = "mConn" /\ w.at = 1 /\ w.todo = live
      BY <2>2, <2>3, IdleType DEF Workers, PCs
    <2>5. task'[t] = w
      BY <1>1, <2>3
    <2>6. obj' = obj /\ ~Writing(t) /\ UNCHANGED <<map, conn, wire, rloop>>
      BY <1>3 DEF MuxClose, Writing
    <2>7. Objs' = Objs
      BY <2>6 DEF Objs
    <2>8. Quiet(t)
      BY <1>1, <2>2, <2>3, <2>4, <2>5, <2>6, <2>7 DEF Quiet, Moves
    <2>9. closed' \in BOOLEAN /\ closed'
      BY <1>3, Zenon DEF MuxClose
    <2> QED
      BY <2>6, <2>8, <2>9
  <1>4. CASE MuxCloseConn(t)
    <2>1. /\ Go(t, "mNext") /\ ~Writing(t) /\ obj' = obj /\ conn' = "down"
          /\ UNCHANGED <<map, closed, wire, rloop>>
      BY <1>4 DEF MuxCloseConn, ConnClosed, Writing
    <2>2. Moves(t) /\ task'[t].pc = "mNext"
      BY <2>1, GoEffect DEF PCs
    <2> QED
      BY <1>1, <2>1, <2>2 DEF Quiet
  <1>5. CASE MuxCloseReturn(t)
    <2>1. Go(t, "idle") /\ ~Writing(t) /\ obj' = obj /\ UNCHANGED <<map, closed, conn, wire, rloop>>
      BY <1>5 DEF MuxCloseReturn, Writing
    <2>2. Moves(t) /\ task'[t].pc = "idle"
      BY <2>1, GoEffect DEF PCs
    <2> QED
      BY <1>1, <2>1, <2>2 DEF Quiet
  <1>6. CASE \E id \in Ids : GetOrCreateStream(t, id)
    <2>1. PICK id \in Ids : GetOrCreateStream(t, id)
      BY <1>6
    <2>2. PICK p \in {"gRemove", "gOpen"} : task' = [task EXCEPT ![t] = [Idle EXCEPT !.pc = p, !.id = id]]
      BY <2>1 DEF GetOrCreateStream, Set
    <2>3. PICK w : w = [Idle EXCEPT !.pc = p, !.id = id]
      OBVIOUS
    <2>4. w \in Workers /\ w.pc = p /\ w.at = 1 /\ w.todo = {} /\ w.id = id
      BY <2>3, IdleType DEF Workers, PCs
    <2>5. task' = [task EXCEPT ![t] = w] /\ task'[t] = w
      BY <1>1, <2>2, <2>3
    <2>6. obj' = obj /\ ~Writing(t) /\ id # 0 /\ UNCHANGED <<map, closed, conn, wire, rloop>>
      BY <2>1 DEF GetOrCreateStream, Writing
    <2>7. Objs' = Objs
      BY <2>6 DEF Objs
    <2>8. Quiet(t)
      BY <1>1, <2>4, <2>5, <2>6, <2>7 DEF Quiet, Moves
    <2> QED
      BY <1>1, <2>6, <2>8
  <1> QED
    BY <1>2, <1>3, <1>4, <1>5, <1>6 DEF MuxStep

LEMMA GetOpenEffect ==
    ASSUME Inv, NEW t \in Tasks, GetOpen(t)
    PROVE  /\ Quiet(t) /\ UNCHANGED <<closed, conn, wire, rloop>>
           /\ \/ UNCHANGED <<map, obj>>
              \/ /\ ~closed /\ nextID' \in Ids
                 /\ \E id \in Ids : id # 0 /\ ~Live(id) /\ Create(id)
  <1> USE DEF Inv
  <1>1. /\ task \in [Tasks -> Workers] /\ task[t] \in Workers /\ 1 \in Objs
        /\ nextID \in Ids /\ Len(obj) \in Nat /\ StreamTypes
    BY DEF TaskTypes, StreamTypes, MapTypes, Ids
  <1>2. task[t].id \in Ids
    BY <1>1 DEF Workers
  <1>3. \A id \in Ids : After(id) \in Ids
    BY MuxAssumption DEF After, Ids
  <1>4. task' = [task EXCEPT ![t] = Idle] /\ task'[t] = Idle /\ ~Writing(t)
    BY <1>1 DEF GetOpen, Go, Set, Writing
  <1>5. UNCHANGED <<closed, conn, wire, rloop>>
    BY DEF GetOpen
  <1>6. \/ UNCHANGED <<map, obj>>
        \/ /\ ~closed /\ nextID' \in Ids
           /\ \E id \in Ids : id # 0 /\ ~Live(id) /\ Create(id)
    <2>1. CASE closed \/ Live(task[t].id)
      BY <2>1 DEF GetOpen
    <2>2. CASE ~(closed \/ Live(task[t].id))
      <3>1. OpenWithID(task[t].id)
        BY <2>2 DEF GetOpen
      <3>2. nextID' \in Ids
        BY <1>1, <1>2, <1>3, <3>1 DEF OpenWithID
      <3> QED
        BY <1>2, <3>1, <3>2 DEF OpenWithID
    <2> QED
      BY <2>1, <2>2
  <1>7. 1 \in Objs'
    <2>1. CASE UNCHANGED <<map, obj>>
      BY <1>1, <2>1 DEF Objs
    <2>2. CASE \E id \in Ids : Create(id)
      BY <1>1, <2>2, CreateEffect DEF Objs
    <2> QED
      BY <1>6, <2>1, <2>2
  <1>8. Moves(t)
    BY <1>4, <1>7, IdleType DEF Moves
  <1> QED
    BY <1>4, <1>5, <1>6, <1>8, IdleType DEF Quiet

LEMMA ReadDataEffect ==
    ASSUME Inv, ReadData
    PROVE  /\ rl = "data" /\ rl' = "deliver" /\ frame' = frame /\ frame.kind # "bad"
           /\ UNCHANGED <<nextID, closed, conn, wire, task, cut>>
           /\ \/ UNCHANGED <<streams, obj>> /\ rlObj' \in Objs
              \/ /\ \E id \in Ids : id # 0 /\ ~Live(id) /\ Create(id)
                 /\ rlObj' = Len(obj) + 1
  <1> USE DEF Inv
  <1>1. frame.id \in Ids
    BY DEF LoopTypes, Frames
  <1>2. Live(0)
    BY MuxAssumption DEF ControlKept, Live
  <1>3. CASE Live(frame.id)
    <2>1. streams[frame.id] \in Objs
      BY <1>1, <1>3 DEF MapTypes
    <2> QED
      BY <1>3, <2>1 DEF ReadData
  <1>4. CASE ~Live(frame.id)
    BY <1>1, <1>2, <1>4 DEF ReadData
  <1> QED
    BY <1>3, <1>4

LEMMA DeliverEffect ==
    ASSUME Inv, Deliver
    PROVE  /\ Grows /\ WritersKept /\ UNCHANGED <<map, closed, conn, wire, task, cut>>
           /\ rl = "deliver" /\ rl' = "header" /\ frame' \in Frames /\ rlObj' \in Objs'
  <1> USE DEF Inv
  <1>1. rlObj \in Objs /\ frame.kind \in {"data", "eof"} /\ 1 \in Objs
    BY DEF LoopTypes, Frames, Deliver, StreamTypes
  <1>2. obj \in Seq(Records) /\ obj[rlObj] \in Records
    BY <1>1 DEF StreamTypes, Objs
  <1>3. Grows /\ WritersKept
    <2>1. CASE obj[rlObj].rclosed
      BY <2>1, Same DEF Deliver
    <2>2. CASE ~obj[rlObj].rclosed
      <3>1. PICK s : /\ s = [obj[rlObj] EXCEPT !.q = Append(@, frame.kind)]
                     /\ obj' = [obj EXCEPT ![rlObj] = s]
        BY <1>1, <1>2, <2>2 DEF Deliver, Objs
      <3>2. Len(obj[rlObj].q) < Cap
        BY <2>2 DEF Deliver, HasRoom
      <3>3. s \in Records
        <4>1. PICK q : q = Append(obj[rlObj].q, frame.kind)
          OBVIOUS
        <4>2. obj[rlObj].q \in Seq({"data", "eof"})
          BY <1>2 DEF Records
        <4>3. q \in Seq({"data", "eof"}) /\ Len(q) <= Cap
          BY MuxAssumption, <1>1, <3>2, <4>1, <4>2
        <4>4. s = [obj[rlObj] EXCEPT !.q = q]
          BY <3>1, <4>1
        <4> QED
          BY <1>2, <4>3, <4>4 DEF Records
      <3>4. /\ s.id = obj[rlObj].id /\ s.told = obj[rlObj].told
            /\ s.swMu = obj[rlObj].swMu /\ s.wclosed = obj[rlObj].wclosed
        BY <1>2, <3>1 DEF Records
      <3>5. /\ Grows /\ obj'[rlObj] = s
            /\ \A p \in Objs : p # rlObj => obj'[p] = obj[p]
        BY <1>1, <3>1, <3>3, <3>4, Updated
      <3>6. WritersKept
        BY <3>4, <3>5 DEF WritersKept
      <3> QED
        BY <3>5, <3>6
    <2> QED
      BY <2>1, <2>2
  <1>4. frame' \in Frames
    BY MuxAssumption DEF Deliver, NoFrame, Frames, Ids
  <1>5. Len(obj) \in Nat /\ Len(obj') >= Len(obj) /\ Len(obj') \in Nat
    BY <1>2, <1>3 DEF Grows
  <1>6. rlObj' \in Objs'
    BY <1>1, <1>5 DEF Deliver, Objs
  <1> QED
    BY <1>3, <1>4, <1>6 DEF Deliver

LEMMA ConsumeEffect ==
    ASSUME Inv, NEW o \in Objs, Consume(o)
    PROVE  Grows /\ WritersKept /\ UNCHANGED <<map, closed, conn, wire, task, rloop>>
  <1> USE DEF Inv
  <1>1. obj \in Seq(Records) /\ obj[o] \in Records
    BY DEF StreamTypes, Objs
  <1>2. PICK e \in BOOLEAN : e = (Head(obj[o].q) = "eof")
    OBVIOUS
  <1>3. PICK c \in BOOLEAN, d \in BOOLEAN :
           c = (obj[o].rclosed \/ e) /\ d = (obj[o].told \/ e)
    OBVIOUS
  <1>4. obj[o].told => d
    BY <1>3
  <1>5. PICK s : s = [obj[o] EXCEPT !.q = Tail(@), !.rclosed = c, !.told = d]
    OBVIOUS
  <1>6. obj' = [obj EXCEPT ![o] = s]
    BY <1>1, <1>2, <1>3, <1>5 DEF Consume, Objs
  <1>7. s \in Records
    <2>1. obj[o].q # <<>>
      BY DEF Consume
    <2>2. PICK q : q = Tail(obj[o].q)
      OBVIOUS
    <2>3. obj[o].q \in Seq({"data", "eof"}) /\ Len(obj[o].q) <= Cap
      BY <1>1 DEF Records
    <2>4. q \in Seq({"data", "eof"}) /\ Len(q) <= Cap
      BY MuxAssumption, <2>1, <2>2, <2>3
    <2>5. s = [obj[o] EXCEPT !.q = q, !.rclosed = c, !.told = d]
      BY <1>5, <2>2
    <2> QED
      BY <1>1, <2>4, <2>5 DEF Records
  <1>8. /\ s.id = obj[o].id /\ (obj[o].told => s.told)
        /\ s.swMu = obj[o].swMu /\ s.wclosed = obj[o].wclosed
    BY <1>1, <1>4, <1>5 DEF Records
  <1>9. Grows /\ obj'[o] = s /\ \A p \in Objs : p # o => obj'[p] = obj[p]
    BY <1>6, <1>7, <1>8, Updated
  <1>10. WritersKept
    BY <1>8, <1>9 DEF WritersKept
  <1> QED
    BY <1>9, <1>10 DEF Consume

\* All streams of the map are told at once.
LEMMA NotifyEffect ==
    ASSUME Inv, Notify
    PROVE  /\ Grows /\ WritersKept /\ UNCHANGED <<map, closed, conn, wire, task, frame, rlObj, cut>>
           /\ rl = "notify" /\ rl' = "done"
           /\ \A id \in Ids : Live(id) => obj'[streams[id]].told
  <1> USE DEF Inv
  <1>1. obj \in Seq(Records) /\ Len(obj) \in Nat /\ \A o \in Objs : obj[o] \in Records
    BY DEF StreamTypes, Objs
  <1> DEFINE InMap(o) == \E id \in Ids : streams[id] = o
             Told(o) == IF InMap(o) THEN [obj[o] EXCEPT !.told = TRUE] ELSE obj[o]
  <1>2. obj' = [o \in 1..Len(obj) |-> Told(o)]
    BY DEF Notify, Notified, Objs
  <1>3. \A o \in Objs : /\ Told(o) \in Records /\ Told(o).id = obj[o].id
                        /\ (obj[o].told \/ InMap(o) => Told(o).told)
                        /\ Told(o).swMu = obj[o].swMu /\ Told(o).wclosed = obj[o].wclosed
    <2> TAKE o \in Objs
    <2>1. CASE InMap(o)
      <3>1. Told(o) = [obj[o] EXCEPT !.told = TRUE]
        BY <2>1
      <3> HIDE DEF Told
      <3> QED
        BY <1>1, <3>1 DEF Records
    <2>2. CASE ~InMap(o)
      BY <1>1, <2>2
    <2> QED
      BY <2>1, <2>2
  <1> HIDE DEF Told, InMap
  <1>4. \A o \in 1..Len(obj) : Told(o) \in Records
    BY <1>3 DEF Objs
  <1>5. obj' \in [1..Len(obj) -> Records]
    BY <1>2, <1>4
  <1>6. obj' \in Seq(Records) /\ Len(obj') = Len(obj)
    BY <1>1, <1>5
  <1>7. \A o \in Objs : obj'[o] = Told(o)
    BY <1>2 DEF Objs
  <1>8. Grows
    BY <1>1, <1>3, <1>6, <1>7 DEF Grows
  <1>9. WritersKept
    BY <1>3, <1>7 DEF WritersKept
  <1>10. ASSUME NEW id \in Ids, Live(id) PROVE obj'[streams[id]].told
    <2>1. streams[id] \in Objs
      BY <1>10 DEF MapTypes
    <2>2. InMap(streams[id])
      BY DEF InMap
    <2> QED
      BY <1>3, <1>7, <2>1, <2>2
  <1> QED
    BY <1>8, <1>9, <1>10 DEF Notify

-----------------------------------------------------------------------------
(* The steps in groups.                                                    *)

OpenStep == OpenStream \/ \E id \in Ids : OpenStreamWithID(id)
CloseStep(t) == (\E o \in Objs : StreamClose(t, o)) \/ CloseNext(t) \/ MuxCloseNext(t)
RemoveStep(t) == (\E id \in Ids : CloseStream(t, id)) \/ GetRemove(t)
ReadHeaderStep == (\E id \in Ids, kind \in {"data", "eof"} : ReadHeader(id, kind)) \/ ReadHeader(0, "bad")
ReadErrorStep == ReadHeaderError \/ ReadDataError

LEMMA Steps ==
    ASSUME Next
    PROVE  \/ OpenStep
           \/ \E t \in Tasks : \/ \E o \in Objs : Write(t, o)
                               \/ WriteHeader(t) \/ WritePayload(t) \/ CloseMark(t)
                               \/ CloseStep(t) \/ RemoveStep(t) \/ MuxStep(t) \/ GetOpen(t)
           \/ ReadHeaderStep \/ ReadErrorStep \/ ReadData \/ Deliver \/ Notify
           \/ \E o \in Objs : Consume(o)
           \/ ConnFails
  BY Zenon DEF Next, OpenStep, CloseStep, RemoveStep, MuxStep, ReadHeaderStep, ReadErrorStep

\* Writing out a header: the worker is done, or it holds writeMu and goes on.
LEMMA HeaderEffect ==
    ASSUME Inv, NEW t \in Tasks, WriteHeader(t)
    PROVE  /\ UNCHANGED <<map, closed, conn, rloop>>
           /\ pc(t) \in {"wLock", "cEof"} /\ writeMu = None
           /\ \/ Finishes(t) /\ out' = out /\ writeMu' = None
              \/ /\ Finishes(t) /\ writeMu' = None /\ conn = "up"
                 /\ out' = Append(out, [part |-> "eof", id |-> obj[at(t)].id])
              \/ /\ obj' = obj /\ Moves(t) /\ task' = [task EXCEPT ![t].pc = "wBody"]
                 /\ pc(t) = "wLock" /\ writeMu' = t
                 /\ out' = Append(out, HeaderOf(t))
  <1> USE DEF Inv
  <1>1. /\ UNCHANGED <<map, closed, conn, rloop>>
        /\ pc(t) \in {"wLock", "cEof"} /\ writeMu = None
    BY DEF WriteHeader, WriteMuFree
  <1>2. CASE conn = "down"
    <2>1. WriteDone(t) /\ UNCHANGED <<out, writeMu>>
      BY <1>2 DEF WriteHeader
    <2> QED
      BY <1>1, <2>1, WriteDoneEffect
  <1>3. CASE conn # "down" /\ pc(t) = "cEof"
    <2>1. /\ WriteDone(t) /\ writeMu' = writeMu
          /\ out' = Append(out, [part |-> "eof", id |-> obj[at(t)].id])
      BY <1>3 DEF WriteHeader
    <2> QED
      BY <1>1, <1>3, <2>1, WriteDoneEffect DEF WireTypes
  <1>4. CASE conn # "down" /\ pc(t) = "wLock"
    <2>1. /\ Go(t, "wBody") /\ obj' = obj /\ writeMu' = t
          /\ out' = Append(out, [part |-> "header", id |-> obj[at(t)].id])
      BY <1>4 DEF WriteHeader
    <2>2. Moves(t)
      BY <2>1, GoEffect DEF PCs
    <2>3. task' = [task EXCEPT ![t].pc = "wBody"]
      BY <2>1 DEF Go, Set
    <2> QED
      BY <1>1, <1>4, <2>1, <2>2, <2>3 DEF HeaderOf
  <1> QED
    BY <1>1, <1>2, <1>3, <1>4

LEMMA PayloadEffect ==
    ASSUME Inv, NEW t \in Tasks, WritePayload(t)
    PROVE  /\ UNCHANGED <<map, closed, conn, rloop>>
           /\ pc(t) = "wBody" /\ Finishes(t) /\ writeMu' = None
           /\ \/ conn = "down" /\ out' = out
              \/ conn # "down" /\ out' = Append(out, [part |-> "payload", id |-> obj[at(t)].id])
  BY WriteDoneEffect DEF WritePayload, Inv

LEMMA QuietFinishes ==
    ASSUME NEW t \in Tasks, Grows, WritersKept, Quiet(t)
    PROVE  Finishes(t)
  BY DEF Quiet, Finishes

\* What a step does to the map and the streams: the map loses an entry, or a
\* free ID other than 0 gets a new stream while readLoop is well.
Shrinks == streams' = streams \/ \E id \in Ids : id # 0 /\ streams' = [streams EXCEPT ![id] = None]
Creates == \E id \in Ids : id # 0 /\ ~Live(id) /\ Create(id)

LEMMA CreatesEffect ==
    ASSUME StreamTypes, Creates
    PROVE  Grows /\ WritersKept /\ Len(obj') = Len(obj) + 1
  BY CreateEffect DEF Creates

LEMMA MapEffect ==
    ASSUME Inv, [Next]_vars
    PROVE  /\ Grows /\ nextID' \in Ids /\ closed' \in BOOLEAN /\ (closed => closed')
           /\ Shrinks \/ (Creates /\ {rl, rl'} \cap {"notify", "done"} = {})
  <1> USE DEF Inv
  <1>1. nextID \in Ids /\ closed \in BOOLEAN
    BY DEF MapTypes
  <1>2. CASE OpenStep
    <2>1. ~closed /\ nextID' \in Ids /\ Creates /\ closed' = closed /\ rl' = rl
      BY <1>2, OpenEffect DEF OpenStep, Creates, rloop
    <2> QED
      BY <1>1, <2>1, CreatesEffect DEF Telling
  <1>3. ASSUME NEW t \in Tasks, NEW o \in Objs, Write(t, o)
        PROVE  Grows /\ UNCHANGED <<map, closed>>
    BY <1>3, WriteEffect
  <1>4. ASSUME NEW t \in Tasks, WriteHeader(t)
        PROVE  Grows /\ UNCHANGED <<map, closed>>
    BY <1>4, HeaderEffect, Same DEF Finishes
  <1>5. ASSUME NEW t \in Tasks, WritePayload(t)
        PROVE  Grows /\ UNCHANGED <<map, closed>>
    BY <1>5, PayloadEffect DEF Finishes
  <1>6. ASSUME NEW t \in Tasks, CloseMark(t)
        PROVE  Grows /\ UNCHANGED <<map, closed>>
    BY <1>6, CloseMarkEffect
  <1>7. ASSUME NEW t \in Tasks, CloseStep(t)
        PROVE  Grows /\ UNCHANGED <<map, closed>>
    BY <1>7, CloseEffect DEF CloseStep
  <1>8. ASSUME NEW t \in Tasks, RemoveStep(t)
        PROVE  Grows /\ UNCHANGED <<nextID, closed>> /\ Shrinks
    BY <1>8, RemoveEffect, Same DEF RemoveStep, Shrinks
  <1>9. ASSUME NEW t \in Tasks, MuxStep(t)
        PROVE  Grows /\ UNCHANGED map /\ closed' \in BOOLEAN /\ (closed => closed')
    BY <1>9, MuxEffect, Same
  <1>10. ASSUME NEW t \in Tasks, GetOpen(t)
         PROVE  /\ Grows /\ closed' = closed /\ nextID' \in Ids
                /\ Shrinks \/ (Creates /\ {rl, rl'} \cap {"notify", "done"} = {})
    <2>1. rl' = rl /\ closed' = closed
      BY <1>10, GetOpenEffect DEF rloop
    <2>2. UNCHANGED <<map, obj>> \/ (~closed /\ nextID' \in Ids /\ Creates)
      BY <1>10, GetOpenEffect DEF Creates
    <2>3. CASE UNCHANGED <<map, obj>>
      BY <1>1, <2>1, <2>3, Same DEF map, Shrinks
    <2>4. CASE ~closed /\ nextID' \in Ids /\ Creates
      BY <2>1, <2>4, CreatesEffect DEF Telling
    <2> QED
      BY <2>2, <2>3, <2>4
  <1>11. CASE ReadHeaderStep
    BY <1>1, <1>11, Same DEF ReadHeaderStep, ReadHeader, map, Shrinks
  <1>12. CASE ReadErrorStep
    <2>1. UNCHANGED <<map, obj>>
      BY <1>12 DEF ReadErrorStep, ReadHeaderError, ReadDataError
    <2>2. closed' \in BOOLEAN /\ closed'
      BY <1>12, Zenon DEF ReadErrorStep, ReadHeaderError, ReadDataError
    <2> QED
      BY <1>1, <2>1, <2>2, Same DEF map, Shrinks
  <1>13. CASE ReadData
    <2>1. rl = "data" /\ rl' = "deliver" /\ nextID' = nextID /\ closed' = closed
      BY <1>13, ReadDataEffect
    <2>2. UNCHANGED <<streams, obj>> \/ Creates
      BY <1>13, ReadDataEffect DEF Creates
    <2>3. CASE UNCHANGED <<streams, obj>>
      BY <1>1, <2>1, <2>3, Same DEF Shrinks
    <2>4. CASE Creates
      BY <1>1, <2>1, <2>4, CreatesEffect
    <2> QED
      BY <2>2, <2>3, <2>4
  <1>14. CASE Deliver
    BY <1>1, <1>14, DeliverEffect DEF map, Shrinks
  <1>15. CASE Notify
    BY <1>1, <1>15, NotifyEffect DEF map, Shrinks
  <1>16. ASSUME NEW o \in Objs, Consume(o)
         PROVE  Grows /\ UNCHANGED <<map, closed>>
    BY <1>16, ConsumeEffect
  <1>17. CASE ConnFails
    BY <1>1, <1>17, Same DEF ConnFails, map, Shrinks
  <1>18. CASE UNCHANGED vars
    BY <1>1, <1>18, Same DEF vars, map, Shrinks
  <1> QED
    BY <1>1, <1>2, <1>3, <1>4, <1>5, <1>6, <1>7, <1>8, <1>9, <1>10, <1>11, <1>12, <1>13,
       <1>14, <1>15, <1>16, <1>17, <1>18, Steps DEF map, Shrinks

-----------------------------------------------------------------------------
(* Each part of the invariant is kept.                                     *)

LEMMA StreamsKept ==
    ASSUME Inv, [Next]_vars
    PROVE  StreamTypes'
  BY MapEffect DEF Grows, StreamTypes, Objs, Inv

LEMMA MapKept ==
    ASSUME Inv, [Next]_vars
    PROVE  MapTypes' /\ ControlKept'
  <1>1. /\ StreamTypes /\ streams \in [Ids -> Nat \cup {None}] /\ streams[0] = 1 /\ 0 \in Ids
        /\ \A id \in Ids : Live(id) => streams[id] \in Objs /\ obj[streams[id]].id = id
    BY MuxAssumption DEF Inv, MapTypes, ControlKept, Ids
  <1>2. /\ Grows /\ nextID' \in Ids /\ closed' \in BOOLEAN
        /\ Shrinks \/ Creates
    BY MapEffect
  <1>3. Len(obj) \in Nat /\ Len(obj') >= Len(obj) /\ Len(obj') \in Nat
    BY <1>1, <1>2 DEF Grows, StreamTypes
  <1>4. CASE Shrinks
    <2>1. \A id \in Ids : streams'[id] = streams[id] \/ streams'[id] = None
      BY <1>1, <1>4 DEF Shrinks
    <2>2. streams' \in [Ids -> Nat \cup {None}] /\ streams'[0] = 1
      BY <1>1, <1>4 DEF Shrinks
    <2>3. ASSUME NEW id \in Ids, streams'[id] # None
          PROVE  streams'[id] \in Objs' /\ obj'[streams'[id]].id = id
      <3>1. streams'[id] = streams[id] /\ streams[id] \in Objs /\ obj[streams[id]].id = id
        BY <1>1, <2>1, <2>3 DEF Live
      <3> QED
        BY <1>2, <1>3, <3>1 DEF Grows, Objs
    <2> QED
      BY <1>2, <2>2, <2>3 DEF MapTypes, ControlKept, Live
  <1>5. CASE Creates
    <2>1. PICK new \in Ids : new # 0 /\ Create(new)
      BY <1>5 DEF Creates
    <2>2. /\ Len(obj') = Len(obj) + 1 /\ obj'[Len(obj) + 1].id = new
          /\ streams' = [streams EXCEPT ![new] = Len(obj) + 1]
      BY <1>1, <2>1, CreateEffect
    <2>3. streams' \in [Ids -> Nat \cup {None}] /\ streams'[0] = 1
      BY <1>1, <1>3, <2>1, <2>2
    <2>4. ASSUME NEW id \in Ids, streams'[id] # None
          PROVE  streams'[id] \in Objs' /\ obj'[streams'[id]].id = id
      <3>1. CASE id = new
        BY <1>1, <1>3, <2>2, <3>1 DEF Objs
      <3>2. CASE id # new
        <4>1. streams'[id] = streams[id] /\ streams[id] \in Objs /\ obj[streams[id]].id = id
          BY <1>1, <2>2, <2>4, <3>2 DEF Live
        <4> QED
          BY <1>2, <1>3, <4>1 DEF Grows, Objs
      <3> QED
        BY <3>1, <3>2
    <2> QED
      BY <1>2, <2>3, <2>4 DEF MapTypes, ControlKept, Live
  <1> QED
    BY <1>2, <1>4, <1>5

\* What a step does to the workers and to the writers' locks.
LEMMA TaskEffect ==
    ASSUME Inv, [Next]_vars
    PROVE  \/ task' = task /\ WritersKept
           \/ \E t \in Tasks : Finishes(t)
           \/ \E t \in Tasks : CloseMark(t)
           \/ \E t \in Tasks, o \in Objs : Write(t, o)
           \/ \E t \in Tasks : /\ pc(t) = "wLock" /\ obj' = obj /\ Moves(t)
                               /\ task' = [task EXCEPT ![t].pc = "wBody"]
  <1> USE DEF Inv
  <1>1. ASSUME OpenStep PROVE task' = task /\ WritersKept
    <2>1. Creates /\ task' = task
      BY <1>1, OpenEffect DEF OpenStep, Creates
    <2> QED
      BY <2>1, CreatesEffect
  <1>2. ASSUME NEW t \in Tasks, WriteHeader(t) \/ WritePayload(t)
        PROVE  \/ Finishes(t)
               \/ /\ pc(t) = "wLock" /\ obj' = obj /\ Moves(t)
                  /\ task' = [task EXCEPT ![t].pc = "wBody"]
    <2>1. CASE WriteHeader(t)
      BY <2>1, HeaderEffect
    <2>2. CASE WritePayload(t)
      BY <2>2, PayloadEffect
    <2> QED
      BY <1>2, <2>1, <2>2
  <1>3. ASSUME NEW t \in Tasks, CloseStep(t) PROVE Finishes(t)
    BY <1>3, CloseEffect, QuietFinishes DEF CloseStep
  <1>4. ASSUME NEW t \in Tasks, RemoveStep(t) PROVE Finishes(t)
    BY <1>4, RemoveEffect, Same, QuietFinishes DEF RemoveStep
  <1>5. ASSUME NEW t \in Tasks, MuxStep(t) PROVE Finishes(t) \/ (task' = task /\ WritersKept)
    BY <1>5, MuxEffect, Same, QuietFinishes
  <1>6. ASSUME NEW t \in Tasks, GetOpen(t) PROVE Finishes(t)
    <2>1. Quiet(t)
      BY <1>6, GetOpenEffect
    <2>2. obj' = obj \/ Creates
      BY <1>6, GetOpenEffect DEF Creates
    <2> QED
      BY <2>1, <2>2, Same, CreatesEffect, QuietFinishes
  <1>7. ASSUME ReadHeaderStep PROVE task' = task /\ WritersKept
    BY <1>7, Same DEF ReadHeaderStep, ReadHeader
  <1>8. ASSUME ReadErrorStep PROVE task' = task /\ WritersKept
    BY <1>8, Same DEF ReadErrorStep, ReadHeaderError, ReadDataError
  <1>9. ASSUME ReadData PROVE task' = task /\ WritersKept
    <2>1. task' = task /\ (obj' = obj \/ Creates)
      BY <1>9, ReadDataEffect DEF Creates
    <2> QED
      BY <2>1, Same, CreatesEffect
  <1>10. ASSUME Deliver PROVE task' = task /\ WritersKept
    BY <1>10, DeliverEffect
  <1>11. ASSUME Notify PROVE task' = task /\ WritersKept
    BY <1>11, NotifyEffect
  <1>12. ASSUME NEW o \in Objs, Consume(o) PROVE task' = task /\ WritersKept
    BY <1>12, ConsumeEffect
  <1>13. ASSUME ConnFails \/ UNCHANGED vars PROVE task' = task /\ WritersKept
    BY <1>13, Same DEF ConnFails, vars
  <1> QED
    BY <1>1, <1>2, <1>3, <1>4, <1>5, <1>6, <1>7, <1>8, <1>9, <1>10, <1>11, <1>12, <1>13, Steps

\* Locks: who writes holds the lock of its stream, which keeps others out.
LEMMA TasksKept ==
    ASSUME Inv, [Next]_vars
    PROVE  TaskTypes'
  <1>1. /\ task \in [Tasks -> Workers]
        /\ \A t \in Tasks : /\ at(t) \in Objs /\ task[t].todo \subseteq Objs
                            /\ task[t].pc = "gRemove" => task[t].id # 0
    BY DEF Inv, TaskTypes, pc
  <1>2. Objs \subseteq Objs'
    BY MapEffect DEF Grows, Inv, StreamTypes, Objs
  <1>3. CASE task' = task
    BY <1>1, <1>2, <1>3 DEF TaskTypes, pc, at
  <1>4. ASSUME NEW t \in Tasks, Moves(t) PROVE TaskTypes'
    <2>1. /\ task' = [task EXCEPT ![t] = task'[t]] /\ task'[t] \in Workers
          /\ task'[t].at \in Objs' /\ task'[t].todo \subseteq Objs'
          /\ task'[t].pc = "gRemove" => task'[t].id # 0
      BY <1>4 DEF Moves
    <2>2. task' \in [Tasks -> Workers]
      BY <1>1, <2>1
    <2>3. ASSUME NEW u \in Tasks
          PROVE  /\ task'[u].at \in Objs' /\ task'[u].todo \subseteq Objs'
                 /\ task'[u].pc = "gRemove" => task'[u].id # 0
      <3>1. CASE u = t
        BY <2>1, <3>1
      <3>2. CASE u # t
        <4>1. task'[u] = task[u]
          BY <1>1, <2>1, <3>2
        <4> QED
          BY <1>1, <1>2, <4>1 DEF at
      <3> QED
        BY <3>1, <3>2
    <2> QED
      BY <2>2, <2>3 DEF TaskTypes, pc, at
  <1>5. ASSUME NEW t \in Tasks, CloseMark(t) PROVE Moves(t)
    BY <1>5, CloseMarkEffect DEF Quiet, Inv
  <1>6. ASSUME NEW t \in Tasks, NEW o \in Objs, Write(t, o) PROVE Moves(t)
    BY <1>6, WriteEffect DEF Inv
  <1> QED
    BY <1>3, <1>4, <1>5, <1>6, TaskEffect DEF Finishes

LEMMA LockedKept ==
    ASSUME Inv, [Next]_vars
    PROVE  Locked'
  <1>1. /\ task \in [Tasks -> Workers] /\ \A u \in Tasks : at(u) \in Objs
        /\ \A u \in Tasks : Writing(u) => obj[at(u)].swMu = u /\ ~obj[at(u)].wclosed
    BY DEF Inv, TaskTypes, Locked
  <1>2. ASSUME NEW t \in Tasks, Moves(t), NEW u \in Tasks, u # t
        PROVE  task'[u] = task[u]
    BY <1>1, <1>2 DEF Moves
  <1>3. CASE task' = task /\ WritersKept
    BY <1>1, <1>3 DEF WritersKept, Locked, Writing, pc, at
  <1>4. ASSUME NEW t \in Tasks, Finishes(t)
        PROVE  Locked'
    <2> SUFFICES ASSUME NEW u \in Tasks, task'[u].pc \in {"wLock", "wBody"}
                 PROVE  obj'[task'[u].at].swMu = u /\ ~obj'[task'[u].at].wclosed
      BY DEF Locked, Writing, pc, at
    <2>1. u # t
      BY <1>4 DEF Finishes
    <2>2. task'[u] = task[u] /\ Writing(u)
      BY <1>2, <1>4, <2>1 DEF Finishes, Writing, pc
    <2>3. obj[at(u)].swMu = u /\ ~obj[at(u)].wclosed /\ at(u) \in Objs
      BY <1>1, <2>2
    <2>4. Writing(t) => at(u) # at(t)
      BY <1>1, <2>1, <2>3
    <2>5. obj'[at(u)].swMu = obj[at(u)].swMu /\ obj'[at(u)].wclosed = obj[at(u)].wclosed
      BY <1>4, <2>3, <2>4 DEF Finishes, WritersKept
    <2> QED
      BY <2>2, <2>3, <2>5 DEF at
  <1>5. ASSUME NEW t \in Tasks, CloseMark(t)
        PROVE  Locked'
    <2> SUFFICES ASSUME NEW u \in Tasks, task'[u].pc \in {"wLock", "wBody"}
                 PROVE  obj'[task'[u].at].swMu = u /\ ~obj'[task'[u].at].wclosed
      BY DEF Locked, Writing, pc, at
    <2>1. /\ Moves(t) /\ task'[t].pc \notin {"wLock", "wBody"} /\ obj[at(t)].swMu = None
          /\ \A p \in Objs : p # at(t) => obj'[p] = obj[p]
      BY <1>5, CloseMarkEffect DEF Inv, Quiet
    <2>2. task'[u] = task[u] /\ Writing(u)
      BY <1>2, <2>1 DEF Writing, pc
    <2>3. obj[at(u)].swMu = u /\ ~obj[at(u)].wclosed /\ at(u) \in Objs
      BY <1>1, <2>2
    <2>4. at(u) # at(t)
      BY MuxAssumption, <2>1, <2>3
    <2> QED
      BY <2>1, <2>2, <2>3, <2>4 DEF at
  <1>6. ASSUME NEW t \in Tasks, NEW o \in Objs, Write(t, o)
        PROVE  Locked'
    <2> SUFFICES ASSUME NEW u \in Tasks, task'[u].pc \in {"wLock", "wBody"}
                 PROVE  obj'[task'[u].at].swMu = u /\ ~obj'[task'[u].at].wclosed
      BY DEF Locked, Writing, pc, at
    <2>1. /\ Moves(t) /\ task'[t].at = o /\ obj[o].swMu = None
          /\ obj'[o].swMu = t /\ ~obj'[o].wclosed
          /\ \A p \in Objs : p # o => obj'[p] = obj[p]
      BY <1>6, WriteEffect DEF Inv
    <2>2. CASE u = t
      BY <2>1, <2>2
    <2>3. CASE u # t
      <3>1. task'[u] = task[u] /\ Writing(u)
        BY <1>2, <2>1, <2>3 DEF Writing, pc
      <3>2. obj[at(u)].swMu = u /\ ~obj[at(u)].wclosed /\ at(u) \in Objs
        BY <1>1, <3>1
      <3>3. at(u) # o
        BY MuxAssumption, <2>1, <3>2
      <3> QED
        BY <2>1, <3>1, <3>2, <3>3 DEF at
    <2> QED
      BY <2>2, <2>3
  <1>7. ASSUME NEW t \in Tasks, pc(t) = "wLock", obj' = obj, task' = [task EXCEPT ![t].pc = "wBody"]
        PROVE  Locked'
    <2>1. \A u \in Tasks : task'[u].at = task[u].at /\ (u # t => task'[u] = task[u])
      BY <1>1, <1>7 DEF Workers
    <2>2. \A u \in Tasks : task'[u].pc \in {"wLock", "wBody"} => Writing(u)
      BY <1>7, <2>1 DEF Writing, pc
    <2> QED
      BY <1>1, <1>7, <2>1, <2>2 DEF Locked, Writing, pc, at
  <1> QED
    BY <1>3, <1>4, <1>5, <1>6, <1>7, TaskEffect

LEMMA LoopKept ==
    ASSUME Inv, [Next]_vars
    PROVE  LoopTypes'
  <1>1. /\ rl \in {"header", "data", "deliver", "notify", "done"} /\ frame \in Frames
        /\ rlObj \in Objs /\ (rl = "deliver" => frame.kind # "bad")
    BY DEF Inv, LoopTypes
  <1>2. Objs \subseteq Objs'
    BY MapEffect DEF Grows, Inv, StreamTypes, Objs
  <1>3. CASE rloop' = rloop
    BY <1>1, <1>2, <1>3 DEF rloop, LoopTypes
  <1>4. CASE ReadHeaderStep
    <2>1. PICK id \in Ids, kind \in {"data", "eof", "bad"} : ReadHeader(id, kind)
      BY MuxAssumption, <1>4 DEF ReadHeaderStep, Ids
    <2>2. frame' = [id |-> id, kind |-> kind] /\ rl' = "data" /\ rlObj' = rlObj
      BY <2>1 DEF ReadHeader
    <2> QED
      BY <1>1, <1>2, <2>2 DEF LoopTypes, Frames
  <1>5. CASE ReadErrorStep
    <2>1. frame' = frame /\ rl' \in {"notify", "done"} /\ rlObj' = rlObj
      BY <1>5 DEF ReadErrorStep, ReadHeaderError, ReadDataError
    <2> QED
      BY <1>1, <1>2, <2>1 DEF LoopTypes
  <1>6. CASE ReadData
    <2>1. rl' = "deliver" /\ frame' = frame /\ frame.kind # "bad"
      BY <1>6, ReadDataEffect
    <2>2. rlObj' \in Objs'
      <3>1. CASE rlObj' \in Objs
        BY <1>2, <3>1
      <3>2. CASE Creates /\ rlObj' = Len(obj) + 1
        <4>1. Len(obj') = Len(obj) + 1 /\ Len(obj) \in Nat
          BY <3>2, CreatesEffect DEF Inv, StreamTypes
        <4> QED
          BY <3>2, <4>1 DEF Objs
      <3> QED
        BY <1>6, <3>1, <3>2, ReadDataEffect DEF Creates
    <2> QED
      BY <1>1, <2>1, <2>2 DEF LoopTypes
  <1>7. CASE Deliver
    BY <1>7, DeliverEffect DEF LoopTypes
  <1>8. CASE Notify
    <2>1. frame' = frame /\ rlObj' = rlObj /\ rl' = "done"
      BY <1>8, NotifyEffect
    <2> QED
      BY <1>1, <1>2, <2>1 DEF LoopTypes
  <1>9. OpenStep => rloop' = rloop
    BY OpenEffect DEF OpenStep
  <1>10. ASSUME NEW t \in Tasks
         PROVE  /\ \A o \in Objs : Write(t, o) => rloop' = rloop
                /\ WriteHeader(t) \/ WritePayload(t) \/ CloseMark(t) => rloop' = rloop
    BY <1>10, WriteEffect, HeaderEffect, PayloadEffect, CloseMarkEffect DEF Inv
  <1>11. ASSUME NEW t \in Tasks
         PROVE  CloseStep(t) \/ RemoveStep(t) \/ MuxStep(t) \/ GetOpen(t) => rloop' = rloop
    BY <1>11, CloseEffect, RemoveEffect, MuxEffect, GetOpenEffect DEF CloseStep, RemoveStep
  <1>12. \A o \in Objs : Consume(o) => rloop' = rloop
    BY ConsumeEffect
  <1>13. ConnFails \/ UNCHANGED vars => rloop' = rloop
    BY DEF ConnFails, vars
  <1> QED
    BY <1>3, <1>4, <1>5, <1>6, <1>7, <1>8, <1>9, <1>10, <1>11, <1>12, <1>13, Steps

\* Nobody comes to the payload of a frame, or goes from it.
Still == \A t \in Tasks : /\ task'[t].pc = "wBody" <=> pc(t) = "wBody"
                          /\ pc(t) = "wBody" => task'[t].at = at(t)

\* Only the steps of a frame touch the connection; it fails once.
LEMMA WireEffect ==
    ASSUME Inv, [Next]_vars
    PROVE  \/ Still /\ UNCHANGED wire /\ conn' \in {conn, "down"}
           \/ \E t \in Tasks : WriteHeader(t) \/ WritePayload(t)
  <1> USE DEF Inv
  <1>1. task' = task => Still
    BY DEF Still, pc, at
  <1>2. task \in [Tasks -> Workers]
    BY DEF TaskTypes
  <1>3. ASSUME NEW t \in Tasks, Moves(t), pc(t) # "wBody", task'[t].pc # "wBody"
        PROVE  Still
    BY <1>2, <1>3 DEF Still, Moves, pc, at
  <1>4. ASSUME NEW t \in Tasks, Quiet(t) PROVE Still
    BY <1>3, <1>4 DEF Quiet, Writing
  <1>5. OpenStep => Still /\ UNCHANGED <<wire, conn>>
    BY <1>1, OpenEffect DEF OpenStep
  <1>6. ASSUME NEW t \in Tasks, NEW o \in Objs, Write(t, o)
        PROVE  Still /\ UNCHANGED <<wire, conn>>
    <2>1. Moves(t) /\ ~Writing(t) /\ task'[t].pc = "wLock" /\ UNCHANGED <<wire, conn>>
      BY <1>6, WriteEffect
    <2> QED
      BY <1>3, <2>1 DEF Writing
  <1>7. ASSUME NEW t \in Tasks, CloseMark(t) \/ CloseStep(t) \/ RemoveStep(t) \/ GetOpen(t)
        PROVE  Still /\ UNCHANGED <<wire, conn>>
    BY <1>4, <1>7, CloseMarkEffect, CloseEffect, RemoveEffect, GetOpenEffect
       DEF CloseStep, RemoveStep
  <1>8. ASSUME NEW t \in Tasks, MuxStep(t)
        PROVE  Still /\ UNCHANGED wire /\ conn' \in {conn, "down"}
    BY <1>1, <1>4, <1>8, MuxEffect
  <1>9. ReadHeaderStep => Still /\ UNCHANGED <<wire, conn>>
    BY <1>1 DEF ReadHeaderStep, ReadHeader
  <1>10. ReadErrorStep => Still /\ UNCHANGED <<wire, conn>>
    BY <1>1 DEF ReadErrorStep, ReadHeaderError, ReadDataError
  <1>11. ReadData => Still /\ UNCHANGED <<wire, conn>>
    BY <1>1, ReadDataEffect
  <1>12. Deliver => Still /\ UNCHANGED <<wire, conn>>
    BY <1>1, DeliverEffect
  <1>13. Notify => Still /\ UNCHANGED <<wire, conn>>
    BY <1>1, NotifyEffect
  <1>14. \A o \in Objs : Consume(o) => Still /\ UNCHANGED <<wire, conn>>
    BY <1>1, ConsumeEffect
  <1>15. ConnFails \/ UNCHANGED vars => Still /\ UNCHANGED wire /\ conn' \in {conn, "down"}
    BY <1>1 DEF ConnFails, vars
  <1> QED
    BY <1>5, <1>6, <1>7, <1>8, <1>9, <1>10, <1>11, <1>12, <1>13, <1>14, <1>15, Steps

LEMMA WireKept ==
    ASSUME Inv, [Next]_vars
    PROVE  WireTypes'
  <1>1. /\ out \in Seq(Parts) /\ writeMu \in Owners /\ conn \in {"up", "down"}
        /\ \A t \in Tasks : obj[at(t)].id \in Ids
    <2>1. ASSUME NEW t \in Tasks PROVE obj[at(t)].id \in Ids
      <3>1. obj \in Seq(Records) /\ at(t) \in Objs
        BY DEF Inv, StreamTypes, TaskTypes
      <3>2. obj[at(t)] \in Records
        BY <3>1 DEF Objs
      <3> QED
        BY <3>2 DEF Records
    <2> QED
      BY <2>1 DEF Inv, WireTypes
  <1>2. CASE UNCHANGED wire /\ conn' \in {conn, "down"}
    BY <1>1, <1>2 DEF WireTypes, wire
  <1>3. ASSUME NEW t \in Tasks, NEW p \in {"header", "payload", "eof"},
               out' = Append(out, [part |-> p, id |-> obj[at(t)].id])
        PROVE  out' \in Seq(Parts)
    <2>1. [part |-> p, id |-> obj[at(t)].id] \in Parts
      BY <1>1 DEF Parts
    <2> QED
      BY <1>1, <1>3, <2>1
  <1>4. ASSUME NEW t \in Tasks, WriteHeader(t)
        PROVE  WireTypes'
    BY <1>1, <1>3, <1>4, HeaderEffect DEF WireTypes, Owners, HeaderOf
  <1>5. ASSUME NEW t \in Tasks, WritePayload(t)
        PROVE  WireTypes'
    BY <1>1, <1>3, <1>5, PayloadEffect DEF WireTypes, Owners
  <1> QED
    BY <1>2, <1>4, <1>5, WireEffect

\* A part is added: after a header its payload, and payload nowhere else.
LEMMA IntactAppend ==
    ASSUME out \in Seq(Parts), FramesIntact, NEW p \in Parts, out' = Append(out, p),
           p.part # "payload" /\ out # <<>> => out[Len(out)].part # "header",
           p.part = "payload" => out # <<>> /\ out[Len(out)] = [part |-> "header", id |-> p.id]
    PROVE  FramesIntact'
  <1>1. /\ Len(out) \in Nat /\ Len(out') = Len(out) + 1 /\ out'[Len(out) + 1] = p
        /\ \A i \in 1..Len(out) : out'[i] = out[i] /\ out[i] \in Parts
    OBVIOUS
  <1>2. \A q \in Parts : /\ [q EXCEPT !.part = "payload"] = [part |-> "payload", id |-> q.id]
                         /\ [q EXCEPT !.part = "header"] = [part |-> "header", id |-> q.id]
    BY DEF Parts
  <1>3. p.part = "payload" => p = [part |-> "payload", id |-> p.id]
    BY DEF Parts
  <1>4. out # <<>> <=> Len(out) > 0
    OBVIOUS
  <1> SUFFICES ASSUME NEW i \in 1..Len(out')
               PROVE  /\ out'[i].part = "header" /\ i < Len(out') =>
                            out'[i + 1] = [out'[i] EXCEPT !.part = "payload"]
                      /\ out'[i].part = "payload" =>
                            i > 1 /\ out'[i - 1] = [out'[i] EXCEPT !.part = "header"]
    BY DEF FramesIntact
  <1>5. CASE i < Len(out)
    <2>1. i \in 1..Len(out) /\ i + 1 \in 1..Len(out)
      BY <1>1, <1>5
    <2>2. out'[i] = out[i] /\ out'[i + 1] = out[i + 1] /\ (i > 1 => out'[i - 1] = out[i - 1])
      BY <1>1, <2>1
    <2> QED
      BY <1>5, <2>1, <2>2 DEF FramesIntact
  <1>6. CASE i = Len(out)
    <2>1. i \in 1..Len(out) /\ out'[i] = out[i] /\ out'[i + 1] = p /\ out[i] \in Parts
          /\ (i > 1 => out'[i - 1] = out[i - 1])
      BY <1>1, <1>6
    <2>2. out[i].part = "header" => p = [out[i] EXCEPT !.part = "payload"]
      <3>1. ASSUME out[i].part = "header" PROVE p.part = "payload" /\ out[i].id = p.id
        BY <1>4, <1>6, <2>1, <3>1
      <3> QED
        BY <1>2, <1>3, <2>1, <3>1
    <2> QED
      BY <2>1, <2>2 DEF FramesIntact
  <1>7. CASE i = Len(out) + 1
    <2>1. out'[i] = p /\ (Len(out) > 0 => i > 1 /\ out'[i - 1] = out[Len(out)]) /\ ~(i < Len(out'))
      BY <1>1, <1>7
    <2> QED
      BY <1>2, <1>4, <2>1
  <1>8. i < Len(out) \/ i = Len(out) \/ i = Len(out) + 1
    BY <1>1
  <1> QED
    BY <1>5, <1>6, <1>7, <1>8, Zenon

LEMMA FramingKept ==
    ASSUME Inv, [Next]_vars
    PROVE  Framing' /\ FramesIntact'
  <1>1. /\ \A t \in Tasks : pc(t) = "wBody" <=> writeMu = t
        /\ \A t \in Tasks : pc(t) = "wBody" => out # <<>> /\ out[Len(out)] = HeaderOf(t)
        /\ writeMu = None /\ conn = "up" /\ out # <<>> => out[Len(out)].part # "header"
    BY DEF Inv, Framing
  <1>2. /\ out \in Seq(Parts) /\ conn \in {"up", "down"} /\ FramesIntact
        /\ task \in [Tasks -> Workers] /\ \A t \in Tasks : at(t) \in Objs /\ obj[at(t)].id \in Ids
    <2>1. ASSUME NEW t \in Tasks PROVE at(t) \in Objs /\ obj[at(t)].id \in Ids
      <3>1. obj \in Seq(Records) /\ at(t) \in Objs
        BY DEF Inv, StreamTypes, TaskTypes
      <3>2. obj[at(t)] \in Records
        BY <3>1 DEF Objs
      <3> QED
        BY <3>1, <3>2 DEF Records
    <2> QED
      BY <2>1 DEF Inv, WireTypes, TaskTypes
  <1>3. \A o \in Objs : obj'[o].id = obj[o].id
    BY MapEffect DEF Grows
  <1>4. CASE Still /\ UNCHANGED wire /\ conn' \in {conn, "down"}
    <2>1. FramesIntact'
      BY <1>2, <1>4 DEF FramesIntact, wire
    <2>2. /\ \A t \in Tasks : task'[t].pc = "wBody" <=> writeMu' = t
          /\ writeMu' = None /\ conn' = "up" /\ out' # <<>> => out'[Len(out')].part # "header"
      BY <1>1, <1>2, <1>4 DEF Still, wire
    <2>3. ASSUME NEW t \in Tasks, task'[t].pc = "wBody"
          PROVE  out' # <<>> /\ out'[Len(out')] = [part |-> "header", id |-> obj'[task'[t].at].id]
      <3>1. pc(t) = "wBody" /\ task'[t].at = at(t) /\ out' = out
        BY <1>4, <2>3 DEF Still, wire
      <3> QED
        BY <1>1, <1>2, <1>3, <3>1 DEF HeaderOf
    <2> QED
      BY <2>1, <2>2, <2>3 DEF Framing, HeaderOf, pc, at
  <1>5. ASSUME NEW t \in Tasks, Moves(t), task'[t].pc # "wBody", writeMu' = None,
               writeMu \in {t, None}, conn' = conn,
               conn = "up" /\ out' # <<>> => out'[Len(out')].part # "header"
        PROVE  Framing'
    <2>1. \A u \in Tasks : task'[u].pc # "wBody"
      <3> TAKE u \in Tasks
      <3>1. CASE u = t
        BY <1>5, <3>1
      <3>2. CASE u # t
        <4>1. task'[u] = task[u]
          BY <1>2, <1>5, <3>2 DEF Moves
        <4> QED
          BY <1>1, <1>5, <3>2, <4>1, MuxAssumption DEF pc
      <3> QED
        BY <3>1, <3>2
    <2> QED
      BY <1>5, <2>1, MuxAssumption DEF Framing, pc
  <1>6. ASSUME NEW t \in Tasks, WriteHeader(t)
        PROVE  Framing' /\ FramesIntact'
    <2>1. writeMu = None /\ conn' = conn /\ pc(t) \in {"wLock", "cEof"}
      BY <1>6, HeaderEffect
    <2>2. CASE Finishes(t) /\ out' = out /\ writeMu' = None
      <3>1. FramesIntact'
        BY <1>2, <2>2 DEF FramesIntact
      <3> QED
        BY <1>1, <1>5, <2>1, <2>2, <3>1 DEF Finishes
    <2>3. CASE /\ Finishes(t) /\ writeMu' = None /\ conn = "up"
               /\ out' = Append(out, [part |-> "eof", id |-> obj[at(t)].id])
      <3>1. PICK p : p = [part |-> "eof", id |-> obj[at(t)].id]
        OBVIOUS
      <3>2. p \in Parts /\ p.part = "eof"
        BY <1>2, <3>1 DEF Parts
      <3>3. FramesIntact'
        BY <1>1, <1>2, <2>1, <2>3, <3>1, <3>2, IntactAppend
      <3>4. out'[Len(out')].part # "header"
        BY <1>2, <2>3, <3>1, <3>2
      <3> QED
        BY <1>5, <2>1, <2>3, <3>3, <3>4 DEF Finishes
    <2>4. CASE /\ obj' = obj /\ Moves(t) /\ task' = [task EXCEPT ![t].pc = "wBody"]
               /\ pc(t) = "wLock" /\ writeMu' = t /\ out' = Append(out, HeaderOf(t))
      <3>1. HeaderOf(t) \in Parts /\ HeaderOf(t).part = "header"
        BY <1>2 DEF Parts, HeaderOf
      <3>2. conn = "up"
        <4>1. HeaderOf(t) # [part |-> "eof", id |-> obj[at(t)].id] /\ out' # out
          BY <1>2, <2>4 DEF HeaderOf
        <4>2. CASE conn = "down"
          BY <1>6, <2>1, <2>4, <4>1, <4>2 DEF WriteHeader
        <4> QED
          BY <1>2, <4>2
      <3>3. FramesIntact'
        BY <1>1, <1>2, <2>1, <2>4, <3>1, <3>2, IntactAppend
      <3>4. out' # <<>> /\ out'[Len(out')] = HeaderOf(t)
        BY <1>2, <2>4, <3>1
      <3>5. task'[t].pc = "wBody" /\ task'[t].at = at(t)
        BY <1>2, <2>4 DEF Workers, at
      <3>6. \A u \in Tasks : u # t => task'[u] = task[u] /\ pc(u) # "wBody"
        BY <1>1, <1>2, <2>1, <2>4, MuxAssumption
      <3>7. \A u \in Tasks : task'[u].pc = "wBody" <=> u = t
        BY <3>5, <3>6 DEF pc
      <3> QED
        BY <2>4, <3>3, <3>4, <3>5, <3>7, MuxAssumption DEF Framing, HeaderOf, pc, at
    <2> QED
      BY <1>6, <2>2, <2>3, <2>4, HeaderEffect
  <1>7. ASSUME NEW t \in Tasks, WritePayload(t)
        PROVE  Framing' /\ FramesIntact'
    <2>1. /\ conn' = conn /\ pc(t) = "wBody" /\ Finishes(t) /\ writeMu' = None /\ writeMu = t
          /\ out # <<>> /\ out[Len(out)] = HeaderOf(t)
      BY <1>1, <1>7, PayloadEffect
    <2>2. CASE conn = "down" /\ out' = out
      <3>1. FramesIntact'
        BY <1>2, <2>2 DEF FramesIntact
      <3> QED
        BY <1>5, <2>1, <2>2, <3>1 DEF Finishes
    <2>3. CASE conn # "down" /\ out' = Append(out, [part |-> "payload", id |-> obj[at(t)].id])
      <3>1. PICK p : p = [part |-> "payload", id |-> obj[at(t)].id]
        OBVIOUS
      <3>2. p \in Parts /\ p.part = "payload" /\ HeaderOf(t) = [part |-> "header", id |-> p.id]
        BY <1>2, <3>1 DEF Parts, HeaderOf
      <3>3. FramesIntact'
        BY <1>1, <1>2, <2>1, <2>3, <3>1, <3>2, IntactAppend
      <3>4. out'[Len(out')].part # "header"
        BY <1>2, <2>3, <3>1, <3>2
      <3> QED
        BY <1>5, <2>1, <2>3, <3>3, <3>4 DEF Finishes
    <2> QED
      BY <1>7, <2>2, <2>3, PayloadEffect
  <1> QED
    BY <1>4, <1>6, <1>7, WireEffect

\* What a step does to readLoop, as far as its end is concerned.
LEMMA EndEffect ==
    ASSUME Inv, [Next]_vars
    PROVE  \/ rl' = rl /\ cut' = cut
           \/ rl' \notin {"notify", "done"}
           \/ rl' = "notify" /\ closed'
           \/ rl' = "done" /\ cut' /\ closed'
           \/ Notify
  <1>1. rloop' = rloop => rl' = rl /\ cut' = cut
    BY DEF rloop
  <1>2. ReadHeaderStep => rl' = "data"
    BY DEF ReadHeaderStep, ReadHeader
  <1>3. ReadHeaderError => rl' = "notify" /\ closed'
    BY Zenon DEF ReadHeaderError
  <1>4. ReadDataError => rl' = "done" /\ cut' /\ closed'
    BY Zenon DEF ReadDataError
  <1>5. ReadData => rl' = "deliver"
    BY DEF ReadData
  <1>6. Deliver => rl' = "header"
    BY DEF Deliver
  <1>7. OpenStep => rloop' = rloop
    BY OpenEffect DEF OpenStep
  <1>8. ASSUME NEW t \in Tasks
        PROVE  /\ \A o \in Objs : Write(t, o) => rloop' = rloop
               /\ WriteHeader(t) \/ WritePayload(t) \/ CloseMark(t) => rloop' = rloop
    BY <1>8, WriteEffect, HeaderEffect, PayloadEffect, CloseMarkEffect DEF Inv
  <1>9. ASSUME NEW t \in Tasks
        PROVE  CloseStep(t) \/ RemoveStep(t) \/ MuxStep(t) \/ GetOpen(t) => rloop' = rloop
    BY <1>9, CloseEffect, RemoveEffect, MuxEffect, GetOpenEffect DEF CloseStep, RemoveStep
  <1>10. \A o \in Objs : Consume(o) => rloop' = rloop
    BY ConsumeEffect
  <1>11. ConnFails \/ UNCHANGED vars => rloop' = rloop
    BY DEF ConnFails, vars
  <1> QED
    BY <1>1, <1>2, <1>3, <1>4, <1>5, <1>6, <1>7, <1>8, <1>9, <1>10, <1>11, Steps DEF ReadErrorStep

LEMMA TellingKept ==
    ASSUME Inv, [Next]_vars
    PROVE  Telling'
  <1>1. /\ rl \in {"notify", "done"} => closed
        /\ rl = "done" /\ ~cut => \A id \in Ids : Live(id) => obj[streams[id]].told
    BY DEF Inv, Telling, EveryStreamTold
  <1>2. /\ Grows /\ (closed => closed')
        /\ Shrinks \/ {rl, rl'} \cap {"notify", "done"} = {}
    BY MapEffect
  <1>3. /\ streams \in [Ids -> Nat \cup {None}]
        /\ \A id \in Ids : Live(id) => streams[id] \in Objs
    BY DEF Inv, MapTypes
  <1>4. Shrinks => \A id \in Ids : streams'[id] \in {streams[id], None}
    BY <1>3 DEF Shrinks
  <1>5. CASE rl' = rl /\ cut' = cut
    <2>1. rl' \in {"notify", "done"} => closed'
      BY <1>1, <1>2, <1>5
    <2>2. ASSUME rl' = "done", ~cut', NEW id \in Ids, streams'[id] # None
          PROVE  obj'[streams'[id]].told
      <3>1. streams'[id] = streams[id]
        BY <1>2, <1>4, <1>5, <2>2
      <3>2. Live(id) /\ streams[id] \in Objs /\ obj[streams[id]].told
        BY <1>1, <1>3, <1>5, <2>2, <3>1 DEF Live
      <3> QED
        BY <1>2, <3>1, <3>2 DEF Grows
    <2> QED
      BY <2>1, <2>2 DEF Telling, EveryStreamTold, Live
  <1>6. CASE rl' \notin {"notify", "done"}
    BY <1>6 DEF Telling, EveryStreamTold
  <1>7. CASE rl' = "notify" /\ closed'
    BY <1>7 DEF Telling, EveryStreamTold
  <1>8. CASE rl' = "done" /\ cut' /\ closed'
    BY <1>8 DEF Telling, EveryStreamTold
  <1>9. CASE Notify
    <2>1. /\ streams' = streams /\ closed' = closed /\ rl = "notify" /\ rl' = "done"
          /\ \A id \in Ids : Live(id) => obj'[streams[id]].told
      BY <1>9, NotifyEffect DEF map
    <2> QED
      BY <1>1, <2>1 DEF Telling, EveryStreamTold, Live
  <1> QED
    BY <1>5, <1>6, <1>7, <1>8, <1>9, EndEffect
-----------------------------------------------------------------------------
(* The results.                                                            *)

LEMMA InitInv == Init => Inv
  <1> SUFFICES ASSUME Init PROVE Inv
    OBVIOUS
  <1>1. 0 \in Ids /\ 1 \in Ids /\ 1 # None
    BY MuxAssumption DEF Ids
  <1>2. obj = <<NewStream(0)>> /\ streams = [id \in Ids |-> IF id = 0 THEN 1 ELSE None]
    BY DEF Init
  <1>3. NewStream(0) \in Records /\ NewStream(0).id = 0
    BY <1>1, MuxAssumption DEF NewStream, Records, Owners
  <1>4. obj \in Seq(Records) /\ Len(obj) = 1 /\ obj[1].id = 0
    BY <1>2, <1>3
  <1>5. Objs = {1}
    BY <1>4 DEF Objs
  <1>6. StreamTypes
    BY <1>4, <1>5 DEF StreamTypes
  <1>7. MapTypes /\ ControlKept
    <2>1. streams \in [Ids -> Nat \cup {None}] /\ streams[0] = 1
      BY <1>1, <1>2
    <2>2. \A id \in Ids : streams[id] # None => id = 0
      BY <1>2
    <2>3. nextID \in Ids /\ closed \in BOOLEAN
      BY <1>1, Zenon DEF Init
    <2> QED
      BY <1>4, <1>5, <2>1, <2>2, <2>3 DEF MapTypes, ControlKept, Live
  <1>8. \A t \in Tasks : task[t] = Idle
    BY DEF Init
  <1>9. TaskTypes
    <2>1. task \in [Tasks -> Workers]
      BY IdleType DEF Init
    <2> QED
      BY <1>5, <1>8, <2>1, IdleType DEF TaskTypes, pc, at
  <1>10. LoopTypes
    BY <1>1, <1>5 DEF Init, LoopTypes, NoFrame, Frames
  <1>11. WireTypes
    BY DEF Init, WireTypes, Owners
  <1>12. \A t \in Tasks : pc(t) = "idle"
    BY <1>8, IdleType DEF pc
  <1>13. Locked
    BY <1>12 DEF Locked, Writing
  <1>14. out = <<>> /\ writeMu = None /\ rl = "header"
    BY DEF Init
  <1>15. Framing /\ FramesIntact /\ Telling
    BY <1>12, <1>14, MuxAssumption DEF Framing, FramesIntact, Telling, EveryStreamTold
  <1> QED
    BY <1>6, <1>7, <1>9, <1>10, <1>11, <1>13, <1>15 DEF Inv

LEMMA Invariance == Spec => []Inv
  <1>1. Inv /\ [Next]_vars => Inv'
    BY StreamsKept, MapKept, TasksKept, LoopKept, WireKept, LockedKept, FramingKept,
       TellingKept DEF Inv
  <1> QED
    BY <1>1, InitInv, PTL DEF Spec

(***************************************************************************)
(* Types; no dataChan holds more than Cap frames, and the map names stream *)
(* objects of its own IDs, whatever opens, closes and early frames do.     *)
(***************************************************************************)
THEOREM MultiplexerTypeCorrect == Spec => []TypeOK
  <1>1. Inv => TypeOK
    <2> SUFFICES ASSUME Inv PROVE TypeOK
      OBVIOUS
    <2>1. \A o \in Objs : obj[o] \in Records
      BY DEF Inv, StreamTypes, Objs
    <2>2. \A o \in Objs : /\ obj[o].id \in Ids /\ Len(obj[o].q) <= Cap
                          /\ obj[o].sMu \in Tasks \cup {None} /\ obj[o].swMu \in Tasks \cup {None}
      BY <2>1 DEF Records, Owners
    <2>3. \A t \in Tasks : pc(t) \in PCs /\ at(t) \in Objs /\ task[t].todo \subseteq Objs
      BY DEF Inv, TaskTypes, Workers, pc
    <2> QED
      BY <2>2, <2>3 DEF TypeOK, Inv, MapTypes, WireTypes, LoopTypes, Owners
  <1> QED
    BY <1>1, Invariance, PTL

(***************************************************************************)
(* Header and payload of a frame are next to each other on the connection: *)
(* writeMu keeps all other writers, EOF frames and Close between them out. *)
(***************************************************************************)
THEOREM FramesStayIntact == Spec => []FramesIntact
  <1>1. Inv => FramesIntact
    BY DEF Inv
  <1> QED
    BY <1>1, Invariance, PTL

(***************************************************************************)
(* ID 0 stays with the control stream, whatever nextID wraps around to.    *)
(***************************************************************************)
THEOREM ControlStays == Spec => []ControlKept
  <1>1. Inv => ControlKept
    BY DEF Inv
  <1> QED
    BY <1>1, Invariance, PTL

(***************************************************************************)
(* After Stream.Close has marked the writer closed no Write of the stream  *)
(* is under way: it held the writer's lock, for which the mark waits.      *)
(***************************************************************************)
THEOREM ClosedIsSilent == Spec => []SilentAfterClose
  <1>1. Inv => SilentAfterClose
    BY DEF Inv, Locked, SilentAfterClose, Writing
  <1> QED
    BY <1>1, Invariance, PTL

(***************************************************************************)
(* When readLoop has ended at a frame boundary, every stream of the map    *)
(* has been told; closed is set by then and keeps later streams out.       *)
(***************************************************************************)
THEOREM AllStreamsTold == Spec => []EveryStreamTold
  <1>1. Inv => EveryStreamTold
    BY DEF Inv, Telling
  <1> QED
    BY <1>1, Invariance, PTL
=============================================================================
