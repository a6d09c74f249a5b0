---------------------------- MODULE FbLinkProofs ----------------------------
(***************************************************************************)
(* Theorems about modules CanopenPdo and FbLink, for every size of the     *)
(* mapping tables, every timeout and every delay of the control loop.      *)
(***************************************************************************)
EXTENDS FbLink, FiniteSetTheorems, TLAPS

-----------------------------------------------------------------------------
(* Entries that are configured by a mapping m.                             *)

(* In service, an entry holds the whole mapping and no more.               *)
Agrees(e, m) ==
  /\ e.map_entries \in {0, Len(m)}
  /\ \A s \in 1 .. e.map_entries : e.map[s] = m[s]

(* The slots that were written before step n.                              *)
WrittenUpTo(e, m, n) == \A s \in 1 .. Len(m) : s + 3 < n => e.map[s] = m[s]

IsMapping(m) == m \in Seq(Objects) /\ Len(m) \in 1 .. MapSize

LEMMA BlankAgrees ==
  ASSUME NEW m, IsMapping(m)
  PROVE  Blank \in Entries /\ Agrees(Blank, m)
BY PdoAssumption DEF IsMapping, Blank, Entries, Agrees, Slots

(* Every step of a configuration keeps the entry in agreement.             *)
LEMMA WrittenAgrees ==
  ASSUME NEW m, IsMapping(m), NEW e \in Entries, NEW n \in Steps(m),
         Agrees(e, m), WrittenUpTo(e, m, n)
  PROVE  /\ Written(e, m, n) \in Entries
         /\ Agrees(Written(e, m, n), m)
         /\ WrittenUpTo(Written(e, m, n), m, n + 1)
<1>1. /\ MapSize \in Nat /\ Len(m) \in 1 .. MapSize /\ n \in 1 .. Len(m) + 5
      /\ \A s \in 1 .. Len(m) : m[s] \in Objects
  BY PdoAssumption DEF IsMapping, Steps
<1>2. CASE n \in 4 .. Len(m) + 3
  <2>1. Written(e, m, n) = [e EXCEPT !.map[n - 3] = m[n - 3]]
    BY <1>1, <1>2 DEF Written
  <2>2. n - 3 \in Slots /\ n - 3 \in 1 .. Len(m)
    BY <1>1, <1>2 DEF Slots
  <2> QED
    BY <1>1, <2>1, <2>2 DEF Entries, Agrees, WrittenUpTo
<1>3. CASE n \notin 4 .. Len(m) + 3
  <2>1. \A s \in 1 .. Len(m) : s + 3 < n + 1 => s + 3 < n
    BY <1>1, <1>3
  <2>2. CASE n = 1
    BY <1>1, <2>1, <2>2 DEF Written, Entries, Agrees, WrittenUpTo
  <2>3. CASE n = 2
    <3>1. Written(e, m, n) = [e EXCEPT !.cyclic = TRUE]
      BY <1>1, <2>3 DEF Written
    <3> QED
      BY <1>1, <2>1, <3>1 DEF Entries, Agrees, WrittenUpTo
  <2>4. CASE n = 3
    BY <1>1, <2>1, <2>4 DEF Written, Entries, Agrees, WrittenUpTo
  <2>5. CASE n = Len(m) + 4
    <3>1. Written(e, m, n) = [e EXCEPT !.map_entries = Len(m)]
      BY <1>1, <2>5 DEF Written
    <3>2. \A s \in 1 .. Len(m) : e.map[s] = m[s]
      BY <1>1, <2>5 DEF WrittenUpTo
    <3> QED
      BY <1>1, <3>1, <3>2 DEF Entries, Agrees, WrittenUpTo
  <2>6. CASE n = Len(m) + 5
    <3>1. Written(e, m, n) = [e EXCEPT !.cob = "enabled"]
      BY <1>1, <2>6 DEF Written
    <3> QED
      BY <1>1, <2>1, <3>1 DEF Entries, Agrees, WrittenUpTo
  <2> QED
    BY <1>1, <1>3, <2>2, <2>3, <2>4, <2>5, <2>6
<1> QED
  BY <1>2, <1>3

(* A frame that an entry in service produces is its mapping, and what an   *)
(* entry in service takes from it goes where it came from.                 *)
LEMMA FrameIsMapping ==
  ASSUME NEW m, IsMapping(m), NEW e \in Entries, Agrees(e, m), e.map_entries > 0
  PROVE  Len(Frame(e)) = Len(m) /\ \A n \in 1 .. Len(m) : Frame(e)[n] = m[n]
<1>1. PICK k \in Nat : k = Len(m) /\ k \in 1 .. MapSize /\ k = e.map_entries
  BY PdoAssumption DEF IsMapping, Agrees
<1>2. \A s \in 1 .. k : e.map[s] = m[s] /\ m[s] \in Objects /\ m[s] # NoObject
  <2>1. \A s \in 1 .. k : m[s] \in Objects
    <3>1. \A s \in 1 .. Len(m) : m[s] \in Objects
      BY DEF IsMapping
    <3> QED
      BY <1>1, <3>1, Zenon
  <2> QED
    BY <1>1, <2>1, PdoAssumption DEF Agrees
<1>3. Occupied(e) = 1 .. k
  BY <1>1, <1>2 DEF Occupied
<1>4. \A s \in 1 .. k : Place(e, s) = s
  <2> TAKE s \in 1 .. k
  <2>1. {t \in Occupied(e) : t <= s} = 1 .. s
    BY <1>1, <1>3
  <2>2. Cardinality(1 .. s) = s
    BY <1>1, FS_Interval
  <2> QED
    BY <2>1, <2>2 DEF Place
<1>5. Cardinality(Occupied(e)) = k
  BY <1>1, <1>3, FS_Interval
<1>6. \A n \in 1 .. k : (CHOOSE s \in Occupied(e) : Place(e, s) = n) = n
  <2> TAKE n \in 1 .. k
  <2>1. n \in Occupied(e) /\ Place(e, n) = n
    BY <1>3, <1>4
  <2>2. \A s \in Occupied(e) : Place(e, s) = n => s = n
    BY <1>3, <1>4
  <2> QED
    BY <2>1, <2>2
<1>7. Frame(e) = [n \in 1 .. k |-> e.map[n]]
  <2>1. Frame(e) = [n \in 1 .. k |-> e.map[CHOOSE s \in Occupied(e) : Place(e, s) = n]]
    BY <1>5 DEF Frame
  <2> QED
    BY <1>6, <2>1, Zenon
<1> QED
  BY <1>1, <1>2, <1>7

LEMMA DeliveriesAgree ==
  ASSUME NEW m, IsMapping(m), NEW e \in Entries, NEW f \in Entries,
         Agrees(e, m), Agrees(f, m), e.map_entries > 0
  PROVE  \A d \in Deliveries(f, Frame(e)) : d[1] = d[2] /\ d \in Objects \X Objects
<1> TAKE d \in Deliveries(f, Frame(e))
<1>1. PICK s \in 1 .. f.map_entries : d = <<IF s <= Len(Frame(e)) THEN Frame(e)[s] ELSE NoObject, f.map[s]>>
  BY DEF Deliveries
<1>2. s \in 1 .. Len(m) /\ f.map[s] = m[s] /\ m[s] \in Objects
  BY PdoAssumption DEF IsMapping, Agrees, Entries
<1>3. Len(Frame(e)) = Len(m) /\ Frame(e)[s] = m[s]
  BY <1>2, FrameIsMapping
<1>4. s <= Len(Frame(e))
  BY <1>2, <1>3 DEF IsMapping
<1> QED
  BY <1>1, <1>2, <1>3, <1>4

-----------------------------------------------------------------------------
(* The two boards.                                                         *)

LEMMA LinkConstants ==
  SlaveTimeout \in Nat /\ MaxLate \in Nat \ {0} /\ MapSize \in Nat /\ MapSize >= 4
BY LinkAssumption, PdoAssumption

LEMMA MappingsFit ==
  \A p \in Pdos : IsMapping(Mapping[p])
<1>1. /\ Mapping["demand"] = <<"PITCH_DEMAND", "YAW_DEMAND">>
      /\ Mapping["items"] = <<"PITCH", "YAW", "I_PITCH", "I_YAW">>
      /\ Mapping["vmot"] = <<"VMOT">>
  BY DEF Mapping
<1>2. \A o \in {"PITCH_DEMAND", "YAW_DEMAND", "PITCH", "YAW", "I_PITCH", "I_YAW", "VMOT"} : o \in Objects
  BY LinkAssumption, Zenon
<1>3. IsMapping(Mapping["demand"])
  BY <1>1, <1>2, LinkConstants DEF IsMapping
<1>4. IsMapping(Mapping["items"])
  BY <1>1, <1>2, LinkConstants DEF IsMapping
<1>5. IsMapping(Mapping["vmot"])
  BY <1>1, <1>2, LinkConstants DEF IsMapping
<1> QED
  BY <1>3, <1>4, <1>5, Zenon DEF Pdos

LEMMA CallsTyped ==
  /\ DOMAIN Calls = 1 .. 6 /\ Len(Calls) = 6
  /\ \A c \in 1 .. 6 : Calls[c].board \in Boards /\ Calls[c].pdo \in Pdos
BY DEF Calls, Boards, Pdos

ControlOK ==
  /\ pc \in {"wait", "configure"}
  /\ call \in DOMAIN Calls /\ step \in Steps(Mapping[Pdo])
  /\ paced \in BOOLEAN /\ late \in 0 .. MaxLate
  /\ up \in BOOLEAN /\ calm \in BOOLEAN

MonitorOK ==
  /\ valid_bits \subseteq Items
  /\ slave_left \in -1 .. SlaveTimeout
  /\ timed_out \in BOOLEAN

TablesOK ==
  /\ pdo \in [Boards -> [Pdos -> Entries]]
  /\ \A b \in Boards, p \in Pdos : Agrees(pdo[b][p], Mapping[p])

(* While it is configured, an entry holds the slots that were written; a   *)
(* slave that has restarted in between stays down until the master gives   *)
(* up.                                                                     *)
ProgressOK ==
  pc = "configure" /\ (Board = "slave" => up)
    => WrittenUpTo(pdo[Board][Pdo], Mapping[Pdo], step)

DeliveredOK == \A d \in delivered : d[1] = d[2] /\ d \in Objects \X Objects

LinkInv == ControlOK /\ MonitorOK /\ TablesOK /\ ProgressOK /\ DeliveredOK

LEMMA FirstStep ==
  ASSUME NEW c \in DOMAIN Calls
  PROVE  1 \in Steps(Mapping[Calls[c].pdo])
<1>1. Calls[c].pdo \in Pdos
  BY CallsTyped
<1>2. Len(Mapping[Calls[c].pdo]) \in Nat
  BY <1>1, MappingsFit, PdoAssumption DEF IsMapping
<1> QED
  BY <1>2 DEF Steps

LEMMA NothingWritten ==
  ASSUME NEW e, NEW m, Len(m) \in Nat
  PROVE  WrittenUpTo(e, m, 1)
BY DEF WrittenUpTo

LEMMA LinkInit == Init => LinkInv
<1> SUFFICES ASSUME Init PROVE LinkInv
  OBVIOUS
<1>1. ControlOK
  <2>1. call = 1 /\ step = 1 /\ pc = "wait" /\ paced = FALSE /\ late = 0 /\ up = FALSE /\ calm = FALSE
    BY DEF Init
  <2>2. 1 \in DOMAIN Calls /\ 1 \in Steps(Mapping[Calls[1].pdo])
    BY FirstStep, CallsTyped
  <2> QED
    <3>1. call \in DOMAIN Calls /\ step \in Steps(Mapping[Pdo])
      BY <2>1, <2>2, Zenon DEF Pdo
    <3>2. late \in 0 .. MaxLate
      BY <2>1, LinkConstants
    <3> QED
      BY <2>1, <3>1, <3>2 DEF ControlOK
<1>2. MonitorOK
  <2>1. valid_bits = {} /\ slave_left = -1 /\ timed_out = FALSE
    BY DEF Init
  <2>2. -1 \in -1 .. SlaveTimeout
    BY LinkConstants
  <2> QED
    BY <2>1, <2>2 DEF MonitorOK
<1>3. TablesOK
  BY MappingsFit, BlankAgrees DEF Init, TablesOK
<1>4. ProgressOK /\ DeliveredOK
  BY DEF Init, ProgressOK, DeliveredOK
<1> QED
  BY <1>1, <1>2, <1>3, <1>4 DEF LinkInv

-----------------------------------------------------------------------------
(* The steps.                                                              *)

(* One write of a configuration, on either board.                          *)
LEMMA WriteKeepsTables ==
  ASSUME LinkInv, pc = "configure", Board = "slave" => up, WriteStep
  PROVE  /\ TablesOK'
         /\ WrittenUpTo(pdo'[Board][Pdo], Mapping[Pdo], step + 1)
<1>1. Board \in Boards /\ Pdo \in Pdos
  BY CallsTyped DEF LinkInv, ControlOK, Board, Pdo
<1>2. IsMapping(Mapping[Pdo]) /\ step \in Steps(Mapping[Pdo])
  BY <1>1, MappingsFit DEF LinkInv, ControlOK
<1>3. PICK e \in Entries : e = pdo[Board][Pdo]
  BY <1>1 DEF LinkInv, TablesOK
<1>4. Agrees(e, Mapping[Pdo]) /\ WrittenUpTo(e, Mapping[Pdo], step)
  BY <1>1, <1>3, Zenon DEF LinkInv, TablesOK, ProgressOK
<1>5. PICK f \in Entries : f = Written(e, Mapping[Pdo], step)
  BY <1>2, <1>4, WrittenAgrees
<1>6. Agrees(f, Mapping[Pdo]) /\ WrittenUpTo(f, Mapping[Pdo], step + 1)
  BY <1>2, <1>4, <1>5, WrittenAgrees
<1>7. pdo \in [Boards -> [Pdos -> Entries]]
  BY DEF LinkInv, TablesOK
<1>8. pdo' = [pdo EXCEPT ![Board][Pdo] = f]
  BY <1>1, <1>3, <1>5, <1>7 DEF WriteStep
<1>9. pdo'[Board][Pdo] = f /\ pdo' \in [Boards -> [Pdos -> Entries]]
  BY <1>1, <1>7, <1>8
<1>10. ASSUME NEW b \in Boards, NEW p \in Pdos PROVE Agrees(pdo'[b][p], Mapping[p])
  <2>1. CASE b = Board /\ p = Pdo
    BY <1>6, <1>9, <2>1, Zenon
  <2>2. CASE ~(b = Board /\ p = Pdo)
    <3>1. pdo'[b][p] = pdo[b][p]
      BY <1>1, <1>7, <1>8, <2>2
    <3> QED
      BY <3>1, Zenon DEF LinkInv, TablesOK
  <2> QED
    BY <2>1, <2>2
<1> QED
  BY <1>6, <1>9, <1>10 DEF TablesOK

(* Where the configuration goes on is a place in it.                       *)
LEMMA GoOnKeepsControl ==
  ASSUME LinkInv, GoOn, pc = "configure", UNCHANGED <<late, up, calm>>
  PROVE  /\ ControlOK'
         /\ \/ call' = call /\ step' = step + 1 /\ pc' = pc
            \/ step' = 1
<1>1. call \in 1 .. 6 /\ step \in Steps(Mapping[Pdo])
  BY CallsTyped DEF LinkInv, ControlOK
<1>2. CASE step + 1 \in Steps(Mapping[Pdo])
  <2>1. call' = call /\ step' = step + 1 /\ pc' = pc /\ paced' = paced
    BY <1>2 DEF GoOn
  <2>2. Pdo' = Pdo
    BY <2>1 DEF Pdo
  <2> QED
    BY <1>2, <2>1, <2>2 DEF LinkInv, ControlOK
<1>3. CASE step + 1 \notin Steps(Mapping[Pdo])
  <2>1. step' = 1 /\ paced' = FALSE /\ call' \in 1 .. 6 /\ pc' \in {"wait", "configure"}
    BY <1>1, <1>3, CallsTyped DEF GoOn
  <2>2. 1 \in Steps(Mapping[Calls[call'].pdo])
    BY <2>1, FirstStep, CallsTyped
  <2>3. call' \in DOMAIN Calls /\ step' \in Steps(Mapping[Pdo'])
    BY <2>1, <2>2, CallsTyped, Zenon DEF Pdo
  <2> QED
    BY <2>1, <2>3 DEF LinkInv, ControlOK
<1> QED
  BY <1>2, <1>3

(* A board that restarts comes up with tables that agree.                  *)
LEMMA RestartKeepsTables ==
  ASSUME TablesOK, NEW b \in Boards, pdo' = [pdo EXCEPT ![b] = [p \in Pdos |-> Blank]]
  PROVE  TablesOK' /\ \A c \in Boards : c # b => pdo'[c] = pdo[c]
BY MappingsFit, BlankAgrees DEF TablesOK

(* At the first write of a configuration, or with none in progress, nothing *)
(* is asked of the entry.                                                  *)
LEMMA AtFirstStep ==
  ASSUME LinkInv, pc' \in {"wait", "configure"}, call' = 1, step' = 1,
         paced' \in BOOLEAN, late' \in 0 .. MaxLate, UNCHANGED <<up, calm>>
  PROVE  ControlOK' /\ ProgressOK'
<1>1. 1 \in DOMAIN Calls /\ 1 \in Steps(Mapping[Calls[1].pdo])
  BY FirstStep, CallsTyped
<1>2. call' \in DOMAIN Calls /\ step' \in Steps(Mapping[Pdo'])
  BY <1>1, Zenon DEF Pdo
<1>3. ControlOK'
  BY <1>2 DEF LinkInv, ControlOK
<1>4. \A s : s \in Nat => ~(s + 3 < 1)
  OBVIOUS
<1>5. \A m : Len(m) \in Nat => \A s \in 1 .. Len(m) : ~(s + 3 < 1)
  BY <1>4
<1>6. Len(Mapping[Pdo']) \in Nat
  BY <1>2, CallsTyped, MappingsFit, PdoAssumption DEF Pdo, IsMapping
<1>7. \A e : WrittenUpTo(e, Mapping[Pdo'], 1)
  BY <1>6, NothingWritten
<1> QED
  BY <1>3, <1>7 DEF ProgressOK

LEMMA PassStep ==
  ASSUME LinkInv, Pass
  PROVE  LinkInv'
<1>1. pc' \in {"wait", "configure"} /\ late' \in 0 .. MaxLate
  BY LinkConstants DEF Pass, LinkInv, ControlOK
<1>2. ControlOK' /\ ProgressOK'
  BY <1>1, AtFirstStep DEF Pass
<1>3. MonitorOK'
  BY LinkConstants DEF Pass, Monitor, LinkInv, MonitorOK
<1>4. TablesOK' /\ DeliveredOK'
  BY DEF Pass, LinkInv, TablesOK, DeliveredOK
<1> QED
  BY <1>2, <1>3, <1>4 DEF LinkInv

LEMMA ConfigureStep ==
  ASSUME LinkInv, Configure
  PROVE  LinkInv'
<1>1. /\ TablesOK'
      /\ WrittenUpTo(pdo'[Board][Pdo], Mapping[Pdo], step + 1)
  BY WriteKeepsTables DEF Configure
<1>2. /\ ControlOK'
      /\ \/ call' = call /\ step' = step + 1 /\ pc' = pc
         \/ step' = 1
  BY GoOnKeepsControl DEF Configure
<1>3. ProgressOK'
  <2>1. CASE call' = call /\ step' = step + 1
    BY <1>1, <2>1 DEF ProgressOK, Board, Pdo
  <2>2. CASE step' = 1
    <3>1. Pdo' \in Pdos
      BY <1>2, CallsTyped DEF ControlOK, Pdo
    <3>2. Len(Mapping[Pdo']) \in Nat
      BY <3>1, MappingsFit, PdoAssumption DEF IsMapping
    <3> QED
      BY <2>2, <3>2, NothingWritten DEF ProgressOK
  <2> QED
    BY <1>2, <2>1, <2>2
<1>4. MonitorOK' /\ DeliveredOK'
  BY DEF Configure, monitor, LinkInv, MonitorOK, DeliveredOK
<1> QED
  BY <1>1, <1>2, <1>3, <1>4 DEF LinkInv

LEMMA ConfigureFailsStep ==
  ASSUME LinkInv, ConfigureFails
  PROVE  LinkInv'
<1>1. TablesOK'
  <2>1. CASE UNCHANGED pdo
    BY <2>1 DEF LinkInv, TablesOK
  <2>2. CASE up /\ WriteStep
    BY <2>2, WriteKeepsTables DEF ConfigureFails
  <2> QED
    BY <2>1, <2>2 DEF ConfigureFails
<1>2. ControlOK' /\ ProgressOK'
  BY AtFirstStep DEF ConfigureFails, LinkInv, ControlOK
<1>3. MonitorOK' /\ DeliveredOK'
  BY DEF ConfigureFails, monitor, LinkInv, MonitorOK, DeliveredOK
<1> QED
  BY <1>1, <1>2, <1>3 DEF LinkInv

(* What a tick delivers goes where it came from.                           *)
LEMMA ReceivedAgrees ==
  ASSUME LinkInv, NEW p \in Pdos, NEW lost
  PROVE  \A d \in Received(p, lost) : d[1] = d[2] /\ d \in Objects \X Objects
<1>1. Producer[p] \in Boards /\ IsMapping(Mapping[p])
  BY MappingsFit DEF Producer, Pdos, Boards
<1>2. CASE Received(p, lost) = {}
  BY <1>2
<1>3. CASE Received(p, lost) # {}
  <2>1. IsDue(pdo[Producer[p]][p])
    BY <1>3 DEF Received
  <2>2. PICK b \in Boards : b = CHOOSE c \in Boards : c # Producer[p]
    BY <1>1 DEF Boards
  <2>3. Received(p, lost) = Deliveries(pdo[b][p], Frame(pdo[Producer[p]][p]))
    BY <1>3, <2>2 DEF Received
  <2>4. PICK e \in Entries : e = pdo[Producer[p]][p]
    BY <1>1 DEF LinkInv, TablesOK
  <2>5. PICK f \in Entries : f = pdo[b][p]
    BY DEF LinkInv, TablesOK
  <2>6. Agrees(e, Mapping[p]) /\ Agrees(f, Mapping[p]) /\ e.map_entries > 0
    BY <1>1, <2>1, <2>4, <2>5 DEF LinkInv, TablesOK, IsDue
  <2>7. \A d \in Deliveries(f, Frame(e)) : d[1] = d[2] /\ d \in Objects \X Objects
    BY <1>1, <2>6, DeliveriesAgree
  <2> QED
    BY <2>3, <2>4, <2>5, <2>7, Zenon
<1> QED
  BY <1>2, <1>3

LEMMA TickStep ==
  ASSUME LinkInv, Tick
  PROVE  LinkInv'
<1>1. PICK lost : delivered' = UNION {Received(p, lost) : p \in Pdos}
  BY DEF Tick
<1>2. DeliveredOK'
  BY <1>1, ReceivedAgrees DEF DeliveredOK
<1>3. late' \in 0 .. MaxLate /\ slave_left' \in -1 .. SlaveTimeout
  BY LinkConstants DEF Tick, LinkInv, ControlOK, MonitorOK
<1>4. valid_bits' \subseteq Items /\ timed_out' \in BOOLEAN
  BY DEF Tick, LinkInv, MonitorOK
<1>5. Pdo' = Pdo /\ Board' = Board
  BY DEF Tick, Pdo, Board
<1>6. paced' \in BOOLEAN
  BY DEF Tick
<1>7. ControlOK'
  BY <1>3, <1>5, <1>6 DEF Tick, LinkInv, ControlOK
<1>8. TablesOK' /\ ProgressOK'
  BY <1>5 DEF Tick, LinkInv, TablesOK, ProgressOK
<1> QED
  BY <1>2, <1>3, <1>4, <1>7, <1>8 DEF LinkInv, MonitorOK

LEMMA SlaveStopsStep ==
  ASSUME LinkInv, SlaveStops
  PROVE  LinkInv'
<1>1. TablesOK' /\ pdo'["master"] = pdo["master"]
  BY RestartKeepsTables DEF SlaveStops, Boards, LinkInv
<1>2. Pdo' = Pdo /\ Board' = Board /\ Board \in Boards
  BY CallsTyped DEF SlaveStops, loop, Pdo, Board, LinkInv, ControlOK
<1>3. ControlOK'
  BY <1>2 DEF SlaveStops, loop, LinkInv, ControlOK
<1>4. ProgressOK'
  BY <1>1, <1>2 DEF SlaveStops, loop, LinkInv, ProgressOK, Boards
<1>5. MonitorOK' /\ DeliveredOK'
  BY DEF SlaveStops, monitor, LinkInv, MonitorOK, DeliveredOK
<1> QED
  BY <1>1, <1>3, <1>4, <1>5 DEF LinkInv

LEMMA MasterRestartsStep ==
  ASSUME LinkInv, MasterRestarts
  PROVE  LinkInv'
<1>1. TablesOK'
  BY RestartKeepsTables DEF MasterRestarts, Boards, LinkInv
<1>2. late' \in 0 .. MaxLate /\ -1 \in -1 .. SlaveTimeout
  BY LinkConstants DEF MasterRestarts
<1>3. UNCHANGED <<up, calm>> \/ calm' = calm
  BY DEF MasterRestarts
<1>4. ControlOK' /\ ProgressOK'
  BY <1>2, AtFirstStep DEF MasterRestarts
<1>5. MonitorOK' /\ DeliveredOK'
  BY <1>2 DEF MasterRestarts, LinkInv, MonitorOK, DeliveredOK
<1> QED
  BY <1>1, <1>4, <1>5 DEF LinkInv

(* The slave comes up, the faults end, or nothing happens.                 *)
LEMMA QuietStep ==
  ASSUME LinkInv, SlaveStarts \/ Calm \/ UNCHANGED vars
  PROVE  LinkInv'
<1>1. UNCHANGED <<loop, pdo, monitor, delivered>> /\ up' \in BOOLEAN /\ calm' \in BOOLEAN
  BY DEF SlaveStarts, Calm, vars, LinkInv, ControlOK
<1>2. Pdo' = Pdo /\ Board' = Board
  BY <1>1 DEF loop, Pdo, Board
<1>3. pc' = "wait" \/ up' = up
  BY DEF SlaveStarts, Calm, vars, loop
<1>4. ControlOK' /\ ProgressOK'
  BY <1>1, <1>2, <1>3 DEF loop, LinkInv, ControlOK, ProgressOK
<1> QED
  BY <1>1, <1>4 DEF monitor, LinkInv, MonitorOK, TablesOK, DeliveredOK

-----------------------------------------------------------------------------
LEMMA LinkInductive == Init /\ [][Next]_vars => []LinkInv
<1>1. LinkInv /\ [Next]_vars => LinkInv'
  BY PassStep, ConfigureStep, ConfigureFailsStep, TickStep, SlaveStopsStep, MasterRestartsStep,
     QuietStep DEF Next
<1> QED
  BY LinkInit, <1>1, PTL

(* Types and ranges of the link hold for every timeout and delay.          *)
THEOREM LinkTypeCorrect == Spec => []TypeOK
<1>1. LinkInv => TypeOK
  BY DEF LinkInv, ControlOK, MonitorOK, TablesOK, DeliveredOK, TypeOK
<1> QED
  BY <1>1, LinkInductive, PTL DEF Spec

(* No restart, loss or broken off configuration ever delivers a value to   *)
(* another object than the one it was read from.                           *)
THEOREM NothingIsCrossed == Spec => []NeverCrossed
<1>1. LinkInv => NeverCrossed
  BY DEF LinkInv, DeliveredOK, NeverCrossed
<1> QED
  BY <1>1, LinkInductive, PTL DEF Spec

-----------------------------------------------------------------------------
(* A configuration that runs to its end.                                   *)

(* In service, with the whole mapping.                                     *)
InService(e, m) ==
  /\ e.cob = "enabled" /\ e.cyclic /\ e.map_entries = Len(m)
  /\ \A s \in 1 .. Len(m) : e.map[s] = m[s]

AllInService == \A b \in Boards, p \in Pdos : InService(pdo[b][p], Mapping[p])

(* What the steps before step n have left in an entry.                     *)
DoneUpTo(e, m, n) ==
  /\ n > 2 => e.cyclic
  /\ WrittenUpTo(e, m, n)
  /\ n > Len(m) + 4 => e.map_entries = Len(m)
  /\ n > Len(m) + 5 => e.cob = "enabled"

LEMMA DoneInService ==
  ASSUME NEW m, IsMapping(m), NEW e, DoneUpTo(e, m, Len(m) + 6)
  PROVE  InService(e, m)
<1>1. Len(m) \in Nat
  BY PdoAssumption DEF IsMapping
<1> QED
  BY <1>1 DEF DoneUpTo, WrittenUpTo, InService

LEMMA NothingDone ==
  ASSUME NEW e, NEW m, Len(m) \in Nat
  PROVE  DoneUpTo(e, m, 1)
BY NothingWritten DEF DoneUpTo

LEMMA WrittenDone ==
  ASSUME NEW m, IsMapping(m), NEW e \in Entries, NEW n \in Steps(m),
         Agrees(e, m), DoneUpTo(e, m, n)
  PROVE  DoneUpTo(Written(e, m, n), m, n + 1)
<1>1. MapSize \in Nat /\ Len(m) \in 1 .. MapSize /\ n \in 1 .. Len(m) + 5
  BY PdoAssumption DEF IsMapping, Steps
<1>2. WrittenUpTo(Written(e, m, n), m, n + 1)
  BY WrittenAgrees DEF DoneUpTo
<1>3. PICK f : f = Written(e, m, n)
  OBVIOUS
<1>4. /\ n + 1 > 2 => f.cyclic
      /\ n + 1 > Len(m) + 4 => f.map_entries = Len(m)
      /\ n + 1 > Len(m) + 5 => f.cob = "enabled"
  <2>1. CASE n = 1
    BY <1>1, <2>1
  <2>2. CASE n = 2
    <3>1. f = [e EXCEPT !.cyclic = TRUE]
      BY <1>1, <1>3, <2>2 DEF Written
    <3> QED
      BY <1>1, <2>2, <3>1 DEF Entries
  <2>3. CASE n = 3
    <3>1. f = [e EXCEPT !.map_entries = 0]
      BY <1>1, <1>3, <2>3 DEF Written
    <3> QED
      BY <1>1, <2>3, <3>1 DEF Entries, DoneUpTo
  <2>4. CASE n \in 4 .. Len(m) + 3
    <3>1. f = [e EXCEPT !.map[n - 3] = m[n - 3]]
      BY <1>1, <1>3, <2>4 DEF Written
    <3> QED
      BY <1>1, <2>4, <3>1 DEF Entries, DoneUpTo
  <2>5. CASE n = Len(m) + 4
    <3>1. f = [e EXCEPT !.map_entries = Len(m)]
      BY <1>1, <1>3, <2>5 DEF Written
    <3> QED
      BY <1>1, <2>5, <3>1 DEF Entries, DoneUpTo
  <2>6. CASE n = Len(m) + 5
    <3>1. f = [e EXCEPT !.cob = "enabled"]
      BY <1>1, <1>3, <2>6 DEF Written
    <3> QED
      BY <1>1, <2>6, <3>1 DEF Entries, DoneUpTo
  <2> QED
    BY <1>1, <2>1, <2>2, <2>3, <2>4, <2>5, <2>6
<1> QED
  BY <1>2, <1>3, <1>4 DEF DoneUpTo

(* The six calls are for six entries.                                      *)
LEMMA CallsDistinct ==
  /\ \A c, d \in 1 .. 6 : Calls[c].board = Calls[d].board /\ Calls[c].pdo = Calls[d].pdo => c = d
  /\ \A b \in Boards, p \in Pdos : \E c \in 1 .. 6 : Calls[c].board = b /\ Calls[c].pdo = p
<1>1. /\ Calls[1].board = "slave" /\ Calls[1].pdo = "demand"
      /\ Calls[2].board = "master" /\ Calls[2].pdo = "demand"
      /\ Calls[3].board = "master" /\ Calls[3].pdo = "items"
      /\ Calls[4].board = "slave" /\ Calls[4].pdo = "items"
      /\ Calls[5].board = "master" /\ Calls[5].pdo = "vmot"
      /\ Calls[6].board = "slave" /\ Calls[6].pdo = "vmot"
  BY DEF Calls
<1>2. \A c \in 1 .. 6 : c = 1 \/ c = 2 \/ c = 3 \/ c = 4 \/ c = 5 \/ c = 6
  OBVIOUS
<1>3. \A c, d \in 1 .. 6 : Calls[c].board = Calls[d].board /\ Calls[c].pdo = Calls[d].pdo => c = d
  BY <1>1, <1>2
<1>4. ASSUME NEW b \in Boards, NEW p \in Pdos
      PROVE  \E c \in 1 .. 6 : Calls[c].board = b /\ Calls[c].pdo = p
  BY <1>1 DEF Boards, Pdos
<1> QED
  BY <1>3, <1>4

(* While a configuration is under way, the entries of the calls that have  *)
(* returned are in service; a slave that stops in between takes its own    *)
(* with it, and the configuration breaks off before it is back.            *)
ServedOK ==
  pc = "configure" =>
    /\ \A c \in 1 .. 6 :
         c < call /\ (Calls[c].board = "slave" => up)
           => InService(pdo[Calls[c].board][Calls[c].pdo], Mapping[Calls[c].pdo])
    /\ (Board = "slave" => up) => DoneUpTo(pdo[Board][Pdo], Mapping[Pdo], step)

LEMMA NothingServedYet ==
  ASSUME ControlOK', call' = 1, step' = 1
  PROVE  ServedOK'
<1>1. Pdo' \in Pdos
  BY CallsTyped DEF ControlOK, Pdo
<1>2. Len(Mapping[Pdo']) \in Nat
  BY <1>1, MappingsFit, PdoAssumption DEF IsMapping
<1>3. \A e : DoneUpTo(e, Mapping[Pdo'], 1)
  BY <1>2, NothingDone
<1> QED
  BY <1>3 DEF ServedOK

LEMMA ConfigureServes ==
  ASSUME LinkInv, LinkInv', ServedOK, Configure
  PROVE  ServedOK' /\ (pc' = "wait" => AllInService')
<1>1. /\ pc = "configure" /\ (Board = "slave" => up) /\ UNCHANGED up
      /\ call \in 1 .. 6 /\ Board \in Boards /\ Pdo \in Pdos
      /\ step \in Steps(Mapping[Pdo]) /\ pdo \in [Boards -> [Pdos -> Entries]]
  BY CallsTyped DEF Configure, LinkInv, ControlOK, TablesOK, Board, Pdo
<1>2. PICK m : m = Mapping[Pdo] /\ IsMapping(m) /\ Len(m) \in Nat
  BY <1>1, MappingsFit, PdoAssumption DEF IsMapping
<1>3. PICK e \in Entries : e = pdo[Board][Pdo]
  BY <1>1
<1>4. PICK f \in Entries : f = Written(e, m, step)
  BY <1>1, <1>2, <1>3, WrittenAgrees, Zenon DEF LinkInv, TablesOK, ProgressOK
<1>5. DoneUpTo(f, m, step + 1)
  <2>1. Agrees(e, m) /\ DoneUpTo(e, m, step) /\ step \in Steps(m)
    BY <1>1, <1>2, <1>3, Zenon DEF LinkInv, TablesOK, ServedOK
  <2> QED
    BY <1>2, <1>4, <2>1, WrittenDone
<1>6. pdo' = [pdo EXCEPT ![Board][Pdo] = f]
  BY <1>1, <1>2, <1>3, <1>4 DEF Configure, WriteStep
<1>7. pdo'[Board][Pdo] = f
  BY <1>1, <1>6
<1>8. ASSUME NEW c \in 1 .. 6, c < call, Calls[c].board = "slave" => up
      PROVE  InService(pdo'[Calls[c].board][Calls[c].pdo], Mapping[Calls[c].pdo])
  <2>1. PICK b \in Boards, p \in Pdos : b = Calls[c].board /\ p = Calls[c].pdo
    BY CallsTyped
  <2>2. InService(pdo[b][p], Mapping[p])
    BY <1>1, <1>8, <2>1, Zenon DEF ServedOK
  <2>3. ~(b = Board /\ p = Pdo)
    BY <1>1, <1>8, <2>1, CallsDistinct DEF Board, Pdo
  <2>4. pdo'[b][p] = pdo[b][p]
    BY <1>1, <1>6, <2>3
  <2> QED
    BY <2>1, <2>2, <2>4, Zenon
<1>9. CASE step + 1 \in Steps(Mapping[Pdo])
  <2>1. call' = call /\ step' = step + 1 /\ pc' = pc
    BY <1>9 DEF Configure, GoOn
  <2>2. Board' = Board /\ Pdo' = Pdo
    BY <2>1 DEF Board, Pdo
  <2>3. DoneUpTo(pdo'[Board'][Pdo'], Mapping[Pdo'], step')
    BY <1>2, <1>5, <1>7, <2>1, <2>2, Zenon
  <2>4. \A c \in 1 .. 6 : c < call' /\ (Calls[c].board = "slave" => up')
           => InService(pdo'[Calls[c].board][Calls[c].pdo], Mapping[Calls[c].pdo])
    BY <1>1, <1>8, <2>1, Zenon
  <2> QED
    BY <1>1, <2>1, <2>3, <2>4 DEF ServedOK
<1>10. CASE step + 1 \notin Steps(Mapping[Pdo])
  <2>1. step + 1 = Len(m) + 6
    BY <1>1, <1>2, <1>10 DEF Steps
  <2>2. InService(f, m)
    BY <1>2, <1>5, <2>1, DoneInService
  <2>3. ASSUME NEW c \in 1 .. 6, c <= call, Calls[c].board = "slave" => up
        PROVE  InService(pdo'[Calls[c].board][Calls[c].pdo], Mapping[Calls[c].pdo])
    <3>1. CASE c = call
      BY <1>2, <1>7, <2>2, <3>1 DEF Board, Pdo
    <3>2. CASE c # call
      <4>1. c < call
        BY <1>1, <2>3, <3>2
      <4> QED
        BY <1>8, <2>3, <4>1
    <3> QED
      BY <3>1, <3>2
  <2>4. CASE call < 6
    <3>1. call' = call + 1 /\ pc' = pc /\ step' = 1
      BY <1>10, <2>4, CallsTyped DEF Configure, GoOn
    <3>2. Len(Mapping[Pdo']) \in Nat
      BY CallsTyped, MappingsFit, PdoAssumption DEF LinkInv, ControlOK, Pdo, IsMapping
    <3>3. DoneUpTo(pdo'[Board'][Pdo'], Mapping[Pdo'], step')
      BY <3>1, <3>2, NothingDone
    <3>4. \A c \in 1 .. 6 : c < call' => c <= call
      BY <1>1, <3>1
    <3>5. \A c \in 1 .. 6 : c < call' /\ (Calls[c].board = "slave" => up')
             => InService(pdo'[Calls[c].board][Calls[c].pdo], Mapping[Calls[c].pdo])
      BY <1>1, <2>3, <3>4
    <3> QED
      BY <1>1, <3>1, <3>3, <3>5 DEF ServedOK
  <2>5. CASE call = 6
    <3>1. pc' = "wait"
      BY <1>10, <2>5, CallsTyped DEF Configure, GoOn
    <3>2. up
      BY <1>1, <2>5 DEF Board, Calls
    <3>3. ASSUME NEW b \in Boards, NEW p \in Pdos PROVE InService(pdo'[b][p], Mapping[p])
      <4>1. PICK c \in 1 .. 6 : Calls[c].board = b /\ Calls[c].pdo = p
        BY CallsDistinct
      <4>2. c <= call
        BY <2>5
      <4> QED
        BY <2>3, <3>2, <4>1, <4>2
    <3> QED
      BY <3>1, <3>3 DEF ServedOK, AllInService
  <2> QED
    BY <1>1, <2>4, <2>5
<1> QED
  BY <1>9, <1>10

LEMMA StaysServed ==
  LinkInv /\ LinkInv' /\ ServedOK /\ [Next]_vars => ServedOK'
<1> SUFFICES ASSUME LinkInv, LinkInv', ServedOK, [Next]_vars PROVE ServedOK'
  OBVIOUS
<1>1. CASE Pass \/ ConfigureFails \/ MasterRestarts
  <2>1. call' = 1 /\ step' = 1
    BY <1>1 DEF Pass, ConfigureFails, MasterRestarts
  <2> QED
    BY <2>1, NothingServedYet DEF LinkInv
<1>2. CASE Configure
  BY <1>2, ConfigureServes
<1>3. CASE Tick \/ Calm \/ UNCHANGED vars
  <2>1. UNCHANGED <<pc, call, step, pdo, up>>
    BY <1>3 DEF Tick, Calm, vars, loop
  <2> QED
    BY <2>1 DEF ServedOK, Board, Pdo
<1>4. CASE SlaveStops
  <2>1. /\ UNCHANGED <<pc, call, step>> /\ up' = FALSE
        /\ pdo'["master"] = pdo["master"]
    BY <1>4, RestartKeepsTables DEF SlaveStops, loop, LinkInv, Boards
  <2>2. \A c \in 1 .. 6 : Calls[c].board \in Boards
    BY CallsTyped
  <2>3. Board' = Board /\ Pdo' = Pdo /\ Board \in Boards
    BY <2>1, CallsTyped DEF Board, Pdo, LinkInv, ControlOK
  <2> QED
    BY <2>1, <2>2, <2>3 DEF ServedOK, Boards
<1>5. CASE SlaveStarts
  BY <1>5 DEF SlaveStarts, loop, ServedOK
<1> QED
  BY <1>1, <1>2, <1>3, <1>4, <1>5 DEF Next

(* If _fb_can_reinit_slaves runs to its end, all six entries of the two    *)
(* boards are in service with their whole mappings: whatever restarts and  *)
(* losses there were, a configuration that was not broken off is not half  *)
(* done.                                                                   *)
THEOREM ConfigurationCompletes ==
  Spec => [][Configure /\ pc' = "wait" => AllInService']_vars
<1>1. Init => ServedOK
  BY DEF Init, ServedOK
<1>2. LinkInv /\ LinkInv' /\ ServedOK /\ [Next]_vars
        => [Configure /\ pc' = "wait" => AllInService']_vars
  BY ConfigureServes
<1> QED
  BY <1>1, <1>2, StaysServed, LinkInductive, PTL DEF Spec

-----------------------------------------------------------------------------
(* A link in service.                                                      *)

LEMMA ServiceDelivers ==
  ASSUME NEW m, IsMapping(m), NEW e \in Entries, NEW f \in Entries,
         InService(e, m), InService(f, m)
  PROVE  /\ IsDue(e)
         /\ Deliveries(f, Frame(e)) = {<<m[s], m[s]>> : s \in 1 .. Len(m)}
<1>1. Len(m) \in 1 .. MapSize /\ MapSize \in Nat /\ \A s \in 1 .. Len(m) : m[s] \in Objects
  BY PdoAssumption DEF IsMapping
<1>2. Agrees(e, m) /\ e.map_entries > 0
  BY <1>1 DEF InService, Agrees
<1>3. Len(Frame(e)) = Len(m) /\ \A n \in 1 .. Len(m) : Frame(e)[n] = m[n]
  BY <1>2, FrameIsMapping
<1>4. \A s \in 1 .. Len(m) : f.map[s] = m[s] /\ f.map[s] # NoObject
  BY <1>1, PdoAssumption DEF InService
<1>5. {t \in 1 .. f.map_entries : f.cob = "enabled" /\ \A u \in 1 .. t : f.map[u] # NoObject}
        = 1 .. Len(m)
  BY <1>1, <1>4 DEF InService
<1>6. \A s \in 1 .. Len(m) :
        <<IF s <= Len(Frame(e)) THEN Frame(e)[s] ELSE NoObject, f.map[s]>> = <<m[s], m[s]>>
  BY <1>1, <1>3, <1>4
<1>7. IsDue(e)
  BY <1>2 DEF IsDue, InService
<1> QED
  BY <1>5, <1>6, <1>7 DEF Deliveries

(* Every object is mapped by one of the PDOs, and nothing else is.         *)
LEMMA MappingsCover ==
  /\ \A o \in Objects : \E p \in Pdos : \E s \in 1 .. Len(Mapping[p]) : Mapping[p][s] = o
  /\ \A p \in Pdos : \A s \in 1 .. Len(Mapping[p]) : Mapping[p][s] \in Objects
<1>1. /\ Mapping["demand"] = <<"PITCH_DEMAND", "YAW_DEMAND">>
      /\ Mapping["items"] = <<"PITCH", "YAW", "I_PITCH", "I_YAW">>
      /\ Mapping["vmot"] = <<"VMOT">>
  BY DEF Mapping
<1>2. \A o \in Objects : o \in {"PITCH_DEMAND", "YAW_DEMAND", "PITCH", "YAW", "I_PITCH", "I_YAW", "VMOT"}
  BY LinkAssumption, Zenon
<1>3. "demand" \in Pdos /\ "items" \in Pdos /\ "vmot" \in Pdos
  BY DEF Pdos
<1>4. ASSUME NEW o \in Objects
      PROVE  \E p \in Pdos : \E s \in 1 .. Len(Mapping[p]) : Mapping[p][s] = o
  <2>1. CASE o \in {"PITCH_DEMAND", "YAW_DEMAND"}
    <3>1. \E s \in 1 .. 2 : Mapping["demand"][s] = o
      BY <1>1, <2>1
    <3> QED
      BY <1>1, <1>3, <3>1
  <2>2. CASE o \in {"PITCH", "YAW", "I_PITCH", "I_YAW"}
    <3>1. \E s \in 1 .. 4 : Mapping["items"][s] = o
      BY <1>1, <2>2
    <3> QED
      BY <1>1, <1>3, <3>1
  <2>3. CASE o = "VMOT"
    <3>1. \E s \in 1 .. 1 : Mapping["vmot"][s] = o
      BY <1>1, <2>3
    <3> QED
      BY <1>1, <1>3, <3>1
  <2> QED
    BY <1>2, <2>1, <2>2, <2>3
<1>5. \A p \in Pdos : \A s \in 1 .. Len(Mapping[p]) : Mapping[p][s] \in Objects
  BY MappingsFit DEF IsMapping
<1> QED
  BY <1>4, <1>5

(* On a good bus, a tick of a link that is in service carries every object *)
(* of both boards to itself, and completes the set of items that the       *)
(* monitor waits for: what MasterRecovers needs of each tick.              *)
THEOREM ServiceCarriesAll ==
  Spec => [][Tick /\ calm /\ up /\ AllInService
               => delivered' = {<<o, o>> : o \in Objects} /\ valid_bits' = Items]_vars
<1>1. LinkInv /\ [Next]_vars =>
        [Tick /\ calm /\ up /\ AllInService
           => delivered' = {<<o, o>> : o \in Objects} /\ valid_bits' = Items]_vars
  <2> SUFFICES ASSUME LinkInv, Tick, calm, up, AllInService
               PROVE  delivered' = {<<o, o>> : o \in Objects} /\ valid_bits' = Items
    OBVIOUS
  <2>1. delivered' = UNION {Received(p, {}) : p \in Pdos}
    BY DEF Tick
  <2>2. ASSUME NEW p \in Pdos
        PROVE  Received(p, {}) = {<<Mapping[p][s], Mapping[p][s]>> : s \in 1 .. Len(Mapping[p])}
    <3>1. Producer[p] \in Boards /\ IsMapping(Mapping[p])
      BY MappingsFit DEF Producer, Pdos, Boards
    <3>2. PICK b \in Boards : b = CHOOSE c \in Boards : c # Producer[p]
      BY <3>1 DEF Boards
    <3>3. PICK e \in Entries : e = pdo[Producer[p]][p]
      BY <3>1 DEF LinkInv, TablesOK
    <3>4. PICK f \in Entries : f = pdo[b][p]
      BY DEF LinkInv, TablesOK
    <3>5. InService(e, Mapping[p]) /\ InService(f, Mapping[p])
      BY <3>1, <3>3, <3>4 DEF AllInService
    <3>6. /\ IsDue(e)
          /\ Deliveries(f, Frame(e)) = {<<Mapping[p][s], Mapping[p][s]>> : s \in 1 .. Len(Mapping[p])}
      BY <3>1, <3>5, ServiceDelivers
    <3>7. Received(p, {}) = Deliveries(f, Frame(e))
      BY <3>2, <3>3, <3>4, <3>6 DEF Received
    <3> QED
      BY <3>6, <3>7
  <2>3. delivered' = {<<o, o>> : o \in Objects}
    <3>1. \A d \in delivered' : \E o \in Objects : d = <<o, o>>
      BY <2>1, <2>2, MappingsCover
    <3>2. \A o \in Objects : <<o, o>> \in delivered'
      <4> TAKE o \in Objects
      <4>1. PICK p \in Pdos : \E s \in 1 .. Len(Mapping[p]) : Mapping[p][s] = o
        BY MappingsCover
      <4>2. <<o, o>> \in Received(p, {})
        BY <2>2, <4>1
      <4> QED
        BY <2>1, <4>2
    <3> QED
      BY <3>1, <3>2
  <2>4. Items \subseteq Objects
    BY LinkAssumption DEF Items
  <2>5. {d[2] : d \in delivered'} = Objects
    <3>1. PICK D : D = delivered'
      OBVIOUS
    <3>2. D = {<<o, o>> : o \in Objects}
      BY <2>3, <3>1
    <3>3. \A o \in Objects : <<o, o>> \in D /\ <<o, o>>[2] = o
      BY <3>2
    <3>4. \A d \in D : d[2] \in Objects
      BY <3>2
    <3>5. {d[2] : d \in D} = Objects
      BY <3>3, <3>4
    <3> QED
      BY <3>1, <3>5
  <2>6. valid_bits' = valid_bits \cup (Items \cap {d[2] : d \in delivered'}) /\ valid_bits \subseteq Items
    BY DEF Tick, LinkInv, MonitorOK
  <2> QED
    BY <2>3, <2>4, <2>5, <2>6
<1> QED
  BY <1>1, LinkInductive, PTL DEF Spec
-----------------------------------------------------------------------------
(* A slave that is gone.                                                   *)

(* Without the slave nothing is delivered, so a set of bits that is not    *)
(* complete stays so, its deadline only comes nearer, and a master that    *)
(* has noticed the silence does not forget it, whatever its configuration  *)
(* tries meanwhile (_fb_slave_timed_out).  It is the safety half of        *)
(* SilenceNoticed.                                                         *)
THEOREM SilenceIsKept ==
  Spec => [][~up /\ valid_bits # Items /\ ~MasterRestarts
               => /\ valid_bits' # Items /\ slave_left' <= slave_left
                  /\ slave_left < 0 /\ (timed_out \/ Pass) => timed_out']_vars
<1>1. LinkInv /\ [Next]_vars =>
        [~up /\ valid_bits # Items /\ ~MasterRestarts
           => /\ valid_bits' # Items /\ slave_left' <= slave_left
              /\ slave_left < 0 /\ (timed_out \/ Pass) => timed_out']_vars
  <2> SUFFICES ASSUME LinkInv, [Next]_vars, ~up, valid_bits # Items, ~MasterRestarts
               PROVE  /\ valid_bits' # Items /\ slave_left' <= slave_left
                      /\ slave_left < 0 /\ (timed_out \/ Pass) => timed_out'
    BY Zenon
  <2>0. slave_left \in -1 .. SlaveTimeout /\ valid_bits \subseteq Items
    BY DEF LinkInv, MonitorOK
  <2>1. SlaveTimeout \in Nat
    BY LinkConstants
  <2>2. Pass /\ slave_left < 0 => timed_out'
    BY DEF Pass, Monitor
  <2>3. CASE Pass
    <3>1. slave_left' = slave_left /\ (valid_bits' = valid_bits \/ valid_bits' = {})
      BY <2>3 DEF Pass, Monitor
    <3>2. "PITCH" \in Items
      BY DEF Items
    <3> QED
      BY <2>0, <2>1, <2>3, <2>2, <3>1, <3>2
  <2>4. CASE Tick
    <3>1. \A p, lost : Received(p, lost) = {}
      BY DEF Received
    <3>2. delivered' = {}
      BY <2>4, <3>1 DEF Tick
    <3>3. valid_bits' = valid_bits
      BY <2>4, <3>2 DEF Tick
    <3>4. slave_left' <= slave_left
      BY <2>0, <2>1, <2>4 DEF Tick
    <3>5. timed_out' = timed_out
      BY <2>4 DEF Tick
    <3> QED
      BY <2>2, <3>3, <3>4, <3>5
  <2>5. CASE UNCHANGED monitor
    BY <2>0, <2>1, <2>5, <2>2 DEF monitor
  <2>6. Pass \/ Tick \/ UNCHANGED monitor
    BY DEF Next, Configure, ConfigureFails, SlaveStops, SlaveStarts, Calm, vars
  <2> QED
    BY <2>3, <2>4, <2>5, <2>6
<1> QED
  BY <1>1, LinkInductive, PTL DEF Spec
=============================================================================
