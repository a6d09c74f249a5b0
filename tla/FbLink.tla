------------------------------- MODULE FbLink -------------------------------
(***************************************************************************)
(* The link between the two boards: the master's monitor and configuration *)
(* of the process data (src/src/fb_can.c), through the CANopen drivers of  *)
(* both (CanopenPdo), while either board may restart and the bus may lose  *)
(* any frame.                                                              *)
(*                                                                         *)
(* A tick is a millisecond, one SYNC period.  The driver's thread on the   *)
(* master, of the highest priority, sends the SYNC and the demand; the     *)
(* slave answers with its items.  The master's control loop runs at lower  *)
(* priority, and it stands still while it configures: it catches up with   *)
(* the passes that it missed.                                              *)
(***************************************************************************)
EXTENDS CanopenPdo, Integers

CONSTANTS
  SlaveTimeout,  \* FB_SLAVE_TIMEOUT_MS, in ticks
  MaxLate        \* bound on the passes that the loop catches up with

ASSUME LinkAssumption ==
  /\ SlaveTimeout \in Nat /\ MaxLate \in Nat \ {0}
  /\ Objects = {"PITCH_DEMAND", "YAW_DEMAND", "PITCH", "YAW", "I_PITCH", "I_YAW", "VMOT"}
  /\ MapSize >= 4

Boards == {"master", "slave"}
Items == {"PITCH", "YAW", "I_PITCH", "I_YAW"}

(* The three PDOs, their mappings and who produces them.                   *)
Pdos == {"demand", "items", "vmot"}
Mapping ==
  [demand |-> <<"PITCH_DEMAND", "YAW_DEMAND">>,
   items |-> <<"PITCH", "YAW", "I_PITCH", "I_YAW">>,
   vmot |-> <<"VMOT">>]
Producer == [demand |-> "master", items |-> "slave", vmot |-> "slave"]

(* The calls of _fb_can_reinit_slaves: the consumer, then the producer.    *)
Calls ==
  <<[board |-> "slave", pdo |-> "demand"], [board |-> "master", pdo |-> "demand"],
    [board |-> "master", pdo |-> "items"], [board |-> "slave", pdo |-> "items"],
    [board |-> "master", pdo |-> "vmot"], [board |-> "slave", pdo |-> "vmot"]>>

VARIABLES
  pc,          \* where the master's control loop is
  call, step,  \* where it is in _fb_can_reinit_slaves
  paced,       \* a tick has passed during this call
  late,        \* passes of the control loop that are due
  pdo,         \* the entry of each board for each PDO, txpdo or rxpdo
  valid_bits,  \* slave.valid_bits of the master
  slave_left,  \* ticks until slave.timeout; -1 when it has expired
  timed_out,   \* can.timed_out of the master
  up,          \* the slave is running
  calm,        \* no more faults from now on
  delivered    \* history: the deliveries of the last tick

loop == <<pc, call, step, paced, late>>
monitor == <<valid_bits, slave_left, timed_out>>
vars == <<loop, pdo, monitor, up, calm, delivered>>

Init ==
  /\ pc = "wait" /\ call = 1 /\ step = 1 /\ paced = FALSE /\ late = 0
  /\ pdo = [b \in Boards |-> [p \in Pdos |-> Blank]]
  /\ valid_bits = {} /\ slave_left = -1 /\ timed_out = FALSE
  /\ up = FALSE /\ calm = FALSE
  /\ delivered = {}

-----------------------------------------------------------------------------
(* The control loop of the master.                                         *)

(* Mutant: a complete set of items is counted again and again.             *)
MonitorKeepsBits ==
  /\ valid_bits' = IF valid_bits # Items /\ slave_left < 0 THEN {} ELSE valid_bits
  /\ slave_left' = IF valid_bits = Items THEN SlaveTimeout ELSE slave_left
  /\ timed_out' = (valid_bits # Items /\ slave_left < 0)

(* _fb_slave_timed_out.                                                    *)
Monitor ==
  /\ valid_bits' = IF valid_bits = Items \/ slave_left < 0 THEN {} ELSE valid_bits
  /\ slave_left' = IF valid_bits = Items THEN SlaveTimeout ELSE slave_left
  /\ timed_out' = (valid_bits # Items /\ slave_left < 0)

Pass ==
  /\ pc = "wait" /\ late > 0 /\ late' = late - 1
  /\ Monitor
  /\ pc' = IF timed_out' THEN "configure" ELSE "wait"
  /\ call' = 1 /\ step' = 1 /\ paced' = FALSE
  /\ UNCHANGED <<pdo, up, calm, delivered>>

Board == Calls[call].board
Pdo == Calls[call].pdo
WriteStep == pdo' = [pdo EXCEPT ![Board][Pdo] = Written(@, Mapping[Pdo], step)]

(* The next write, or the next call, or the end.  A call to the slave is   *)
(* at least seven exchanges of frames, which take longer than a tick.      *)
GoOn ==
  IF step + 1 \in Steps(Mapping[Pdo])
  THEN step' = step + 1 /\ UNCHANGED <<pc, call, paced>>
  ELSE /\ Board = "slave" => paced
       /\ step' = 1 /\ paced' = FALSE
       /\ IF call < Len(Calls) THEN call' = call + 1 /\ UNCHANGED pc
                               ELSE call' = 1 /\ pc' = "wait"

(* A write to the board's own dictionary, or one that the slave has        *)
(* acknowledged.                                                           *)
Configure ==
  /\ pc = "configure"
  /\ Board = "slave" => up
  /\ WriteStep /\ GoOn
  /\ UNCHANGED <<late, monitor, up, calm, delivered>>

(* A request that is not served, or whose answer is lost, ends all.        *)
ConfigureFails ==
  /\ pc = "configure" /\ Board = "slave"
  /\ \/ ~(calm /\ up) /\ UNCHANGED pdo
     \/ ~calm /\ up /\ WriteStep
  /\ pc' = "wait" /\ call' = 1 /\ step' = 1 /\ paced' = FALSE
  /\ UNCHANGED <<late, monitor, up, calm, delivered>>

-----------------------------------------------------------------------------
(* A tick.  Of the frames exchanged in it, those of lost do not arrive:    *)
(* the SYNC or the frame of a PDO.                                         *)

Received(p, lost) ==
  IF /\ up /\ p \notin lost /\ (Producer[p] = "slave" => "sync" \notin lost)
     /\ IsDue(pdo[Producer[p]][p])
  THEN LET consumer == CHOOSE b \in Boards : b # Producer[p]
       IN  Deliveries(pdo[consumer][p], Frame(pdo[Producer[p]][p]))
  ELSE {}

Tick ==
  /\ \E lost \in IF calm THEN {{}} ELSE SUBSET (Pdos \cup {"sync"}) :
       delivered' = UNION {Received(p, lost) : p \in Pdos}
  /\ valid_bits' = valid_bits \cup (Items \cap {d[2] : d \in delivered'})
  /\ slave_left' = IF slave_left < 0 THEN -1 ELSE slave_left - 1
  /\ late' = IF late < MaxLate THEN late + 1 ELSE late
  /\ paced' = (pc = "configure")
  /\ UNCHANGED <<pc, call, step, pdo, timed_out, up, calm>>

-----------------------------------------------------------------------------
(* Restarts.  A board comes up with its tables empty.                      *)

SlaveStops ==
  /\ up /\ ~calm /\ up' = FALSE
  /\ pdo' = [pdo EXCEPT !["slave"] = [p \in Pdos |-> Blank]]
  /\ UNCHANGED <<loop, monitor, calm, delivered>>

(* The master's next request comes sooner than a board is up, and is lost: *)
(* until it times out, the new tables are empty and nothing is sent by     *)
(* them, so the board may as well come up after that.                      *)
SlaveStarts ==
  /\ ~up /\ pc = "wait" /\ up' = TRUE
  /\ UNCHANGED <<loop, pdo, monitor, calm, delivered>>

MasterRestarts ==
  /\ ~calm
  /\ pc' = "wait" /\ call' = 1 /\ step' = 1 /\ paced' = FALSE /\ late' = 0
  /\ pdo' = [pdo EXCEPT !["master"] = [p \in Pdos |-> Blank]]
  /\ valid_bits' = {} /\ slave_left' = -1 /\ timed_out' = FALSE
  /\ UNCHANGED <<up, calm, delivered>>

Calm ==
  /\ ~calm /\ calm' = TRUE
  /\ UNCHANGED <<loop, pdo, monitor, up, delivered>>

-----------------------------------------------------------------------------
Next ==
  Pass \/ Configure \/ ConfigureFails \/ Tick
    \/ SlaveStops \/ SlaveStarts \/ MasterRestarts \/ Calm

Spec == Init /\ [][Next]_vars

(* Time goes on, the control loop gets the time that the driver leaves,    *)
(* and every SDO request ends, by its answer or by its timeout.            *)
FairSpec == Spec /\ WF_vars(Tick) /\ WF_vars(Pass) /\ WF_vars(Configure \/ ConfigureFails)

-----------------------------------------------------------------------------
(* Properties.                                                             *)

TypeOK ==
  /\ pc \in {"wait", "configure"}
  /\ call \in DOMAIN Calls /\ step \in Steps(Mapping[Pdo])
  /\ paced \in BOOLEAN /\ late \in 0 .. MaxLate
  /\ pdo \in [Boards -> [Pdos -> Entries]]
  /\ valid_bits \subseteq Items
  /\ slave_left \in -1 .. SlaveTimeout
  /\ timed_out \in BOOLEAN /\ up \in BOOLEAN /\ calm \in BOOLEAN
  /\ delivered \subseteq (Objects \cup {NoObject}) \X Objects

(* No object is ever written from a frame slot that was read from another  *)
(* object, or that was not sent at all: neither a restart in the middle of *)
(* a configuration, nor one that breaks off, nor a PDO in service while it *)
(* is configured crosses the mappings of the two boards.                   *)
NeverCrossed == \A d \in delivered : d[1] = d[2]

(* Whatever restarts, losses and broken off configurations came before,    *)
(* once the slave stays up and the bus is good, the master hears from its  *)
(* slave again and goes on hearing from it (_fb_can_monitor_link_state).   *)
MasterRecovers == <>[](calm /\ up) => <>[]~timed_out

(* Once the slave is gone for good, and the master stays, it is noticed.   *)
SilenceNoticed == <>[](calm /\ ~up) => <>[]timed_out

(* The comment in _fb_slave_timed_out, "otherwise wait until timeout and   *)
(* reconfigure slave": on a good bus, a slave that stays up ends up so     *)
(* configured that the demand gets to it.                                  *)
SlaveIsReconfigured ==
  <>[](calm /\ up) => []<>(\E d \in delivered : d[2] = "PITCH_DEMAND")
=============================================================================
