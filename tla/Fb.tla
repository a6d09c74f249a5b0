--------------------------------- MODULE Fb ---------------------------------
(***************************************************************************)
(* One FlyingBergman board (src/src/fb.c, fb_can.c, fb_output.c): the 1 ms *)
(* control loop, the link monitor, the control modes and the motor output. *)
(* The same firmware runs on both boards; the CAN address switch makes a   *)
(* board the MASTER (address 1, the control panel) or a SLAVE (the motor   *)
(* drive).                                                                 *)
(*                                                                         *)
(* Three threads touch this state: the control loop (fb_ctrl), the CAN     *)
(* dispatcher, which runs the object dictionary's write handler when a     *)
(* frame arrives, and the console.  None of the fields below is locked     *)
(* against the others, so the steps of the loop interleave with both.      *)
(* The loop body is four steps:                                            *)
(*   can      fb_can_clock and fb_check_link_state                         *)
(*   reinit   the master, blocked in fb_can_reinit                         *)
(*   state    _fb_update_state                                             *)
(*   control  _fb_update_measurements, _fb_update_control, _fb_update_motors*)
(* Time is counted in control ticks of 1 ms.                               *)
(***************************************************************************)
EXTENDS FbOutput

CONSTANTS
  RemoteTimeout,  \* FB_REMOTE_TIMEOUT, in ticks
  SlaveTimeout,   \* FB_SLAVE_TIMEOUT_MS, in ticks
  MaxAcc,         \* FB_PITCH_MAX_ACC = FB_YAW_MAX_ACC, per tick
  Demands,        \* int16 demands that frames carry
  AutoOutputs,    \* outputs of the two axis controllers (negated)
  Joys,           \* joystick deflections, after dead band
  Speeds,         \* what the speed knobs allow
  Accs,           \* what the intensity knobs allow, per tick
  Positions,      \* measured pitch positions
  Addrs,          \* settings of the address switch
  Commands        \* console commands in use

ASSUME FbAssumption ==
  /\ RemoteTimeout \in Nat \ {0}
  /\ SlaveTimeout \in Nat \ {0}
  /\ MaxAcc \in Nat \ {0}
  /\ Demands \subseteq Int /\ AutoOutputs \subseteq Int
  /\ Joys \subseteq Outputs
  /\ Speeds \subseteq 0 .. Full
  /\ Accs \subseteq 0 .. MaxAcc
  /\ Positions \subseteq Int
  /\ Addrs \subseteq 0 .. 15
  /\ Commands \subseteq {"local1", "local0", "manual", "remote", "operational", "p", "p0"}

Axes == {"pitch", "yaw"}
Modes == {"UNDEFINED", "MASTER", "SLAVE"}
ControlModes == {"NO_MOTION", "REMOTE", "MANUAL", "AUTO"}
(* The four valid bits that the master waits for.                          *)
Items == {"PITCH", "YAW", "I_PITCH", "I_YAW"}
MasterAddress == 1

VARIABLES
  pc,            \* where the control loop is
  mode,          \* self->mode
  can_addr,      \* self->can_addr
  canopen,       \* what the board told its CANopen node: address, mode, cycle period
  control_mode,  \* self->control_mode
  timed_out,     \* self->can.timed_out
  use_local,     \* self->inputs.use_local
  home_valid,    \* presets[FB_PRESET_HOME].valid
  remote,        \* self->remote.{pitch,yaw}
  left,          \* ticks until remote.*_update_timeout; -1 when it has expired
  valid_bits,    \* self->slave.valid_bits
  slave_left,    \* ticks until slave.timeout; -1 when it has expired
  pos,           \* measured.pitch
  output,        \* self->output.{pitch,yaw}
  age,           \* history: ticks since a demand arrived, up to RemoteTimeout + 1
  item_age       \* history: ticks since an item arrived, up to SlaveTimeout + 1

link == <<remote, left, age>>
slave == <<valid_bits, slave_left, item_age>>
motor == <<pos, output>>
role == <<mode, can_addr, canopen>>
vars == <<pc, role, control_mode, timed_out, use_local, home_valid, link, slave, motor>>

(* fb_init: the deadlines were set 50 ms ahead and the start-up sleeps     *)
(* last longer, so the loop starts with all of them expired; _fb_enter_state *)
(* has left the board operational, in manual mode, its address unread.     *)
Init ==
  /\ pc = "can"
  /\ mode = "UNDEFINED" /\ can_addr = 0
  /\ canopen = [address |-> 0, mode |-> "SLAVE", cycling |-> FALSE]
  /\ control_mode = "MANUAL"
  /\ timed_out = FALSE /\ use_local = FALSE /\ home_valid = FALSE
  /\ remote = [a \in Axes |-> 0]
  /\ left = [a \in Axes |-> -1]
  /\ age = [a \in Axes |-> RemoteTimeout + 1]
  /\ valid_bits = {} /\ slave_left = -1
  /\ item_age = [i \in Items |-> SlaveTimeout + 1]
  /\ pos \in Positions
  /\ output = [a \in Axes |-> 0]

-----------------------------------------------------------------------------
(* The control loop.                                                       *)

(* Mutant: a deadline is missed one tick early.                            *)
ExpiredEarly(d) == d <= 0

Expired(d) == d < 0

(* Mutant: the link is lost only when both axes are silent.                *)
SlaveClockBothAxes ==
  /\ timed_out' = \A a \in Axes : Expired(left[a])
  /\ left' = IF timed_out' THEN [a \in Axes |-> RemoteTimeout] ELSE left
  /\ UNCHANGED slave

(* _fb_can_monitor_link_state on a slave: one silent axis is enough, and   *)
(* noticing it sets both deadlines anew.                                   *)
SlaveClock ==
  /\ timed_out' = \E a \in Axes : Expired(left[a])
  /\ left' = IF timed_out' THEN [a \in Axes |-> RemoteTimeout] ELSE left
  /\ UNCHANGED slave

(* Mutant: a complete set of items does not move the deadline.             *)
MasterClockNoRefresh ==
  /\ valid_bits' = IF valid_bits = Items \/ Expired(slave_left) THEN {} ELSE valid_bits
  /\ slave_left' = IF valid_bits = Items /\ Expired(slave_left) THEN SlaveTimeout ELSE slave_left
  /\ timed_out' = (valid_bits # Items /\ Expired(slave_left))
  /\ UNCHANGED <<left, item_age>>

(* _fb_slave_timed_out on the master: a complete set of items moves the    *)
(* deadline; a missed deadline clears the bits and stays missed.           *)
MasterClock ==
  /\ valid_bits' = IF valid_bits = Items \/ Expired(slave_left) THEN {} ELSE valid_bits
  /\ slave_left' = IF valid_bits = Items THEN SlaveTimeout ELSE slave_left
  /\ timed_out' = (valid_bits # Items /\ Expired(slave_left))
  /\ UNCHANGED <<left, item_age>>

(* Mutant: a drive that was stopped stays stopped.                         *)
LinkControlModeNoReturn(lost) ==
  IF mode = "SLAVE" /\ ~use_local /\ lost /\ control_mode = "REMOTE"
  THEN "NO_MOTION" ELSE control_mode

(* fb_check_link_state, on the value fb_can_clock has just computed.       *)
LinkControlMode(lost) ==
  IF mode = "SLAVE" /\ ~use_local
  THEN IF ~lost THEN "REMOTE"
       ELSE IF control_mode = "REMOTE" THEN "NO_MOTION" ELSE control_mode
  ELSE control_mode

CanClock ==
  /\ pc = "can"
  /\ \/ mode = "SLAVE" /\ SlaveClock
     \/ mode = "MASTER" /\ MasterClock
     \/ mode = "UNDEFINED" /\ UNCHANGED <<timed_out, left, slave>>
  /\ control_mode' = LinkControlMode(timed_out')
  /\ pc' = IF mode = "MASTER" /\ timed_out' THEN "reinit" ELSE "state"
  /\ UNCHANGED <<role, use_local, home_valid, remote, age, motor>>

(* fb_can_reinit returns, its result unused.                               *)
ReinitDone ==
  /\ pc = "reinit"
  /\ pc' = "state"
  /\ UNCHANGED <<role, control_mode, timed_out, use_local, home_valid, link, slave, motor>>

(* _fb_state_operational: holding the home button saves the home preset;   *)
(* releasing a button loads its preset if that one and home are valid.     *)
(* Home itself is such a preset, and so is any preset saved before it, so  *)
(* a release can load exactly when home is valid.                          *)
StateControlMode(load) == IF load /\ home_valid' THEN "AUTO" ELSE control_mode

(* _fb_check_mode, with addr on the address switch.                        *)
CheckMode(addr, cm) ==
  IF addr = can_addr
  THEN control_mode' = cm /\ UNCHANGED role
  ELSE /\ can_addr' = addr
       /\ mode' = IF addr = MasterAddress THEN "MASTER" ELSE "SLAVE"
       /\ canopen' = [address |-> addr, mode |-> mode',
                      cycling |-> canopen.cycling \/ addr = MasterAddress]
       /\ control_mode' = IF addr = MasterAddress THEN cm ELSE "REMOTE"

UpdateState ==
  /\ pc = "state"
  /\ \E save, load \in BOOLEAN, addr \in Addrs :
       /\ home_valid' = (home_valid \/ save)
       /\ CheckMode(addr, StateControlMode(load))
  /\ pc' = "control"
  /\ UNCHANGED <<timed_out, use_local, link, slave, motor>>

(* _fb_update_control, one disjunct for each control mode.                 *)
NoMotionControl ==
  /\ control_mode = "NO_MOTION"
  /\ output' = [pitch |-> PitchLimited(output.pitch, 0, 0, MaxAcc, pos'),
                yaw |-> YawLimited(output.yaw, 0, 0, MaxAcc)]
  /\ UNCHANGED control_mode

RemoteControl ==
  /\ control_mode = "REMOTE"
  /\ output' = [pitch |-> PitchLimited(output.pitch, remote.pitch, Full, 4 * MaxAcc, pos'),
                yaw |-> YawLimited(output.yaw, remote.yaw, Full, 4 * MaxAcc)]
  /\ UNCHANGED control_mode

ManualControl ==
  /\ control_mode = "MANUAL"
  /\ \E joy \in [Axes -> Joys], speed \in Speeds, acc \in Accs :
       output' = [pitch |-> PitchLimited(output.pitch, joy.pitch, speed, acc, pos'),
                  yaw |-> YawLimited(output.yaw, joy.yaw, speed, acc)]
  /\ UNCHANGED control_mode

(* The axis controllers are in module FbControl; any output of theirs is   *)
(* considered here.  Moving the joystick ends the move after this tick.    *)
AutoControl ==
  /\ control_mode = "AUTO"
  /\ \E co \in [Axes -> AutoOutputs], wiggled \in BOOLEAN :
       /\ output' = [pitch |-> PitchLimited(output.pitch, co.pitch, Full, 8 * MaxAcc, pos'),
                     yaw |-> YawLimited(output.yaw, co.yaw, Full, 4 * MaxAcc)]
       /\ control_mode' = IF wiggled THEN "MANUAL" ELSE "AUTO"

UpdateControl ==
  /\ pc = "control"
  /\ pos' \in Positions
  /\ NoMotionControl \/ RemoteControl \/ ManualControl \/ AutoControl
  /\ pc' = "sleep"
  /\ UNCHANGED <<role, timed_out, use_local, home_valid, link, slave>>

(* A millisecond passes.  The loop body is over within its period, except  *)
(* while the master waits for SDO answers in fb_can_reinit.                *)
CountDown(d) == IF d < 0 THEN -1 ELSE d - 1
CountUp(n, max) == IF n > max THEN n ELSE n + 1

Tick ==
  /\ pc \in {"sleep", "reinit"}
  /\ left' = [a \in Axes |-> CountDown(left[a])]
  /\ slave_left' = CountDown(slave_left)
  /\ age' = [a \in Axes |-> CountUp(age[a], RemoteTimeout)]
  /\ item_age' = [i \in Items |-> CountUp(item_age[i], SlaveTimeout)]
  /\ pc' = IF pc = "sleep" THEN "can" ELSE pc
  /\ UNCHANGED <<role, control_mode, timed_out, use_local, home_valid, remote, valid_bits, motor>>

-----------------------------------------------------------------------------
(* The CAN dispatcher: _mfr_range_write, reached from a PDO or an SDO once *)
(* the node has an address.                                                *)

(* Mutant: the demand is stored as it comes.                               *)
WriteDemandUnclamped(a, v) ==
  /\ mode # "UNDEFINED"
  /\ remote' = [remote EXCEPT ![a] = v]
  /\ left' = [left EXCEPT ![a] = RemoteTimeout]
  /\ age' = [age EXCEPT ![a] = 0]
  /\ UNCHANGED <<pc, role, control_mode, timed_out, use_local, home_valid, slave, motor>>

(* Mutant: only a pitch demand refreshes its deadline.                     *)
WriteDemandPitchDeadline(a, v) ==
  /\ mode # "UNDEFINED"
  /\ remote' = [remote EXCEPT ![a] = Constrain(v, -Full, Full)]
  /\ left' = [left EXCEPT !["pitch"] = RemoteTimeout]
  /\ age' = [age EXCEPT ![a] = 0]
  /\ UNCHANGED <<pc, role, control_mode, timed_out, use_local, home_valid, slave, motor>>

WriteDemand(a, v) ==
  /\ mode # "UNDEFINED"
  /\ remote' = [remote EXCEPT ![a] = Constrain(v, -Full, Full)]
  /\ left' = [left EXCEPT ![a] = RemoteTimeout]
  /\ age' = [age EXCEPT ![a] = 0]
  /\ UNCHANGED <<pc, role, control_mode, timed_out, use_local, home_valid, slave, motor>>

(* Only a master ever configures an rxpdo for the items.                   *)
WriteItem(i) ==
  /\ mode = "MASTER"
  /\ valid_bits' = valid_bits \cup {i}
  /\ item_age' = [item_age EXCEPT ![i] = 0]
  /\ UNCHANGED <<pc, role, control_mode, timed_out, use_local, home_valid, link, slave_left, motor>>

-----------------------------------------------------------------------------
(* The console: the commands of _fb_cmd that reach the control loop.       *)

Console(cmd) ==
  /\ use_local' = CASE cmd = "local1" -> TRUE
                    [] cmd = "local0" -> FALSE
                    [] OTHER -> use_local
  /\ home_valid' = (home_valid \/ cmd = "p0")
  /\ control_mode' = CASE cmd \in {"manual", "operational"} -> "MANUAL"
                       [] cmd = "remote" -> "REMOTE"
                       [] cmd = "p" /\ home_valid -> "AUTO"
                       [] OTHER -> control_mode
  /\ UNCHANGED <<pc, role, timed_out, link, slave, motor>>

-----------------------------------------------------------------------------
Loop == CanClock \/ ReinitDone \/ UpdateState \/ UpdateControl \/ Tick

Next ==
  \/ Loop
  \/ \E a \in Axes, v \in Demands : WriteDemand(a, v)
  \/ \E i \in Items : WriteItem(i)
  \/ \E cmd \in Commands : Console(cmd)

Spec == Init /\ [][Next]_vars

(* The control loop is a periodic thread that never ends, and each SDO     *)
(* request of fb_can_reinit ends by its timeout; frames and commands may   *)
(* stop coming.                                                            *)
FairSpec == Spec /\ WF_vars(Loop) /\ WF_vars(ReinitDone)

-----------------------------------------------------------------------------
(* Properties.                                                             *)

TypeOK ==
  /\ pc \in {"can", "reinit", "state", "control", "sleep"}
  /\ mode \in Modes /\ can_addr \in 0 .. 15
  /\ canopen \in [address : 0 .. 15, mode : Modes, cycling : BOOLEAN]
  /\ control_mode \in ControlModes
  /\ timed_out \in BOOLEAN /\ use_local \in BOOLEAN /\ home_valid \in BOOLEAN
  /\ remote \in [Axes -> Outputs]
  /\ left \in [Axes -> -1 .. RemoteTimeout]
  /\ age \in [Axes -> 0 .. RemoteTimeout + 1]
  /\ valid_bits \in SUBSET Items
  /\ slave_left \in -1 .. SlaveTimeout
  /\ item_age \in [Items -> 0 .. SlaveTimeout + 1]
  /\ pos \in Int
  /\ output \in [Axes -> Outputs]

(* A deadline is never ahead of the last demand's: it has expired only if  *)
(* no demand came for RemoteTimeout ticks.                                 *)
DeadlineTracksDemand == \A a \in Axes : left[a] >= RemoteTimeout - age[a]

(* A slave raises timed_out (_fb_can_monitor_link_state) only if one of    *)
(* the axes really had no demand for longer than FB_REMOTE_TIMEOUT: a      *)
(* master that refreshes both demands in time never has its drive stopped. *)
NoFalseAlarm ==
  [][pc = "can" /\ pc' = "state" /\ mode = "SLAVE" /\ timed_out'
       => \E a \in Axes : age[a] > RemoteTimeout]_vars

(* The master starts to reconfigure its slave, which blocks its control    *)
(* loop and takes the slave's PDOs out of service, only if one of the four *)
(* items really did not come for longer than FB_SLAVE_TIMEOUT_MS           *)
(* (_fb_slave_timed_out collects bits over many ticks and clears them).    *)
ReconfiguresOnlyOnSilence ==
  [][pc = "can" /\ pc' = "reinit" /\ ~timed_out
       => \E i \in Items : item_age[i] > SlaveTimeout]_vars

(* As long as both demands keep coming in time, a slave drive comes back   *)
(* under remote control however it lost it: a time-out, a preset button or *)
(* a console command (fb_check_link_state).                                *)
HealthyLinkIsRemote ==
  <>[](mode = "SLAVE" /\ ~use_local /\ \A a \in Axes : age[a] <= RemoteTimeout)
    => []<>(control_mode = "REMOTE")

(* Beyond a pitch limit the motor is never driven further out, whatever    *)
(* mode the board is in and however it came into it (_limit_pitch_output   *)
(* is applied after the ramp, on every path of _fb_update_control).        *)
NeverDrivenOutward ==
  /\ pos > PosMax => output.pitch >= 0
  /\ pos < PosMin => output.pitch <= 0

Abs(x) == IF x < 0 THEN -x ELSE x

(* The acceleration _fb_update_control allows in each mode.                *)
AllowedStep(cm, a) ==
  CASE cm = "NO_MOTION" -> 0
    [] cm = "REMOTE" -> 4 * MaxAcc
    [] cm = "MANUAL" -> MaxAcc
    [] cm = "AUTO" -> IF a = "pitch" THEN 8 * MaxAcc ELSE 4 * MaxAcc

(* No tick speeds a motor up by more than its mode's acceleration,         *)
(* whatever jump the demand made: a role switch, a console command, a late *)
(* frame or a preset (fb_output_limited ramps from the previous output).   *)
SpeedsUpGradually ==
  [][\A a \in Axes : Abs(output'[a]) <= Abs(output[a]) + AllowedStep(control_mode, a)]_vars

(* A slave drive that nobody has taken over, and the axes that it no       *)
(* longer hears of.                                                        *)
Driven == mode = "SLAVE" /\ ~use_local /\ control_mode \in {"REMOTE", "NO_MOTION"}
Silent(a) == age[a] > RemoteTimeout
Stopped == output = [a \in Axes |-> 0]

(* When the demands of one axis stop coming, both motors are brought to    *)
(* zero again and again, even if the other axis is refreshed all the time  *)
(* (_fb_can_monitor_link_state, fb_check_link_state).                      *)
SilenceStopsMotors ==
  <>[](Driven /\ \E a \in Axes : Silent(a)) => []<>Stopped

(* What the comment in _fb_update_control takes for granted: when remote   *)
(* communication is lost for good, the motors end up stopped.              *)
SilenceKeepsMotorsStopped ==
  <>[](Driven /\ \A a \in Axes : Silent(a)) => <>[]Stopped
=============================================================================
