------------------------------ MODULE YawTicks ------------------------------
(***************************************************************************)
(* The yaw of the crane from its 16-bit encoder                            *)
(* (_fb_update_measurements in src/src/measured.c, on the drive's board).  *)
(* The arm turns while the control loop runs; each pass adds what the      *)
(* encoder has moved to yaw_ticks, and takes a full turn off when that is  *)
(* beyond half a turn.                                                     *)
(***************************************************************************)
EXTENDS Integers

CONSTANTS
  TicksPerPi,  \* FB_MOTOR_YAW_TICKS_PER_ROT / 2
  HalfRange,   \* 2^15: the encoder counts modulo twice that
  MaxStep,     \* the ticks that the arm turns at most between two passes
  Travel       \* bound on how far the arm turns from where it was switched on

(* The arm makes less than 33 ticks in a millisecond.                      *)
ASSUME YawAssumption ==
  /\ HalfRange \in Nat \ {0} /\ TicksPerPi \in Nat \ {0}
  /\ MaxStep \in Nat /\ MaxStep < HalfRange /\ MaxStep <= 2 * TicksPerPi
  /\ Travel \in Nat

VARIABLES
  arm,            \* where the arm is, in ticks from where it was switched on
  yaw_ticks,      \* state.yaw_ticks
  prev_yaw_ticks, \* state.prev_yaw_ticks, as uint16
  seen            \* history: where the arm was in the last pass

yawVars == <<arm, yaw_ticks, prev_yaw_ticks, seen>>

EncoderRange == 2 * HalfRange
Turn == 2 * TicksPerPi

(* (int16_t)(uint16_t)x                                                    *)
Int16(x) == ((x + HalfRange) % EncoderRange) - HalfRange

YawInit == arm = 0 /\ yaw_ticks = 0 /\ prev_yaw_ticks = 0 /\ seen = 0

TurnArm(d) ==
  /\ arm' = arm + d
  /\ arm' - seen \in -MaxStep .. MaxStep /\ arm' \in -Travel .. Travel
  /\ UNCHANGED <<yaw_ticks, prev_yaw_ticks, seen>>

(* Mutant: a turn is taken off at one end only.                            *)
NormalizeOneSided(y) == IF y > TicksPerPi THEN y - Turn ELSE y

Normalize(y) ==
  IF y > TicksPerPi THEN y - Turn
  ELSE IF y < -TicksPerPi THEN y + Turn ELSE y

(* Mutant: the difference is taken as it is.                               *)
MovedUnsigned(encoder) == (encoder - prev_yaw_ticks) % EncoderRange

(* What the encoder has moved since the last pass.                         *)
Moved(encoder) == Int16(encoder - prev_yaw_ticks)

YawPass ==
  /\ prev_yaw_ticks' = arm % EncoderRange
  /\ yaw_ticks' = Normalize(yaw_ticks + Moved(arm % EncoderRange))
  /\ seen' = arm
  /\ UNCHANGED arm

YawNext == (\E d \in {-1, 1} : TurnArm(d)) \/ YawPass

YawSpec == YawInit /\ [][YawNext]_yawVars

-----------------------------------------------------------------------------
(* Properties.                                                             *)

(* The yaw never leaves the circle ...                                     *)
YawTypeOK ==
  /\ arm \in Int /\ seen \in Int /\ arm - seen \in -MaxStep .. MaxStep
  /\ prev_yaw_ticks \in 0 .. EncoderRange - 1
  /\ yaw_ticks \in -TicksPerPi .. TicksPerPi

(* ... and is where the arm was seen, up to full turns, however often the  *)
(* encoder and the circle have wrapped.                                    *)
YawIsTrue == (yaw_ticks - seen) % Turn = 0
=============================================================================
