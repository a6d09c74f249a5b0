------------------------------ MODULE FbOutput ------------------------------
(***************************************************************************)
(* The output limiter of a board (src/src/fb_output.c): what one control   *)
(* tick may do to the demand that reaches a motor.                         *)
(*                                                                         *)
(* The code computes in floats.  Here outputs are integers in thousandths  *)
(* of full scale (Full stands for 1.f), accelerations are steps per tick,  *)
(* and the measured pitch is an integer position: the comparisons are the  *)
(* code's, the two divisions round down.                                   *)
(***************************************************************************)
EXTENDS Integers

CONSTANTS
  Full,    \* full-scale output, 1.f in the code
  PosMin,  \* config.axis[UPDOWN].limits.pos_min
  PosMax,  \* config.axis[UPDOWN].limits.pos_max
  Slow     \* limit_deadband: 15% of the travel between the two

ASSUME OutputAssumption ==
  /\ Full \in Nat \ {0}
  /\ PosMin \in Int /\ PosMax \in Int
  /\ Slow \in Nat \ {0}
  /\ PosMin + 3 * Slow < PosMax

(* constrain_float and constrain_i16: the _CONSTRAIN macro.                *)
Constrain(x, a, b) == IF x < a THEN a ELSE IF x > b THEN b ELSE x

Outputs == -Full .. Full

limit_max == PosMax - 2 * Slow
limit_min == PosMin + Slow

(* Inside a slow zone the drive towards the limit is scaled down with the  *)
(* distance left to it; beyond the limit it is cut off.  A negative output *)
(* raises the measured pitch.  The comparisons are strict, so that exactly *)
(* at a limit nothing is constrained, as in the code.                      *)
LimitPitchOutput(pos, pitch, speed) ==
  IF pos > limit_max /\ pos < PosMax
  THEN Constrain(pitch, -((speed * (2 * Slow - (pos - limit_max))) \div (2 * Slow)), speed)
  ELSE IF pos > PosMax
  THEN Constrain(pitch, 0, speed)
  ELSE IF pos < limit_min /\ pos > PosMin
  THEN Constrain(pitch, -speed, (speed * (Slow - (limit_min - pos))) \div Slow)
  ELSE IF pos < PosMin
  THEN Constrain(pitch, -speed, 0)
  ELSE pitch

(* One tick of the ramp: move from out towards the demand by at most step. *)
Ramp(out, demand, step) ==
  IF out < demand THEN Constrain(out + step, out, demand)
  ELSE IF out > demand THEN Constrain(out - step, demand, out)
  ELSE out

(* Mutant: the position limits are applied before the ramp.                *)
PitchLimitedBeforeRamp(out, demand, speed, step, pos) ==
  Constrain(Ramp(out, LimitPitchOutput(pos, Constrain(demand, -Full, Full), speed), step),
            -speed, speed)

(* Mutant: the yaw demand is not ramped.                                   *)
YawNotRamped(out, demand, speed, step) ==
  Constrain(Constrain(demand, -Full, Full), -speed, speed)

(* fb_output_limited for each axis: clamp the demand, ramp towards it,     *)
(* apply the position limits (pitch only), clamp to the allowed speed.     *)
PitchLimited(out, demand, speed, step, pos) ==
  Constrain(LimitPitchOutput(pos, Ramp(out, Constrain(demand, -Full, Full), step), speed),
            -speed, speed)

YawLimited(out, demand, speed, step) ==
  Constrain(Ramp(out, Constrain(demand, -Full, Full), step), -speed, speed)
=============================================================================
