------------------------------ MODULE FbProofs ------------------------------
(***************************************************************************)
(* Proofs about one board, for every value of the constants.               *)
(***************************************************************************)
EXTENDS Fb, TLAPS

(* A clamp to an interval yields a member of it.                           *)
LEMMA ConstrainRange ==
  ASSUME NEW x \in Int, NEW a \in Int, NEW b \in Int, a <= b
  PROVE  Constrain(x, a, b) \in a .. b
BY DEF Constrain

(* A clamp to an interval around zero does not enlarge its argument.       *)
LEMMA ConstrainShrinks ==
  ASSUME NEW x \in Int, NEW a \in Int, NEW b \in Int, a <= 0, 0 <= b
  PROVE  /\ Constrain(x, a, b) \in a .. b
         /\ Abs(Constrain(x, a, b)) <= Abs(x)
         /\ x >= 0 => Constrain(x, a, b) >= 0
         /\ x <= 0 => Constrain(x, a, b) <= 0
BY DEF Constrain, Abs

(* One tick of the ramp stays between the output and the demand, and       *)
(* gains at most one step.                                                 *)
LEMMA RampBounds ==
  ASSUME NEW out \in Outputs, NEW demand \in Outputs, NEW step \in Nat
  PROVE  /\ Ramp(out, demand, step) \in Outputs
         /\ Abs(Ramp(out, demand, step)) <= Abs(out) + step
BY OutputAssumption DEF Ramp, Constrain, Outputs, Abs

(* One tick of the ramp comes nearer to the demand by a whole step, or     *)
(* arrives; it never overshoots.                                           *)
Nearer(new, old, demand, step) ==
  Abs(new - demand) = IF Abs(old - demand) <= step THEN 0 ELSE Abs(old - demand) - step

LEMMA RampApproaches ==
  ASSUME NEW out \in Outputs, NEW demand \in Outputs, NEW step \in Nat
  PROVE  Nearer(Ramp(out, demand, step), out, demand, step)
<1> USE OutputAssumption DEF Outputs, Nearer, Ramp, Constrain, Abs
<1>1. CASE out < demand
  BY <1>1
<1>2. CASE out > demand
  BY <1>2
<1>3. CASE out = demand
  BY <1>3
<1> QED
  BY <1>1, <1>2, <1>3

(* A share of a speed is not negative.                                     *)
LEMMA ShareIsNat ==
  ASSUME NEW speed \in Nat, NEW k \in Nat, NEW d \in Nat \ {0}
  PROVE  (speed * k) \div d \in Nat
<1>1. speed * k \in Nat
  OBVIOUS
<1> DEFINE n == speed * k
<1>2. n \in Nat
  BY <1>1
<1> HIDE DEF n
<1>3. n \div d \in Nat
  BY <1>2
<1> QED
  BY <1>3 DEF n

(* _limit_pitch_output takes output away, never adds to it, and beyond a   *)
(* limit leaves only the way back.                                         *)
LEMMA LimitPitchBounds ==
  ASSUME NEW p \in Int, NEW pitch \in Int, NEW speed \in Nat
  PROVE  /\ LimitPitchOutput(p, pitch, speed) \in Int
         /\ Abs(LimitPitchOutput(p, pitch, speed)) <= Abs(pitch)
         /\ p > PosMax => LimitPitchOutput(p, pitch, speed) >= 0
         /\ p < PosMin => LimitPitchOutput(p, pitch, speed) <= 0
<1> USE OutputAssumption
<1>0. limit_max \in Int /\ limit_min \in Int /\ limit_max < PosMax /\ PosMin < limit_min
      /\ limit_min < limit_max /\ limit_max + 2 * Slow = PosMax /\ limit_min - Slow = PosMin
  BY DEF limit_max, limit_min
<1>1. CASE p > limit_max /\ p < PosMax
  <2> DEFINE k == 2 * Slow - (p - limit_max)
             b == (speed * k) \div (2 * Slow)
  <2>1. k \in Nat /\ 2 * Slow \in Nat \ {0}
    BY <1>0, <1>1
  <2>2. b \in Nat
    BY <2>1, ShareIsNat
  <2>3. LimitPitchOutput(p, pitch, speed) = Constrain(pitch, -b, speed)
    BY <1>1 DEF LimitPitchOutput
  <2> HIDE DEF k, b
  <2>4. -b \in Int /\ -b <= 0
    BY <2>2
  <2>5. ~(p > PosMax) /\ ~(p < PosMin)
    BY <1>0, <1>1
  <2> QED
    BY <2>2, <2>3, <2>4, <2>5, ConstrainShrinks
<1>2. CASE p > PosMax
  <2>1. LimitPitchOutput(p, pitch, speed) = Constrain(pitch, 0, speed)
    BY <1>2 DEF LimitPitchOutput
  <2>2. Constrain(pitch, 0, speed) \in 0 .. speed
    BY ConstrainRange
  <2>3. Abs(Constrain(pitch, 0, speed)) <= Abs(pitch)
    BY ConstrainShrinks
  <2>4. ~(p < PosMin)
    BY <1>2
  <2> QED
    BY <2>1, <2>2, <2>3, <2>4
<1>3. CASE p < limit_min /\ p > PosMin
  <2> DEFINE k == Slow - (limit_min - p)
             b == (speed * k) \div Slow
  <2>1. k \in Nat
    BY <1>0, <1>3
  <2>2. b \in Nat
    BY <2>1, ShareIsNat
  <2>3. LimitPitchOutput(p, pitch, speed) = Constrain(pitch, -speed, b)
    BY <1>0, <1>3 DEF LimitPitchOutput
  <2> HIDE DEF k, b
  <2>4. -speed \in Int /\ -speed <= 0
    OBVIOUS
  <2>5. ~(p > PosMax) /\ ~(p < PosMin)
    BY <1>0, <1>3
  <2> QED
    BY <2>2, <2>3, <2>4, <2>5, ConstrainShrinks
<1>4. CASE p < PosMin
  <2>1. LimitPitchOutput(p, pitch, speed) = Constrain(pitch, -speed, 0)
    BY <1>0, <1>4 DEF LimitPitchOutput
  <2>2. Constrain(pitch, -speed, 0) \in -speed .. 0
    BY ConstrainRange
  <2>3. Abs(Constrain(pitch, -speed, 0)) <= Abs(pitch)
    BY ConstrainShrinks
  <2>4. ~(p > PosMax)
    BY <1>4
  <2> QED
    BY <2>1, <2>2, <2>3, <2>4
<1>5. CASE ~(p > limit_max /\ p < PosMax) /\ ~(p > PosMax)
           /\ ~(p < limit_min /\ p > PosMin) /\ ~(p < PosMin)
  BY <1>5 DEF LimitPitchOutput, Abs
<1> QED
  BY <1>1, <1>2, <1>3, <1>4, <1>5

(* fb_output_limited on the pitch axis.                                    *)
LEMMA PitchLimitedBounds ==
  ASSUME NEW out \in Outputs, NEW demand \in Int, NEW speed \in 0 .. Full,
         NEW step \in Nat, NEW p \in Int
  PROVE  LET r == PitchLimited(out, demand, speed, step, p) IN
         /\ r \in -speed .. speed
         /\ r \in Outputs
         /\ Abs(r) <= Abs(out) + step
         /\ p > PosMax => r >= 0
         /\ p < PosMin => r <= 0
<1> DEFINE d == Constrain(demand, -Full, Full)
           q == Ramp(out, d, step)
           l == LimitPitchOutput(p, q, speed)
           r == Constrain(l, -speed, speed)
<1>1. d \in Outputs
  BY OutputAssumption, ConstrainRange DEF Outputs
<1> HIDE DEF d
<1>2. q \in Outputs /\ Abs(q) <= Abs(out) + step
  BY <1>1, RampBounds
<1>3. q \in Int /\ speed \in Nat
  BY <1>2, OutputAssumption DEF Outputs
<1> HIDE DEF q
<1>4. /\ l \in Int /\ Abs(l) <= Abs(q)
      /\ p > PosMax => l >= 0
      /\ p < PosMin => l <= 0
  BY <1>3, LimitPitchBounds
<1> HIDE DEF l
<1>5. -speed \in Int /\ -speed <= 0 /\ 0 <= speed
  BY <1>3
<1>6. /\ r \in -speed .. speed /\ Abs(r) <= Abs(l)
      /\ l >= 0 => r >= 0
      /\ l <= 0 => r <= 0
  BY <1>3, <1>4, <1>5, ConstrainShrinks
<1> HIDE DEF r
<1>7. r \in Outputs
  BY <1>6, OutputAssumption DEF Outputs
<1>8. Abs(r) \in Int /\ Abs(l) \in Int /\ Abs(q) \in Int /\ Abs(out) \in Int
  BY <1>3, <1>4, <1>6, OutputAssumption DEF Abs, Outputs
<1>9. Abs(r) <= Abs(out) + step
  BY <1>2, <1>4, <1>6, <1>8
<1>10. PitchLimited(out, demand, speed, step, p) = r
  BY DEF PitchLimited, r, l, q, d
<1> QED
  BY <1>4, <1>6, <1>7, <1>9, <1>10

(* fb_output_limited on the yaw axis.                                      *)
LEMMA YawLimitedBounds ==
  ASSUME NEW out \in Outputs, NEW demand \in Int, NEW speed \in 0 .. Full, NEW step \in Nat
  PROVE  LET r == YawLimited(out, demand, speed, step) IN
         /\ r \in -speed .. speed
         /\ r \in Outputs
         /\ Abs(r) <= Abs(out) + step
<1> DEFINE d == Constrain(demand, -Full, Full)
           q == Ramp(out, d, step)
           r == Constrain(q, -speed, speed)
<1>1. d \in Outputs
  BY OutputAssumption, ConstrainRange DEF Outputs
<1> HIDE DEF d
<1>2. q \in Outputs /\ Abs(q) <= Abs(out) + step
  BY <1>1, RampBounds
<1>3. q \in Int /\ speed \in Nat
  BY <1>2, OutputAssumption DEF Outputs
<1> HIDE DEF q
<1>5. -speed \in Int /\ -speed <= 0 /\ 0 <= speed
  BY <1>3
<1>6. r \in -speed .. speed /\ Abs(r) <= Abs(q)
  BY <1>3, <1>5, ConstrainShrinks
<1> HIDE DEF r
<1>7. r \in Outputs
  BY <1>6, OutputAssumption DEF Outputs
<1>8. Abs(r) \in Int /\ Abs(q) \in Int /\ Abs(out) \in Int
  BY <1>3, <1>6, OutputAssumption DEF Abs, Outputs
<1>9. Abs(r) <= Abs(out) + step
  BY <1>2, <1>6, <1>8
<1>10. YawLimited(out, demand, speed, step) = r
  BY DEF YawLimited, r, q, d
<1> QED
  BY <1>6, <1>7, <1>9, <1>10

-----------------------------------------------------------------------------
(* What one control tick does to the motors, whichever mode it finds.      *)
LEMMA ControlStep ==
  ASSUME TypeOK, UpdateControl
  PROVE  /\ pos' \in Int
         /\ output' \in [Axes -> Outputs]
         /\ NeverDrivenOutward'
         /\ \A a \in Axes : Abs(output'[a]) <= Abs(output[a]) + AllowedStep(control_mode, a)
         /\ control_mode' \in ControlModes
<1> USE FbAssumption, OutputAssumption
<1>1. pos' \in Int
  BY DEF UpdateControl
<1>2. output.pitch \in Outputs /\ output.yaw \in Outputs
  BY DEF TypeOK, Axes
<1>3. remote.pitch \in Int /\ remote.yaw \in Int
  BY DEF TypeOK, Axes, Outputs
<1>4. ASSUME NEW dp \in Int, NEW dy \in Int, NEW speed \in 0 .. Full, NEW sp \in Nat, NEW sy \in Nat,
             output' = [pitch |-> PitchLimited(output.pitch, dp, speed, sp, pos'),
                        yaw |-> YawLimited(output.yaw, dy, speed, sy)],
             NEW gp \in Nat, NEW gy \in Nat,
             AllowedStep(control_mode, "pitch") = gp /\ (sp <= gp \/ speed = 0),
             AllowedStep(control_mode, "yaw") = gy /\ (sy <= gy \/ speed = 0)
      PROVE  /\ output' \in [Axes -> Outputs]
             /\ NeverDrivenOutward'
             /\ \A a \in Axes : Abs(output'[a]) <= Abs(output[a]) + AllowedStep(control_mode, a)
  <2> DEFINE r == PitchLimited(output.pitch, dp, speed, sp, pos')
             q == YawLimited(output.yaw, dy, speed, sy)
  <2>1. /\ r \in Outputs /\ r \in -speed .. speed
        /\ Abs(r) <= Abs(output.pitch) + sp
        /\ pos' > PosMax => r >= 0
        /\ pos' < PosMin => r <= 0
    BY <1>1, <1>2, PitchLimitedBounds
  <2>2. q \in Outputs /\ q \in -speed .. speed /\ Abs(q) <= Abs(output.yaw) + sy
    BY <1>2, YawLimitedBounds
  <2>3. output' = [pitch |-> r, yaw |-> q]
    BY <1>4
  <2> HIDE DEF r, q
  <2>4. output' \in [Axes -> Outputs]
    BY <2>1, <2>2, <2>3 DEF Axes
  <2>5. output'.pitch = r /\ output'.yaw = q
    BY <2>3
  <2>6. NeverDrivenOutward'
    BY <2>1, <2>5 DEF NeverDrivenOutward
  <2>7. Abs(r) <= Abs(output.pitch) + gp
    BY <1>2, <1>4, <2>1 DEF Abs, Outputs
  <2>8. Abs(q) <= Abs(output.yaw) + gy
    BY <1>2, <1>4, <2>2 DEF Abs, Outputs
  <2>9. ASSUME NEW a \in Axes
        PROVE  Abs(output'[a]) <= Abs(output[a]) + AllowedStep(control_mode, a)
    <3>1. CASE a = "pitch"
      BY <1>4, <2>7, <2>5, <3>1
    <3>2. CASE a = "yaw"
      BY <1>4, <2>8, <2>5, <3>2
    <3> QED
      BY <3>1, <3>2 DEF Axes
  <2> QED
    BY <2>4, <2>6, <2>9
<1>5. CASE NoMotionControl
  <2>1. AllowedStep(control_mode, "pitch") = 0 /\ AllowedStep(control_mode, "yaw") = 0
    BY <1>5 DEF NoMotionControl, AllowedStep
  <2>2. output' = [pitch |-> PitchLimited(output.pitch, 0, 0, MaxAcc, pos'),
                   yaw |-> YawLimited(output.yaw, 0, 0, MaxAcc)]
    BY <1>5 DEF NoMotionControl
  <2>3. control_mode' \in ControlModes
    BY <1>5 DEF NoMotionControl, ControlModes
  <2>4. 0 \in 0 .. Full /\ 0 \in Int /\ 0 \in Nat /\ MaxAcc \in Nat
    OBVIOUS
  <2> QED
    BY <1>1, <1>4, <2>1, <2>2, <2>3, <2>4
<1>6. CASE RemoteControl
  <2>1. AllowedStep(control_mode, "pitch") = 4 * MaxAcc /\ AllowedStep(control_mode, "yaw") = 4 * MaxAcc
    BY <1>6 DEF RemoteControl, AllowedStep
  <2>2. output' = [pitch |-> PitchLimited(output.pitch, remote.pitch, Full, 4 * MaxAcc, pos'),
                   yaw |-> YawLimited(output.yaw, remote.yaw, Full, 4 * MaxAcc)]
    BY <1>6 DEF RemoteControl
  <2>3. control_mode' \in ControlModes
    BY <1>6 DEF RemoteControl, ControlModes
  <2>4. Full \in 0 .. Full /\ 4 * MaxAcc \in Nat /\ 4 * MaxAcc <= 4 * MaxAcc
    OBVIOUS
  <2> QED
    BY <1>1, <1>3, <1>4, <2>1, <2>2, <2>3, <2>4
<1>7. CASE ManualControl
  <2>1. PICK joy \in [Axes -> Joys], speed \in Speeds, acc \in Accs :
          output' = [pitch |-> PitchLimited(output.pitch, joy.pitch, speed, acc, pos'),
                     yaw |-> YawLimited(output.yaw, joy.yaw, speed, acc)]
    BY <1>7 DEF ManualControl
  <2>2. AllowedStep(control_mode, "pitch") = MaxAcc /\ AllowedStep(control_mode, "yaw") = MaxAcc
    BY <1>7 DEF ManualControl, AllowedStep
  <2>3. control_mode' \in ControlModes
    BY <1>7 DEF ManualControl, ControlModes
  <2>4. speed \in 0 .. Full /\ acc \in Nat /\ acc <= MaxAcc /\ MaxAcc \in Nat
    OBVIOUS
  <2>5. joy.pitch \in Joys /\ joy.yaw \in Joys
    BY DEF Axes
  <2>6. Joys \subseteq Int
    BY DEF Outputs
  <2>7. joy.pitch \in Int /\ joy.yaw \in Int
    BY <2>5, <2>6
  <2> QED
    BY <1>1, <1>4, <2>1, <2>2, <2>3, <2>4, <2>7
<1>8. CASE AutoControl
  <2>0. control_mode = "AUTO"
    BY <1>8, Zenon DEF AutoControl
  <2>1. PICK co \in [Axes -> AutoOutputs], wiggled \in BOOLEAN :
          /\ output' = [pitch |-> PitchLimited(output.pitch, co.pitch, Full, 8 * MaxAcc, pos'),
                        yaw |-> YawLimited(output.yaw, co.yaw, Full, 4 * MaxAcc)]
          /\ control_mode' = IF wiggled THEN "MANUAL" ELSE "AUTO"
    BY <1>8, Zenon DEF AutoControl
  <2>2. AllowedStep(control_mode, "pitch") = 8 * MaxAcc /\ AllowedStep(control_mode, "yaw") = 4 * MaxAcc
    BY <2>0 DEF AllowedStep
  <2>3. control_mode' \in ControlModes
    BY <2>1 DEF ControlModes
  <2>4. Full \in 0 .. Full /\ 8 * MaxAcc \in Nat /\ 4 * MaxAcc \in Nat
        /\ 8 * MaxAcc <= 8 * MaxAcc /\ 4 * MaxAcc <= 4 * MaxAcc
    OBVIOUS
  <2>5. co.pitch \in Int /\ co.yaw \in Int
    <3>1. co.pitch \in AutoOutputs /\ co.yaw \in AutoOutputs
      BY DEF Axes
    <3> QED
      BY <3>1
  <2> QED
    BY <1>1, <1>4, <2>1, <2>2, <2>3, <2>4, <2>5
<1> QED
  BY <1>5, <1>6, <1>7, <1>8 DEF UpdateControl
-----------------------------------------------------------------------------
(* The inductive invariant: a deadline alone says nothing of the past, so  *)
(* NoFalseAlarm needs DeadlineTracksDemand, and both need the types.       *)
IInv == TypeOK /\ DeadlineTracksDemand /\ NeverDrivenOutward

LEMMA InitInv == Init => IInv
<1> SUFFICES ASSUME Init PROVE IInv
  OBVIOUS
<1> USE FbAssumption, OutputAssumption DEF Init
<1>1. output \in [Axes -> Outputs] /\ remote \in [Axes -> Outputs]
  BY DEF Outputs
<1>2. left \in [Axes -> -1 .. RemoteTimeout] /\ age \in [Axes -> 0 .. RemoteTimeout + 1]
  OBVIOUS
<1>3. item_age \in [Items -> 0 .. SlaveTimeout + 1] /\ slave_left \in -1 .. SlaveTimeout
  OBVIOUS
<1>4. TypeOK
  <2>1. canopen \in [address : 0 .. 15, mode : Modes, cycling : BOOLEAN]
    BY DEF Modes
  <2>2. pos \in Int /\ can_addr \in 0 .. 15 /\ valid_bits \in SUBSET Items
    OBVIOUS
  <2> QED
    BY <1>1, <1>2, <1>3, <2>1, <2>2 DEF TypeOK, Modes, ControlModes
<1>5. DeadlineTracksDemand
  BY DEF DeadlineTracksDemand
<1>6. NeverDrivenOutward
  BY DEF NeverDrivenOutward, Axes
<1> QED
  BY <1>4, <1>5, <1>6 DEF IInv

LEMMA CanClockInv == IInv /\ CanClock => IInv'
<1> SUFFICES ASSUME IInv, CanClock PROVE IInv'
  OBVIOUS
<1> USE FbAssumption
<1>1. TypeOK /\ DeadlineTracksDemand /\ NeverDrivenOutward
  BY DEF IInv
<1>2. UNCHANGED <<role, use_local, home_valid, remote, age, motor>>
  BY DEF CanClock
<1>3. /\ timed_out' \in BOOLEAN
      /\ left' \in [Axes -> -1 .. RemoteTimeout]
      /\ \A a \in Axes : left'[a] >= left[a] 
      /\ valid_bits' \in SUBSET Items /\ slave_left' \in -1 .. SlaveTimeout
      /\ UNCHANGED item_age
  <2>1. CASE mode = "SLAVE" /\ SlaveClock
    <3>1. left' \in [Axes -> -1 .. RemoteTimeout]
      BY <1>1, <2>1 DEF SlaveClock, TypeOK
    <3>2. ASSUME NEW a \in Axes PROVE left'[a] >= left[a]
      <4>1. left[a] \in -1 .. RemoteTimeout
        BY <1>1 DEF TypeOK
      <4> QED
        BY <2>1, <4>1 DEF SlaveClock
    <3> QED
      BY <1>1, <2>1, <3>1, <3>2 DEF SlaveClock, slave, TypeOK
  <2>2. CASE mode = "MASTER" /\ MasterClock
    BY <1>1, <2>2 DEF MasterClock, TypeOK, Items
  <2>3. CASE mode = "UNDEFINED" /\ UNCHANGED <<timed_out, left, slave>>
    BY <1>1, <2>3 DEF slave, TypeOK
  <2> QED
    BY <2>1, <2>2, <2>3 DEF CanClock
<1>4. control_mode' \in ControlModes
  BY <1>1 DEF CanClock, LinkControlMode, ControlModes, TypeOK
<1>5. pc' \in {"can", "reinit", "state", "control", "sleep"}
  BY DEF CanClock
<1>6. TypeOK'
  BY <1>1, <1>2, <1>3, <1>4, <1>5 DEF TypeOK, role, motor
<1>7. DeadlineTracksDemand'
  <2> SUFFICES ASSUME NEW a \in Axes PROVE left'[a] >= RemoteTimeout - age'[a]
    BY DEF DeadlineTracksDemand
  <2>1. left[a] >= RemoteTimeout - age[a] /\ left'[a] >= left[a] /\ age' = age
    BY <1>1, <1>2, <1>3 DEF DeadlineTracksDemand
  <2>2. left[a] \in Int /\ left'[a] \in Int /\ age[a] \in Int
    BY <1>1, <1>3 DEF TypeOK
  <2> QED
    BY <2>1, <2>2
<1>8. NeverDrivenOutward'
  BY <1>1, <1>2 DEF NeverDrivenOutward, motor
<1> QED
  BY <1>6, <1>7, <1>8 DEF IInv

LEMMA UpdateStateInv == IInv /\ UpdateState => IInv'
<1> SUFFICES ASSUME IInv, UpdateState PROVE IInv'
  OBVIOUS
<1> USE FbAssumption
<1>1. TypeOK /\ DeadlineTracksDemand /\ NeverDrivenOutward
  BY DEF IInv
<1>2. UNCHANGED <<timed_out, use_local, link, slave, motor>> /\ pc' = "control"
  BY DEF UpdateState
<1>3. PICK save \in BOOLEAN, load \in BOOLEAN, addr \in Addrs :
        /\ home_valid' = (home_valid \/ save)
        /\ CheckMode(addr, StateControlMode(load))
  BY Zenon DEF UpdateState
<1>4. home_valid' \in BOOLEAN
  BY <1>3
<1>5. StateControlMode(load) \in ControlModes
  BY <1>1 DEF StateControlMode, ControlModes, TypeOK
<1>6. /\ mode' \in Modes /\ can_addr' \in 0 .. 15
      /\ canopen' \in [address : 0 .. 15, mode : Modes, cycling : BOOLEAN]
      /\ control_mode' \in ControlModes
  <2>1. CASE addr = can_addr
    BY <1>1, <1>3, <1>5, <2>1 DEF CheckMode, role, TypeOK
  <2>2. CASE addr # can_addr
    <3>1. can_addr' = addr /\ addr \in 0 .. 15
      BY <1>3, <2>2 DEF CheckMode
    <3>2. mode' \in Modes
      BY <1>3, <2>2 DEF CheckMode, Modes
    <3>3. control_mode' \in ControlModes
      BY <1>3, <1>5, <2>2 DEF CheckMode, ControlModes
    <3>4. canopen' = [address |-> addr, mode |-> mode',
                      cycling |-> canopen.cycling \/ addr = MasterAddress]
      BY <1>3, <2>2 DEF CheckMode
    <3>5. (canopen.cycling \/ addr = MasterAddress) \in BOOLEAN
      BY <1>1 DEF TypeOK
    <3> QED
      BY <3>1, <3>2, <3>3, <3>4, <3>5
  <2> QED
    BY <2>1, <2>2
<1>7. TypeOK'
  BY <1>1, <1>2, <1>4, <1>6 DEF TypeOK, link, slave, motor
<1>8. DeadlineTracksDemand'
  BY <1>1, <1>2 DEF DeadlineTracksDemand, link
<1>9. NeverDrivenOutward'
  BY <1>1, <1>2 DEF NeverDrivenOutward, motor
<1> QED
  BY <1>7, <1>8, <1>9 DEF IInv

LEMMA UpdateControlInv == IInv /\ UpdateControl => IInv'
<1> SUFFICES ASSUME IInv, UpdateControl PROVE IInv'
  OBVIOUS
<1>1. TypeOK /\ DeadlineTracksDemand
  BY DEF IInv
<1>2. UNCHANGED <<role, timed_out, use_local, home_valid, link, slave>> /\ pc' = "sleep"
  BY DEF UpdateControl
<1>3. pos' \in Int /\ output' \in [Axes -> Outputs] /\ NeverDrivenOutward' /\ control_mode' \in ControlModes
  BY <1>1, ControlStep
<1>4. TypeOK'
  BY <1>1, <1>2, <1>3 DEF TypeOK, role, link, slave
<1>5. DeadlineTracksDemand'
  BY <1>1, <1>2 DEF DeadlineTracksDemand, link
<1> QED
  BY <1>3, <1>4, <1>5 DEF IInv

LEMMA TickInv == IInv /\ Tick => IInv'
<1> SUFFICES ASSUME IInv, Tick PROVE IInv'
  OBVIOUS
<1> USE FbAssumption
<1>1. TypeOK /\ DeadlineTracksDemand /\ NeverDrivenOutward
  BY DEF IInv
<1>2. UNCHANGED <<role, control_mode, timed_out, use_local, home_valid, remote, valid_bits, motor>>
  BY DEF Tick
<1>3. left' \in [Axes -> -1 .. RemoteTimeout]
  <2>1. \A a \in Axes : CountDown(left[a]) \in -1 .. RemoteTimeout
    BY <1>1 DEF TypeOK, CountDown
  <2> QED
    BY <2>1 DEF Tick
<1>4. age' \in [Axes -> 0 .. RemoteTimeout + 1]
  <2>1. \A a \in Axes : CountUp(age[a], RemoteTimeout) \in 0 .. RemoteTimeout + 1
    BY <1>1 DEF TypeOK, CountUp
  <2> QED
    BY <2>1 DEF Tick
<1>5. item_age' \in [Items -> 0 .. SlaveTimeout + 1]
  <2>1. \A i \in Items : CountUp(item_age[i], SlaveTimeout) \in 0 .. SlaveTimeout + 1
    BY <1>1 DEF TypeOK, CountUp
  <2> QED
    BY <2>1 DEF Tick
<1>6. slave_left' \in -1 .. SlaveTimeout
  BY <1>1 DEF TypeOK, CountDown, Tick
<1>7. pc' \in {"can", "reinit", "state", "control", "sleep"}
  BY <1>1 DEF Tick, TypeOK
<1>8. TypeOK'
  BY <1>1, <1>2, <1>3, <1>4, <1>5, <1>6, <1>7 DEF TypeOK, role, motor
<1>9. DeadlineTracksDemand'
  <2> SUFFICES ASSUME NEW a \in Axes PROVE left'[a] >= RemoteTimeout - age'[a]
    BY DEF DeadlineTracksDemand
  <2>1. left'[a] = CountDown(left[a]) /\ age'[a] = CountUp(age[a], RemoteTimeout)
    BY DEF Tick
  <2>2. left[a] \in -1 .. RemoteTimeout /\ age[a] \in 0 .. RemoteTimeout + 1
    BY <1>1 DEF TypeOK
  <2>3. left[a] >= RemoteTimeout - age[a]
    BY <1>1 DEF DeadlineTracksDemand
  <2> QED
    BY <2>1, <2>2, <2>3 DEF CountDown, CountUp
<1>10. NeverDrivenOutward'
  BY <1>1, <1>2 DEF NeverDrivenOutward, motor
<1> QED
  BY <1>8, <1>9, <1>10 DEF IInv

LEMMA WriteDemandInv ==
  ASSUME IInv, NEW a \in Axes, NEW v \in Demands, WriteDemand(a, v)
  PROVE  IInv'
<1> USE FbAssumption, OutputAssumption
<1>1. TypeOK /\ DeadlineTracksDemand /\ NeverDrivenOutward
  BY DEF IInv
<1>2. UNCHANGED <<pc, role, control_mode, timed_out, use_local, home_valid, slave, motor>>
  BY DEF WriteDemand
<1>3. Constrain(v, -Full, Full) \in Outputs
  <2>1. v \in Int /\ -Full \in Int /\ Full \in Int /\ -Full <= Full
    OBVIOUS
  <2> QED
    BY <2>1, ConstrainRange DEF Outputs
<1>4. /\ remote' \in [Axes -> Outputs]
      /\ left' \in [Axes -> -1 .. RemoteTimeout]
      /\ age' \in [Axes -> 0 .. RemoteTimeout + 1]
  BY <1>1, <1>3 DEF WriteDemand, TypeOK
<1>5. TypeOK'
  BY <1>1, <1>2, <1>4 DEF TypeOK, role, slave, motor
<1>6. DeadlineTracksDemand'
  <2> SUFFICES ASSUME NEW b \in Axes PROVE left'[b] >= RemoteTimeout - age'[b]
    BY DEF DeadlineTracksDemand
  <2>1. CASE b = a
    BY <1>1, <2>1 DEF WriteDemand, TypeOK
  <2>2. CASE b # a
    BY <1>1, <2>2 DEF WriteDemand, TypeOK, DeadlineTracksDemand
  <2> QED
    BY <2>1, <2>2
<1>7. NeverDrivenOutward'
  BY <1>1, <1>2 DEF NeverDrivenOutward, motor
<1> QED
  BY <1>5, <1>6, <1>7 DEF IInv

LEMMA WriteItemInv ==
  ASSUME IInv, NEW i \in Items, WriteItem(i)
  PROVE  IInv'
<1> USE FbAssumption
<1>1. TypeOK /\ DeadlineTracksDemand /\ NeverDrivenOutward
  BY DEF IInv
<1>2. UNCHANGED <<pc, role, control_mode, timed_out, use_local, home_valid, link, slave_left, motor>>
  BY DEF WriteItem
<1>3. valid_bits' \in SUBSET Items /\ item_age' \in [Items -> 0 .. SlaveTimeout + 1]
  BY <1>1 DEF WriteItem, TypeOK
<1>4. TypeOK'
  BY <1>1, <1>2, <1>3 DEF TypeOK, role, link, motor
<1>5. DeadlineTracksDemand'
  BY <1>1, <1>2 DEF DeadlineTracksDemand, link
<1>6. NeverDrivenOutward'
  BY <1>1, <1>2 DEF NeverDrivenOutward, motor
<1> QED
  BY <1>4, <1>5, <1>6 DEF IInv

LEMMA ConsoleInv ==
  ASSUME IInv, NEW cmd \in Commands, Console(cmd)
  PROVE  IInv'
<1>1. TypeOK /\ DeadlineTracksDemand /\ NeverDrivenOutward
  BY DEF IInv
<1>2. UNCHANGED <<pc, role, timed_out, link, slave, motor>>
  BY DEF Console
<1>3. use_local' \in BOOLEAN
  BY <1>1 DEF Console, TypeOK
<1>4. home_valid' \in BOOLEAN
  BY <1>1 DEF Console, TypeOK
<1>5. control_mode' \in ControlModes
  BY <1>1 DEF Console, TypeOK, ControlModes
<1>6. TypeOK'
  BY <1>1, <1>2, <1>3, <1>4, <1>5 DEF TypeOK, role, link, slave, motor
<1>7. DeadlineTracksDemand'
  BY <1>1, <1>2 DEF DeadlineTracksDemand, link
<1>8. NeverDrivenOutward'
  BY <1>1, <1>2 DEF NeverDrivenOutward, motor
<1> QED
  BY <1>6, <1>7, <1>8 DEF IInv

(* Every reachable state satisfies the inductive invariant.                *)
THEOREM Invariance == Spec => []IInv
<1>1. Init => IInv
  BY InitInv
<1>2. IInv /\ [Next]_vars => IInv'
  <2> SUFFICES ASSUME IInv, [Next]_vars PROVE IInv'
    OBVIOUS
  <2>1. CASE CanClock
    BY <2>1, CanClockInv
  <2>2. CASE ReinitDone
    BY <2>2 DEF ReinitDone, IInv, TypeOK, DeadlineTracksDemand, NeverDrivenOutward,
                role, link, slave, motor
  <2>3. CASE UpdateState
    BY <2>3, UpdateStateInv
  <2>4. CASE UpdateControl
    BY <2>4, UpdateControlInv
  <2>5. CASE Tick
    BY <2>5, TickInv
  <2>6. CASE \E a \in Axes, v \in Demands : WriteDemand(a, v)
    BY <2>6, WriteDemandInv
  <2>7. CASE \E i \in Items : WriteItem(i)
    BY <2>7, WriteItemInv
  <2>8. CASE \E cmd \in Commands : Console(cmd)
    BY <2>8, ConsoleInv
  <2>9. CASE UNCHANGED vars
    BY <2>9 DEF vars, IInv, TypeOK, DeadlineTracksDemand, NeverDrivenOutward,
                role, link, slave, motor
  <2> QED
    BY <2>1, <2>2, <2>3, <2>4, <2>5, <2>6, <2>7, <2>8, <2>9 DEF Next, Loop
<1> QED
  BY <1>1, <1>2, PTL DEF Spec

(* The types of the board's state hold: in particular both outputs stay    *)
(* within full scale and both deadlines within their time-out.             *)
THEOREM TypeCorrect == Spec => []TypeOK
<1>1. IInv => TypeOK
  BY DEF IInv
<1> QED
  BY <1>1, Invariance, PTL

(* No deadline of a demand runs out before its time.                       *)
THEOREM DeadlinesCorrect == Spec => []DeadlineTracksDemand
<1>1. IInv => DeadlineTracksDemand
  BY DEF IInv
<1> QED
  BY <1>1, Invariance, PTL

(* For every travel, every speed and every sequence of control modes, a    *)
(* motor beyond its pitch limit is only ever driven back.                  *)
THEOREM PositionLimitsHold == Spec => []NeverDrivenOutward
<1>1. IInv => NeverDrivenOutward
  BY DEF IInv
<1> QED
  BY <1>1, Invariance, PTL

(* Only the loop's look at the link leads from "can" to "state".           *)
LEMMA MonitorPassIsCanClock ==
  ASSUME [Next]_vars, pc = "can", pc' = "state"
  PROVE  CanClock
<1>1. ~ReinitDone /\ ~UpdateState /\ ~UpdateControl /\ ~Tick
  BY DEF ReinitDone, UpdateState, UpdateControl, Tick
<1>2. ~ \E a \in Axes, v \in Demands : WriteDemand(a, v)
  BY DEF WriteDemand
<1>3. ~ \E i \in Items : WriteItem(i)
  BY DEF WriteItem
<1>4. ~ \E cmd \in Commands : Console(cmd)
  BY DEF Console
<1>5. ~ UNCHANGED vars
  BY DEF vars
<1> QED
  BY <1>1, <1>2, <1>3, <1>4, <1>5 DEF Next, Loop

(* For every time-out, a slave that is stopped by the link monitor has     *)
(* really missed a demand for longer than the time-out.                    *)
THEOREM LinkMonitorIsSound == Spec => NoFalseAlarm
<1>1. IInv /\ [Next]_vars
        => [pc = "can" /\ pc' = "state" /\ mode = "SLAVE" /\ timed_out'
              => \E a \in Axes : age[a] > RemoteTimeout]_vars
  <2> SUFFICES ASSUME IInv, [Next]_vars,
                      pc = "can", pc' = "state", mode = "SLAVE", timed_out'
               PROVE  \E a \in Axes : age[a] > RemoteTimeout
    BY Zenon
  <2>1. CanClock
    BY MonitorPassIsCanClock
  <2>2. SlaveClock
    BY <2>1 DEF CanClock
  <2>3. PICK a \in Axes : left[a] < 0
    BY <2>2 DEF SlaveClock, Expired
  <2>4. left[a] >= RemoteTimeout - age[a] /\ left[a] \in Int /\ age[a] \in Int
    BY DEF IInv, TypeOK, DeadlineTracksDemand
  <2>5. age[a] > RemoteTimeout
    BY <2>3, <2>4, FbAssumption
  <2> QED
    BY <2>5
<1> QED
  BY <1>1, Invariance, PTL DEF Spec, NoFalseAlarm

(* A slave whose two demands have both come within the timeout is under    *)
(* remote control after its next look at the link, whatever took it away   *)
(* before: a time-out, a button or a console command.  It is the safety    *)
(* half of HealthyLinkIsRemote.                                            *)
THEOREM HealthyLinkDrives ==
  Spec => [][/\ pc = "can" /\ pc' = "state" /\ mode = "SLAVE" /\ ~use_local
             /\ \A a \in Axes : age[a] <= RemoteTimeout
             => control_mode' = "REMOTE" /\ UNCHANGED left]_vars
<1>1. IInv /\ [Next]_vars
        => [/\ pc = "can" /\ pc' = "state" /\ mode = "SLAVE" /\ ~use_local
            /\ \A a \in Axes : age[a] <= RemoteTimeout
            => control_mode' = "REMOTE" /\ UNCHANGED left]_vars
  <2> SUFFICES ASSUME IInv, [Next]_vars,
                      pc = "can", pc' = "state", mode = "SLAVE", ~use_local,
                      \A a \in Axes : age[a] <= RemoteTimeout
               PROVE  control_mode' = "REMOTE" /\ UNCHANGED left
    BY Zenon
  <2>1. CanClock
    BY MonitorPassIsCanClock
  <2>2. SlaveClock
    BY <2>1 DEF CanClock
  <2>3. ASSUME NEW a \in Axes
        PROVE  ~Expired(left[a])
    <3>1. left[a] >= RemoteTimeout - age[a] /\ left[a] \in Int /\ age[a] \in Int
      BY DEF IInv, TypeOK, DeadlineTracksDemand
    <3>2. age[a] <= RemoteTimeout
      OBVIOUS
    <3> QED
      BY <3>1, <3>2, FbAssumption DEF Expired
  <2>4. ~timed_out' /\ UNCHANGED left
    BY <2>2, <2>3, Zenon DEF SlaveClock
  <2>5. control_mode' = LinkControlMode(timed_out')
    BY <2>1 DEF CanClock
  <2> QED
    BY <2>4, <2>5, Zenon DEF LinkControlMode
<1> QED
  BY <1>1, Invariance, PTL DEF Spec

(* For every acceleration, no step of the board speeds a motor up by more  *)
(* than the acceleration of the control mode it is in.                     *)
THEOREM RampsHold == Spec => SpeedsUpGradually
<1>1. IInv /\ [Next]_vars
        => [\A a \in Axes : Abs(output'[a]) <= Abs(output[a]) + AllowedStep(control_mode, a)]_vars
  <2> SUFFICES ASSUME IInv, [Next]_vars, NEW a \in Axes
               PROVE  Abs(output'[a]) <= Abs(output[a]) + AllowedStep(control_mode, a)
    BY Zenon
  <2>1. CASE UpdateControl
    BY <2>1, ControlStep DEF IInv
  <2>2. CASE output' = output
    <3>1. AllowedStep(control_mode, a) \in Nat
      BY FbAssumption DEF AllowedStep, IInv, TypeOK, ControlModes
    <3>2. Abs(output[a]) \in Int
      BY OutputAssumption DEF IInv, TypeOK, Outputs, Abs
    <3> QED
      BY <2>2, <3>1, <3>2
  <2>3. UpdateControl \/ output' = output
    BY DEF Next, Loop, CanClock, ReinitDone, UpdateState, Tick, WriteDemand, WriteItem,
           Console, motor, vars
  <2> QED
    BY <2>1, <2>2, <2>3
<1> QED
  BY <1>1, Invariance, PTL DEF Spec, SpeedsUpGradually

(* Only the loop's control pass leads from "control" to "sleep".           *)
LEMMA ControlPassIsUpdate ==
  ASSUME [Next]_vars, pc = "control", pc' = "sleep"
  PROVE  UpdateControl
<1>1. ~CanClock /\ ~ReinitDone /\ ~UpdateState /\ ~Tick
  BY DEF CanClock, ReinitDone, UpdateState, Tick
<1>2. ~ \E a \in Axes, v \in Demands : WriteDemand(a, v)
  BY DEF WriteDemand
<1>3. ~ \E i \in Items : WriteItem(i)
  BY DEF WriteItem
<1>4. ~ \E cmd \in Commands : Console(cmd)
  BY DEF Console
<1>5. ~ UNCHANGED vars
  BY DEF vars
<1> QED
  BY <1>1, <1>2, <1>3, <1>4, <1>5 DEF Next, Loop

(* NO_MOTION, into which a slave goes when its link is lost, stops both    *)
(* motors in one pass, whatever they were doing and wherever the arm is:   *)
(* the speed that _fb_update_control passes is the last thing that         *)
(* fb_output_limited applies.  It is the safety half of SilenceStopsMotors. *)
THEOREM NoMotionStops ==
  Spec => [][pc = "control" /\ pc' = "sleep" /\ control_mode = "NO_MOTION" => Stopped']_vars
<1>1. TypeOK /\ [Next]_vars
        => [pc = "control" /\ pc' = "sleep" /\ control_mode = "NO_MOTION" => Stopped']_vars
  <2> SUFFICES ASSUME TypeOK, [Next]_vars,
                      pc = "control", pc' = "sleep", control_mode = "NO_MOTION"
               PROVE  Stopped'
    BY Zenon
  <2>1. UpdateControl
    BY ControlPassIsUpdate
  <2>2. NoMotionControl
    BY <2>1 DEF UpdateControl, RemoteControl, ManualControl, AutoControl
  <2>3. pos' \in Int
    BY <2>1, ControlStep
  <2>4. MaxAcc \in Nat /\ 0 \in Int /\ 0 \in 0 .. Full
    BY FbAssumption, OutputAssumption
  <2>5. output.pitch \in Outputs /\ output.yaw \in Outputs
    BY DEF TypeOK, Axes
  <2>6. PitchLimited(output.pitch, 0, 0, MaxAcc, pos') = 0
    <3>1. PitchLimited(output.pitch, 0, 0, MaxAcc, pos') \in -0 .. 0
      BY <2>3, <2>4, <2>5, PitchLimitedBounds
    <3> QED
      BY <3>1
  <2>7. YawLimited(output.yaw, 0, 0, MaxAcc) = 0
    <3>1. YawLimited(output.yaw, 0, 0, MaxAcc) \in -0 .. 0
      BY <2>4, <2>5, YawLimitedBounds
    <3> QED
      BY <3>1
  <2>8. output' = [pitch |-> 0, yaw |-> 0]
    BY <2>2, <2>6, <2>7 DEF NoMotionControl
  <2> QED
    BY <2>8 DEF Stopped, Axes
<1> QED
  BY <1>1, TypeCorrect, PTL DEF Spec

(* Between the slow zones, and on the yaw axis anywhere, a drive under     *)
(* remote control comes nearer to the demand by a whole step in each pass, *)
(* or has it: neither the limits nor the clamps hold it up, and it does    *)
(* not overshoot.                                                          *)
Follows(a) == Nearer(output'[a], output[a], remote[a], 4 * MaxAcc)

THEOREM RemoteDrivesFollow ==
  Spec => [][pc = "control" /\ pc' = "sleep" /\ control_mode = "REMOTE"
               => /\ Follows("yaw")
                  /\ limit_min <= pos' /\ pos' <= limit_max => Follows("pitch")]_vars
<1>1. TypeOK /\ [Next]_vars
        => [pc = "control" /\ pc' = "sleep" /\ control_mode = "REMOTE"
              => /\ Follows("yaw")
                 /\ limit_min <= pos' /\ pos' <= limit_max => Follows("pitch")]_vars
  <2> SUFFICES ASSUME TypeOK, [Next]_vars,
                      pc = "control", pc' = "sleep", control_mode = "REMOTE"
               PROVE  /\ Follows("yaw")
                      /\ limit_min <= pos' /\ pos' <= limit_max => Follows("pitch")
    BY Zenon
  <2>1. UpdateControl
    BY ControlPassIsUpdate
  <2>2. RemoteControl
    BY <2>1 DEF UpdateControl, NoMotionControl, ManualControl, AutoControl
  <2>3. pos' \in Int
    BY <2>1, ControlStep
  <2>4. /\ output.pitch \in Outputs /\ output.yaw \in Outputs
        /\ remote.pitch \in Outputs /\ remote.yaw \in Outputs
    BY DEF TypeOK, Axes
  <2>5. 4 * MaxAcc \in Nat /\ Full \in Nat
    BY FbAssumption, OutputAssumption
  <2>6. ASSUME NEW x \in Outputs
        PROVE  Constrain(x, -Full, Full) = x
    BY <2>5 DEF Outputs, Constrain
  <2> DEFINE p == Ramp(output.pitch, remote.pitch, 4 * MaxAcc)
             y == Ramp(output.yaw, remote.yaw, 4 * MaxAcc)
  <2>7. /\ p \in Outputs /\ Nearer(p, output.pitch, remote.pitch, 4 * MaxAcc)
        /\ y \in Outputs /\ Nearer(y, output.yaw, remote.yaw, 4 * MaxAcc)
    BY <2>4, <2>5, RampBounds, RampApproaches
  <2>8. output' = [pitch |-> PitchLimited(output.pitch, remote.pitch, Full, 4 * MaxAcc, pos'),
                   yaw |-> YawLimited(output.yaw, remote.yaw, Full, 4 * MaxAcc)]
    BY <2>2 DEF RemoteControl
  <2>9. YawLimited(output.yaw, remote.yaw, Full, 4 * MaxAcc) = y
    BY <2>4, <2>6, <2>7 DEF YawLimited
  <2>10. Follows("yaw")
    BY <2>7, <2>8, <2>9 DEF Follows
  <2>11. ASSUME limit_min <= pos', pos' <= limit_max
         PROVE  Follows("pitch")
    <3>1. /\ ~(pos' > limit_max) /\ ~(pos' > PosMax)
          /\ ~(pos' < limit_min) /\ ~(pos' < PosMin)
      BY <2>3, <2>11, OutputAssumption DEF limit_min, limit_max
    <3>2. LimitPitchOutput(pos', p, Full) = p
      BY <3>1 DEF LimitPitchOutput
    <3>3. PitchLimited(output.pitch, remote.pitch, Full, 4 * MaxAcc, pos')
            = Constrain(LimitPitchOutput(pos', p, Full), -Full, Full)
      BY <2>4, <2>6 DEF PitchLimited
    <3>4. PitchLimited(output.pitch, remote.pitch, Full, 4 * MaxAcc, pos') = p
      BY <2>6, <2>7, <3>2, <3>3
    <3> QED
      BY <2>7, <2>8, <3>4 DEF Follows
  <2> QED
    BY <2>10, <2>11
<1> QED
  BY <1>1, TypeCorrect, PTL DEF Spec

-----------------------------------------------------------------------------
(* The master.  While its slave is heard, an item that is missing from the *)
(* bits did not come since the deadline was set.                           *)

SwitchStays == can_addr # 0 => UNCHANGED can_addr

MissingIsSilent ==
  /\ mode = "UNDEFINED" <=> can_addr = 0
  /\ mode # "SLAVE" /\ ~timed_out =>
       \A i \in Items \ valid_bits : slave_left >= SlaveTimeout - item_age[i]
  /\ mode # "SLAVE" /\ timed_out => slave_left < 0

LEMMA MissingStep ==
  ASSUME TypeOK, MissingIsSilent, [Next]_vars, SwitchStays
  PROVE  MissingIsSilent'
<1>1. SlaveTimeout \in Nat \ {0} /\ Addrs \subseteq 0 .. 15
  BY FbAssumption
<1>2. /\ slave_left \in -1 .. SlaveTimeout /\ item_age \in [Items -> 0 .. SlaveTimeout + 1]
      /\ valid_bits \subseteq Items /\ can_addr \in 0 .. 15 /\ mode \in Modes
  BY DEF TypeOK
<1>3. CASE CanClock
  <2>1. UNCHANGED <<mode, can_addr, item_age>>
    BY <1>3 DEF CanClock, role, slave, SlaveClock, MasterClock
  <2>2. CASE mode = "SLAVE"
    BY <2>1, <2>2 DEF MissingIsSilent
  <2>3. CASE mode = "UNDEFINED"
    <3>1. UNCHANGED <<timed_out, slave>>
      BY <1>3, <2>3 DEF CanClock
    <3> QED
      BY <2>1, <3>1 DEF MissingIsSilent, slave
  <2>4. CASE mode = "MASTER"
    <3>1. MasterClock
      BY <1>3, <2>4 DEF CanClock
    <3>2. CASE valid_bits = Items
      <4>1. slave_left' = SlaveTimeout /\ ~timed_out'
        BY <3>1, <3>2 DEF MasterClock
      <4>2. \A i \in Items : item_age'[i] \in Nat
        BY <1>2, <2>1
      <4>3. \A i \in Items : slave_left' >= SlaveTimeout - item_age'[i]
        BY <1>1, <4>1, <4>2
      <4> QED
        BY <2>1, <4>1, <4>3 DEF MissingIsSilent
    <3>3. CASE valid_bits # Items /\ slave_left < 0
      <4>1. timed_out' /\ slave_left' = slave_left
        BY <3>1, <3>3 DEF MasterClock, Expired
      <4> QED
        BY <2>1, <3>3, <4>1 DEF MissingIsSilent
    <3>4. CASE valid_bits # Items /\ ~(slave_left < 0)
      <4>1. UNCHANGED <<valid_bits, slave_left>> /\ ~timed_out'
        BY <3>1, <3>4 DEF MasterClock, Expired
      <4> QED
        BY <2>1, <2>4, <3>4, <4>1 DEF MissingIsSilent
    <3> QED
      BY <3>2, <3>3, <3>4
  <2> QED
    BY <1>2, <2>2, <2>3, <2>4 DEF Modes
<1>4. CASE UpdateState
  <2>1. UNCHANGED <<timed_out, valid_bits, slave_left, item_age>>
    BY <1>4 DEF UpdateState, slave
  <2>2. CASE can_addr = 0
    <3>1. mode = "UNDEFINED"
      BY <2>2 DEF MissingIsSilent
    <3>2. mode' = "UNDEFINED" <=> can_addr' = 0
      BY <1>4, <2>2, <3>1 DEF UpdateState, CheckMode, role
    <3> QED
      BY <2>1, <3>1, <3>2 DEF MissingIsSilent
  <2>3. CASE can_addr # 0
    <3>1. UNCHANGED can_addr
      BY <2>3 DEF SwitchStays
    <3>2. UNCHANGED mode
      BY <1>4, <3>1 DEF UpdateState, CheckMode, role
    <3> QED
      BY <2>1, <3>1, <3>2 DEF MissingIsSilent
  <2> QED
    BY <2>2, <2>3
<1>5. CASE Tick
  <2>1. UNCHANGED <<mode, can_addr, timed_out, valid_bits>>
    BY <1>5 DEF Tick, role
  <2>2. slave_left' = CountDown(slave_left)
        /\ item_age' = [i \in Items |-> CountUp(item_age[i], SlaveTimeout)]
    BY <1>5 DEF Tick
  <2>3. \A i \in Items : slave_left >= SlaveTimeout - item_age[i]
          => slave_left' >= SlaveTimeout - item_age'[i]
    <3> TAKE i \in Items
    <3>1. item_age[i] \in 0 .. SlaveTimeout + 1
      BY <1>2
    <3>2. item_age'[i] = IF item_age[i] > SlaveTimeout THEN item_age[i] ELSE item_age[i] + 1
      BY <2>2 DEF CountUp
    <3>3. slave_left' = IF slave_left < 0 THEN -1 ELSE slave_left - 1
      BY <2>2 DEF CountDown
    <3> QED
      BY <1>1, <1>2, <3>1, <3>2, <3>3
  <2>4. slave_left < 0 => slave_left' < 0
    BY <1>2, <2>2 DEF CountDown
  <2> QED
    BY <2>1, <2>3, <2>4 DEF MissingIsSilent
<1>6. CASE \E i \in Items : WriteItem(i)
  <2>1. PICK j \in Items : WriteItem(j)
    BY <1>6
  <2>2. /\ UNCHANGED <<mode, can_addr, timed_out, slave_left>>
        /\ valid_bits' = valid_bits \cup {j} /\ item_age' = [item_age EXCEPT ![j] = 0]
    BY <2>1 DEF WriteItem, role
  <2>3. \A i \in Items \ valid_bits' : i \notin valid_bits /\ item_age'[i] = item_age[i]
    BY <1>2, <2>2
  <2> QED
    BY <2>2, <2>3 DEF MissingIsSilent
<1>7. CASE UNCHANGED <<mode, can_addr, timed_out, slave>>
  BY <1>7 DEF MissingIsSilent, slave
<1>8. CanClock \/ UpdateState \/ Tick \/ (\E i \in Items : WriteItem(i))
        \/ UNCHANGED <<mode, can_addr, timed_out, slave>>
  BY DEF Next, Loop, ReinitDone, UpdateControl, WriteDemand, Console, vars, role
<1> QED
  BY <1>3, <1>4, <1>5, <1>6, <1>7, <1>8

(* For every timeout and every order in which the items come, a master     *)
(* whose address switch stays where it is reconfigures its slave only      *)
(* after one of the four items was really silent.                          *)
THEOREM ReconfiguresRightly == Spec /\ [][SwitchStays]_vars => ReconfiguresOnlyOnSilence
<1>1. Init => MissingIsSilent
  <2> SUFFICES ASSUME Init PROVE MissingIsSilent
    OBVIOUS
  <2>1. SlaveTimeout \in Nat \ {0}
    BY FbAssumption
  <2>2. /\ mode = "UNDEFINED" /\ can_addr = 0 /\ timed_out = FALSE /\ slave_left = -1
        /\ \A i \in Items : item_age[i] = SlaveTimeout + 1
    BY DEF Init
  <2> QED
    BY <2>1, <2>2 DEF MissingIsSilent
<1>2. TypeOK /\ MissingIsSilent /\ [Next]_vars /\ [SwitchStays]_vars => MissingIsSilent'
  <2>1. UNCHANGED vars => SwitchStays
    BY DEF vars, role, SwitchStays
  <2> QED
    BY <2>1, MissingStep
<1>3. TypeOK /\ MissingIsSilent /\ [Next]_vars =>
        [pc = "can" /\ pc' = "reinit" /\ ~timed_out
           => \E i \in Items : item_age[i] > SlaveTimeout]_vars
  <2> SUFFICES ASSUME TypeOK, MissingIsSilent, [Next]_vars, pc = "can", pc' = "reinit", ~timed_out
               PROVE  \E i \in Items : item_age[i] > SlaveTimeout
    BY Zenon
  <2>1. CanClock
    <3>1. ~ReinitDone /\ ~UpdateState /\ ~UpdateControl /\ ~Tick
      BY DEF ReinitDone, UpdateState, UpdateControl, Tick
    <3>2. ~(\E a \in Axes, v \in Demands : WriteDemand(a, v))
      BY DEF WriteDemand
    <3>3. ~(\E i \in Items : WriteItem(i)) /\ ~(\E cmd \in Commands : Console(cmd))
      BY DEF WriteItem, Console
    <3>4. ~ UNCHANGED vars
      BY DEF vars
    <3> QED
      BY <3>1, <3>2, <3>3, <3>4 DEF Next, Loop
  <2>2. mode = "MASTER" /\ timed_out'
    BY <2>1 DEF CanClock
  <2>3. MasterClock
    BY <2>1, <2>2 DEF CanClock
  <2>4. valid_bits # Items /\ slave_left < 0
    BY <2>2, <2>3 DEF MasterClock, Expired
  <2>5. PICK i \in Items : i \notin valid_bits
    BY <2>4 DEF TypeOK
  <2>6. slave_left >= SlaveTimeout - item_age[i]
    BY <2>2, <2>5 DEF MissingIsSilent
  <2>7. SlaveTimeout \in Nat /\ slave_left \in Int /\ item_age[i] \in Int
    BY FbAssumption DEF TypeOK
  <2>8. item_age[i] > SlaveTimeout
    BY <2>4, <2>6, <2>7
  <2> QED
    BY <2>8
<1> QED
  BY <1>1, <1>2, <1>3, TypeCorrect, PTL DEF Spec, ReconfiguresOnlyOnSilence
=============================================================================
