-------------------------- MODULE TimestampProofs ---------------------------
(***************************************************************************)
(* Theorems about module Timestamp, for every load of the counter, word    *)
(* width, number of microseconds in a second, and delay.                   *)
(***************************************************************************)
EXTENDS Timestamp, TLAPS

(* A whole tick more is Load more.                                         *)
LEMMA TickAdds ==
  ASSUME NEW t \in Nat
  PROVE  /\ t * Load \in Nat
         /\ (t + 1) * Load = t * Load + Load
BY TimestampAssumption

LEMMA TimeIsNatural ==
  ASSUME ClockTypeOK
  PROVE  Time \in Nat /\ Reading \in Nat
<1>1. (sys_ticks + pending) * Load \in Nat /\ rd.ticks * Load \in Nat
  BY TickAdds DEF ClockTypeOK
<1> QED
  BY <1>1, TimestampAssumption DEF ClockTypeOK, Time, Reading

(* Seconds and microseconds stay what they are.                            *)
LEMMA StampTyped ==
  ASSUME NEW us \in Nat
  PROVE  Stamp(us) \in [sec : Nat, usec : 0 .. Million - 1]
BY TimestampAssumption DEF Stamp

LEMMA AddTyped ==
  ASSUME NEW a \in [sec : Nat, usec : 0 .. Million - 1],
         NEW b \in [sec : Nat, usec : 0 .. Million - 1]
  PROVE  Add(a, b) \in [sec : Nat, usec : 0 .. Million - 1]
<1>1. (a.usec + b.usec) \div Million \in Nat /\ (a.usec + b.usec) % Million \in 0 .. Million - 1
  BY TimestampAssumption
<1> QED
  BY <1>1 DEF Add

(* Types and ranges of the clock hold whatever the interrupt's delay.      *)
THEOREM ClockTypeCorrect == ClockSpec => []ClockTypeOK
<1>1. ClockInit => ClockTypeOK
  <2>1. Stamp(0) \in [sec : Nat, usec : 0 .. Million - 1]
    BY StampTyped
  <2> QED
    BY <2>1, TimestampAssumption DEF ClockInit, ClockTypeOK, Idle
<1>2. ClockTypeOK /\ [ClockNext]_clockVars => ClockTypeOK'
  <2> SUFFICES ASSUME ClockTypeOK, [ClockNext]_clockVars
               PROVE  ClockTypeOK'
    OBVIOUS
  <2> USE TimestampAssumption DEF ClockTypeOK
  <2>1. CASE Cycle
    BY <2>1 DEF Cycle
  <2>2. CASE TickHook
    BY <2>2 DEF TickHook
  <2>3. CASE \E call \in {"set", "ask"} : Read(call)
    BY <2>3, TimeIsNatural DEF Read, counter
  <2>4. CASE ReadTicks
    BY <2>4 DEF ReadTicks, counter
  <2>5. CASE ReadCycles
    <3>1. Load - val \in 0 .. Load
      OBVIOUS
    <3> QED
      BY <2>5, <3>1 DEF ReadCycles, counter
  <2>6. CASE Nop
    BY <2>6 DEF Nop, counter
  <2>7. CASE Retry
    <3>1. rd' = [pc |-> "ticks", ticks |-> 0, cycles |-> 0, call |-> rd.call]
      BY <2>7 DEF Retry, Idle
    <3> QED
      BY <2>7, <3>1 DEF Retry, counter
  <2>8. ASSUME NEW us \in Delays, SetDeadline(us)
        PROVE  ClockTypeOK'
    <3>1. deadline' \in [sec : Nat, usec : 0 .. Million - 1]
      BY <2>8, TimeIsNatural, StampTyped, AddTyped DEF SetDeadline, AddUs
    <3> QED
      BY <2>8, <3>1, TimeIsNatural DEF SetDeadline, Done, Idle, counter
  <2>9. CASE AskExpired
    BY <2>9 DEF AskExpired, Done, Idle, counter
  <2>10. CASE UNCHANGED clockVars
    BY <2>10 DEF clockVars, counter
  <2> QED
    BY <2>1, <2>2, <2>3, <2>4, <2>5, <2>6, <2>7, <2>8, <2>9, <2>10 DEF ClockNext
<1> QED
  BY <1>1, <1>2, PTL DEF ClockSpec

-----------------------------------------------------------------------------
(* The lock-free read.                                                     *)

(* A reading that is about to be compared, or that will be if no tick comes *)
(* in between, is a time during its call.                                  *)
ReadInv ==
  /\ rd.pc # "idle" => begun <= Time
  /\ rd.pc \in {"cycles", "nop", "check"} => rd.ticks <= sys_ticks
  /\ rd.pc = "nop" /\ rd.ticks = sys_ticks /\ pending = 0 => begun <= Reading /\ Reading <= Time
  /\ ReadIsCurrent

(* Time stands still for the hook and when the counter starts again, and   *)
(* moves by one otherwise.                                                 *)
LEMMA TimeMoves ==
  ASSUME ClockTypeOK
  PROVE  /\ Cycle => Time' \in Nat /\ Time <= Time'
         /\ TickHook => Time' = Time
<1>1. /\ (sys_ticks + 1) * Load = sys_ticks * Load + Load /\ sys_ticks * Load \in Nat
      /\ (sys_ticks + 0) * Load = sys_ticks * Load
  BY TickAdds DEF ClockTypeOK
<1>2. Cycle => Time' \in Nat /\ Time <= Time'
  <2>1. CASE val = 0 /\ Cycle
    <3>1. pending = 0 /\ pending' = 1 /\ val' = Load /\ sys_ticks' = sys_ticks
      BY <2>1 DEF Cycle
    <3>2. Time = sys_ticks * Load + Load /\ Time' = sys_ticks * Load + Load
      BY <1>1, <2>1, <3>1, TimestampAssumption DEF Time
    <3> QED
      BY <1>1, <3>2, TimestampAssumption
  <2>2. CASE val # 0 /\ Cycle
    <3>1. pending' = pending /\ val' = val - 1 /\ sys_ticks' = sys_ticks
      BY <2>2 DEF Cycle
    <3>2. (sys_ticks + pending) * Load \in Nat
      BY TickAdds DEF ClockTypeOK
    <3> QED
      BY <2>2, <3>1, <3>2, TimestampAssumption DEF Time, ClockTypeOK
  <2> QED
    BY <2>1, <2>2
<1>3. TickHook => Time' = Time
  BY <1>1 DEF TickHook, Time, ClockTypeOK
<1> QED
  BY <1>2, <1>3

LEMMA ReadInvariance ==
  ASSUME ClockTypeOK, ReadInv, [ClockNext]_clockVars, ClockTypeOK'
  PROVE  ReadInv'
<1> USE DEF ReadInv, ReadIsCurrent
<1>1. CASE Cycle
  <2>1. UNCHANGED <<sys_ticks, rd, begun>> /\ Reading' = Reading /\ (pending' = 0 => pending = 0)
    BY <1>1 DEF Cycle, Reading, ClockTypeOK
  <2> QED
    BY <1>1, <2>1, TimeMoves, TimeIsNatural DEF ClockTypeOK
<1>2. CASE TickHook
  <2>1. sys_ticks' = sys_ticks + 1 /\ UNCHANGED <<rd, begun>>
    BY <1>2 DEF TickHook
  <2> QED
    BY <1>2, <2>1, TimeMoves, TimeIsNatural DEF ClockTypeOK
<1>3. CASE \E call \in {"set", "ask"} : Read(call)
  <2>1. rd'.pc = "ticks" /\ begun' = Time /\ Time' = Time
    BY <1>3 DEF Read, counter, Time, ClockTypeOK
  <2> QED
    BY <2>1, TimeIsNatural
<1>4. CASE ReadTicks
  <2>1. rd'.pc = "cycles" /\ rd'.ticks = sys_ticks /\ begun' = begun /\ Time' = Time /\ sys_ticks' = sys_ticks
    BY <1>4 DEF ReadTicks, counter, Time, ClockTypeOK
  <2> QED
    BY <1>4, <2>1 DEF ReadTicks, ClockTypeOK
<1>5. CASE ReadCycles
  <2>1. /\ rd'.pc = "nop" /\ rd'.ticks = rd.ticks /\ rd'.cycles = Load - val
        /\ UNCHANGED <<begun, sys_ticks, pending, Time>>
    BY <1>5 DEF ReadCycles, counter, Time, ClockTypeOK
  <2>2. rd'.ticks = sys_ticks /\ pending = 0 => Reading' = Time
    BY <2>1 DEF Reading, Time, ClockTypeOK
  <2> QED
    BY <1>5, <2>1, <2>2, TimeIsNatural DEF ReadCycles, ClockTypeOK
<1>6. CASE Nop
  <2>1. /\ rd'.pc = "check" /\ rd'.ticks = rd.ticks /\ rd'.cycles = rd.cycles
        /\ UNCHANGED <<begun, sys_ticks, Time>>
    BY <1>6 DEF Nop, counter, Time, ClockTypeOK
  <2> QED
    BY <1>6, <2>1 DEF Nop, Reading
<1>7. CASE Retry
  <2>1. rd'.pc = "ticks" /\ UNCHANGED <<begun, Time>>
    BY <1>7 DEF Retry, Idle, counter, Time, ClockTypeOK
  <2> QED
    BY <1>7, <2>1 DEF Retry
<1>8. CASE (\E us \in Delays : SetDeadline(us)) \/ AskExpired
  <2>1. rd'.pc = "idle"
    BY <1>8 DEF SetDeadline, AskExpired, Done, Idle
  <2> QED
    BY <2>1
<1>9. CASE UNCHANGED clockVars
  BY <1>9 DEF clockVars, counter, Time, Reading
<1> QED
  BY <1>1, <1>2, <1>3, <1>4, <1>5, <1>6, <1>7, <1>8, <1>9 DEF ClockNext

LEMMA InitialRead == ClockInit => ReadInv
BY DEF ClockInit, Idle, ReadInv, ReadIsCurrent

(* timestamp() returns a time during its call, whatever its interrupts do. *)
THEOREM ReadsAreTimely == ClockSpec => []ReadIsCurrent
<1>1. ClockTypeOK /\ ClockTypeOK' /\ ReadInv /\ [ClockNext]_clockVars => ReadInv'
  BY ReadInvariance
<1>2. ReadInv => ReadIsCurrent
  BY DEF ReadInv
<1> QED
  BY <1>1, <1>2, InitialRead, ClockTypeCorrect, PTL DEF ClockSpec

-----------------------------------------------------------------------------
(* Deadlines.                                                              *)

(* The microseconds of a time stamp, without a width.                      *)
Total(t) == t.sec * Million + t.usec

(* Quotient and remainder, by names that the provers can calculate with.   *)
LEMMA DivMod ==
  ASSUME NEW x \in Nat, NEW m \in Nat \ {0}
  PROVE  \E q \in Nat, r \in 0 .. m - 1 : q = x \div m /\ r = x % m /\ x = q * m + r
<1>1. x \div m \in Int /\ x % m \in 0 .. m - 1
  OBVIOUS
<1>2. PICK q \in Int : q = x \div m
  BY <1>1
<1>3. PICK r \in 0 .. m - 1 : r = x % m
  BY <1>1
<1>4. x = q * m + r
  BY <1>2, <1>3
<1>5. q >= 0
  BY <1>2
<1>6. q \in Nat
  BY <1>5
<1> QED
  BY <1>2, <1>3, <1>4, <1>6, Zenon

LEMMA StampTotal ==
  ASSUME NEW us \in Nat
  PROVE  Total(Stamp(us)) = us
<1>1. PICK q \in Nat, r \in 0 .. Million - 1 : q = us \div Million /\ r = us % Million /\ us = q * Million + r
  BY DivMod, TimestampAssumption
<1>2. Stamp(us) = [sec |-> q, usec |-> r]
  BY <1>1, Zenon DEF Stamp
<1> QED
  BY <1>1, <1>2 DEF Total

(* The carry loses nothing.                                                *)
LEMMA AddTotal ==
  ASSUME NEW a \in [sec : Nat, usec : 0 .. Million - 1],
         NEW b \in [sec : Nat, usec : 0 .. Million - 1]
  PROVE  Total(Add(a, b)) = Total(a) + Total(b)
<1>1. a.usec + b.usec \in Nat /\ Million \in Nat \ {0} /\ a.sec \in Nat /\ b.sec \in Nat
  BY TimestampAssumption
<1>2. PICK q \in Nat, r \in 0 .. Million - 1 :
        q = (a.usec + b.usec) \div Million /\ r = (a.usec + b.usec) % Million /\ a.usec + b.usec = q * Million + r
  BY <1>1, DivMod
<1>3. Add(a, b) = [sec |-> a.sec + b.sec + q, usec |-> r]
  BY <1>2, Zenon DEF Add
<1>4. PICK x \in Nat, y \in Nat : x = a.sec /\ y = b.sec
  BY <1>1
<1>5. /\ (x + y + q) * Million = x * Million + y * Million + q * Million
      /\ x * Million \in Nat /\ y * Million \in Nat /\ q * Million \in Nat
  BY <1>1
<1>6. Total(Add(a, b)) = (x + y + q) * Million + r
  BY <1>3, <1>4 DEF Total
<1>7. Total(a) = x * Million + a.usec /\ Total(b) = y * Million + b.usec
  BY <1>4 DEF Total
<1>8. a.usec \in Nat /\ b.usec \in Nat
  OBVIOUS
<1>9. Total(Add(a, b)) = x * Million + y * Million + (a.usec + b.usec)
  BY <1>1, <1>2, <1>5, <1>6, <1>8
<1> QED
  BY <1>5, <1>7, <1>8, <1>9

(* Between two times of an epoch there is no other epoch.                  *)
LEMMA EpochMonotone ==
  ASSUME NEW y \in Nat, NEW z \in Nat, y <= z
  PROVE  Epoch(y) \in Nat /\ Epoch(z) \in Nat /\ Epoch(y) <= Epoch(z)
<1>1. Word \in Nat \ {0}
  BY TimestampAssumption
<1>2. PICK p \in Nat, s \in 0 .. Word - 1 : p = y \div Word /\ s = y % Word /\ y = p * Word + s
  BY <1>1, DivMod
<1>3. PICK q \in Nat, r \in 0 .. Word - 1 : q = z \div Word /\ r = z % Word /\ z = q * Word + r
  BY <1>1, DivMod
<1>4. p <= q
  <2>1. SUFFICES ASSUME q + 1 <= p
                 PROVE  FALSE
    OBVIOUS
  <2>2. (q + 1) * Word <= p * Word
    BY <1>1, <2>1
  <2>3. (q + 1) * Word = q * Word + Word /\ q * Word \in Nat /\ p * Word \in Nat
    BY <1>1
  <2> QED
    BY <1>1, <1>2, <1>3, <2>2, <2>3
<1>5. Epoch(y) = p /\ Epoch(z) = q
  BY <1>2, <1>3, Zenon DEF Epoch
<1> QED
  BY <1>4, <1>5

LEMMA EpochBetween ==
  ASSUME NEW a \in Nat, NEW x \in Nat, NEW b \in Nat, a <= x, x <= b, Epoch(a) = Epoch(b)
  PROVE  Epoch(x) = Epoch(a)
<1>1. Epoch(a) \in Nat /\ Epoch(x) \in Nat /\ Epoch(a) <= Epoch(x)
  BY EpochMonotone
<1>2. Epoch(b) \in Nat /\ Epoch(x) <= Epoch(b)
  BY EpochMonotone
<1> QED
  BY <1>1, <1>2

(* In one epoch the 32 bits compare as the times do.                       *)
LEMMA EpochOrder ==
  ASSUME NEW a \in Nat, NEW b \in Nat, Epoch(a) = Epoch(b)
  PROVE  a % Word < b % Word <=> a < b
<1>1. PICK p \in Nat, s \in 0 .. Word - 1 : p = a \div Word /\ s = a % Word /\ a = p * Word + s
  BY DivMod, TimestampAssumption
<1>2. PICK q \in Nat, r \in 0 .. Word - 1 : q = b \div Word /\ r = b % Word /\ b = q * Word + r
  BY DivMod, TimestampAssumption
<1>3. p = q
  BY <1>1, <1>2, Zenon DEF Epoch
<1>4. s < r <=> a < b
  <2>1. p * Word \in Nat
    BY TimestampAssumption
  <2> QED
    BY <1>1, <1>2, <1>3, <2>1, TimestampAssumption
<1> QED
  BY <1>1, <1>2, <1>4, Zenon

(* The deadline is the time of its call and the delay, and is asked for    *)
(* after it was set.                                                       *)
DeadlineInv ==
  /\ set.from <= set.to /\ set.to <= Time
  /\ rd.pc # "idle" => set.to <= begun
  /\ set.from + due <= Total(deadline) /\ Total(deadline) <= set.to + due

LEMMA DeadlineInvariance ==
  ASSUME ClockTypeOK, ReadInv, DeadlineInv, [ClockNext]_clockVars, ClockTypeOK'
  PROVE  DeadlineInv'
<1> USE DEF DeadlineInv
<1>1. CASE Cycle \/ TickHook
  <2>1. UNCHANGED <<rd, begun, set, due, Total(deadline)>>
    BY <1>1 DEF Cycle, TickHook, Total
  <2>2. Time <= Time' /\ Time \in Nat /\ Time' \in Nat
    BY <1>1, TimeMoves, TimeIsNatural
  <2> QED
    BY <2>1, <2>2 DEF ClockTypeOK
<1>2. CASE \E call \in {"set", "ask"} : Read(call)
  <2>1. begun' = Time /\ UNCHANGED <<Time, set, due, Total(deadline)>>
    BY <1>2 DEF Read, counter, Time, Total
  <2> QED
    BY <2>1
<1>3. CASE ReadTicks \/ ReadCycles \/ Nop \/ Retry
  <2>1. rd.pc # "idle" /\ UNCHANGED <<begun, Time, set, due, Total(deadline)>>
    BY <1>3 DEF ReadTicks, ReadCycles, Nop, Retry, counter, Time, Total
  <2> QED
    BY <2>1
<1>4. ASSUME NEW us \in Delays, SetDeadline(us)
      PROVE  DeadlineInv'
  <2>1. begun <= Reading /\ Reading <= Time /\ begun \in Nat /\ Reading \in Nat /\ Time \in Nat /\ us \in Nat
    BY <1>4, TimeIsNatural, TimestampAssumption DEF SetDeadline, Done, ReadInv, ReadIsCurrent, ClockTypeOK
  <2>2. /\ rd'.pc = "idle" /\ UNCHANGED Time /\ due' = us
        /\ set' = [from |-> begun, to |-> Time] /\ deadline' = AddUs(Stamp(Reading), us)
    BY <1>4 DEF SetDeadline, Done, Idle, counter, Time
  <2>3. Total(AddUs(Stamp(Reading), us)) = Reading + us
    BY <2>1, StampTyped, StampTotal, AddTotal DEF AddUs
  <2> QED
    BY <2>1, <2>2, <2>3 DEF Total
<1>5. CASE AskExpired
  BY <1>5 DEF AskExpired, Done, Idle, counter, Time, Total
<1>6. CASE UNCHANGED clockVars
  BY <1>6 DEF clockVars, counter, Time, Total
<1> QED
  BY <1>1, <1>2, <1>3, <1>4, <1>5, <1>6 DEF ClockNext

LEMMA InitialDeadline == ClockInit => DeadlineInv
<1> SUFFICES ASSUME ClockInit
             PROVE  DeadlineInv
  OBVIOUS
<1>1. Time = 0
  BY TimestampAssumption DEF ClockInit, Time
<1>2. Total(deadline) = 0
  BY StampTotal DEF ClockInit
<1> QED
  BY <1>1, <1>2 DEF ClockInit, Idle, DeadlineInv

(* The answer follows from the order of two totals in one epoch.           *)
LEMMA AnswerInEpoch ==
  ASSUME ClockTypeOK, ReadInv, DeadlineInv
  PROVE  ExpiryIsRight
<1> SUFFICES ASSUME SameEpoch, rd.pc = "check", rd.ticks = sys_ticks
             PROVE  IF ExpiredAt(Stamp(Reading), deadline) THEN Time > set.from + due
                                                           ELSE begun <= set.to + due
  BY DEF ExpiryIsRight, AnswerIsRight
<1> DEFINE d == Total(deadline)
<1>1. /\ begun \in Nat /\ Time \in Nat /\ Reading \in Nat /\ due \in Nat
      /\ set.from \in Nat /\ set.to \in Nat
  BY TimeIsNatural DEF ClockTypeOK
<1>2. d \in Nat
  <2>1. deadline.sec \in Nat /\ deadline.usec \in Nat /\ Million \in Nat
    BY TimestampAssumption DEF ClockTypeOK
  <2> QED
    BY <2>1 DEF Total
<1>3. begun <= Reading /\ Reading <= Time /\ set.from <= Reading
  BY <1>1 DEF ReadInv, ReadIsCurrent, DeadlineInv
<1>4. set.from + due <= d /\ d <= set.to + due /\ set.from <= d
  BY <1>1, <1>2 DEF DeadlineInv
<1>5. Epoch(Reading) = Epoch(set.from)
  BY <1>1, <1>3, EpochBetween DEF SameEpoch
<1>6. Epoch(d) = Epoch(set.from)
  <2>1. set.to + due \in Nat /\ Epoch(set.from) = Epoch(set.to + due)
    BY <1>1 DEF SameEpoch
  <2> HIDE DEF d
  <2> QED
    BY <1>1, <1>2, <1>4, <2>1, EpochBetween
<1>7. ExpiredAt(Stamp(Reading), deadline) <=> d % Word < Reading % Word
  BY <1>1, StampTotal DEF ExpiredAt, Before, Micros, Total
<1>8. d % Word < Reading % Word <=> d < Reading
  <2> HIDE DEF d
  <2> QED
    BY <1>1, <1>2, <1>5, <1>6, EpochOrder
<1> HIDE DEF d
<1> QED
  BY <1>1, <1>2, <1>3, <1>4, <1>7, <1>8

(* timestamp_expired is right about a deadline of its own 71 minutes.      *)
THEOREM ExpiryInEpoch == ClockSpec => []ExpiryIsRight
<1>1. ClockTypeOK /\ ClockTypeOK' /\ ReadInv /\ DeadlineInv /\ [ClockNext]_clockVars
        => ReadInv' /\ DeadlineInv'
  BY ReadInvariance, DeadlineInvariance
<1>2. ClockTypeOK /\ ReadInv /\ DeadlineInv => ExpiryIsRight
  BY AnswerInEpoch
<1> QED
  BY <1>1, <1>2, InitialRead, InitialDeadline, ClockTypeCorrect, PTL DEF ClockSpec
=============================================================================
