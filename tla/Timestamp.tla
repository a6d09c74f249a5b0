----------------------------- MODULE Timestamp -----------------------------
(***************************************************************************)
(* Time as the firmware reads and compares it                              *)
(* (src/src/system/stm32f4xx/timestamp.c, src/src/system/timestamp.c).     *)
(*                                                                         *)
(* The SysTick counter runs down from Load to 0 and starts again; the      *)
(* interrupt that it raises then, and that increments _sys_ticks, is       *)
(* delivered a little later.  timestamp() reads both without a lock and    *)
(* repeats itself when _sys_ticks has moved.  A thread sets a deadline     *)
(* with timestamp_from_now_us and asks for it with timestamp_expired, as   *)
(* the link monitor does.  The processor makes one cycle per microsecond.  *)
(***************************************************************************)
EXTENDS Integers

CONSTANTS
  Load,     \* SysTick->LOAD
  Million,  \* MILLION, the microseconds in a second
  Word,     \* what an unsigned of 32 bits wraps at
  Delays,   \* how far ahead deadlines are set, in microseconds
  Horizon   \* bound on the ticks; _sys_ticks itself wraps after 49 days

ASSUME TimestampAssumption ==
  /\ Load \in Nat \ {0}
  /\ Million \in Nat \ {0}
  /\ Word \in Nat \ {0}
  /\ Delays \subseteq Nat
  /\ Horizon \in Nat

VARIABLES
  val,        \* SysTick->VAL
  pending,    \* 1 while the SysTick interrupt is raised and not yet delivered
  sys_ticks,  \* _sys_ticks
  rd,         \* the call of timestamp(): where it is, what it has read, whether its
              \* caller sets a deadline or asks for it
  begun,      \* history: the time when that call began
  deadline,   \* the deadline
  due,        \* how far ahead it was set
  set         \* history: the time between which and which it was set

counter == <<val, pending, sys_ticks>>
clockVars == <<counter, rd, begun, deadline, due, set>>

(* The time that a reading at this moment should give, in microseconds.    *)
Time == (sys_ticks + pending) * Load + (Load - val)

-----------------------------------------------------------------------------
(* The arithmetic.                                                         *)

Stamp(us) == [sec |-> us \div Million, usec |-> us % Million]

(* Mutant: the microseconds are not carried over.                          *)
AddNoCarry(a, b) == [sec |-> a.sec + b.sec, usec |-> a.usec + b.usec]

Add(a, b) ==
  LET usec == a.usec + b.usec
  IN  [sec |-> a.sec + b.sec + usec \div Million, usec |-> usec % Million]

AddUs(a, us) == Add(a, Stamp(us))

(* timestamp_sub multiplies the seconds in 32 bits and widens the sum only  *)
(* after that; from there on the difference is exact.                      *)
Micros(t) == (t.sec * Million + t.usec) % Word

(* Mutant: equal times count as before.                                    *)
BeforeOrEqual(a, b) == Micros(a) <= Micros(b)

Before(a, b) == Micros(a) < Micros(b)

(* timestamp_expired(a), at the time now.                                  *)
ExpiredAt(now, a) == Before(a, now)

-----------------------------------------------------------------------------
Idle == [pc |-> "idle", ticks |-> 0, cycles |-> 0, call |-> "set"]

ClockInit ==
  /\ val = Load /\ pending = 0 /\ sys_ticks = 0
  /\ rd = Idle /\ begun = 0
  /\ deadline = Stamp(0) /\ due = 0 /\ set = [from |-> 0, to |-> 0]

(* The counter.  Interrupts are never held off for a whole tick.           *)
Cycle ==
  /\ IF val = 0 THEN val' = Load /\ pending = 0 /\ pending' = 1
                ELSE val' = val - 1 /\ UNCHANGED pending
  /\ sys_ticks < Horizon
  /\ UNCHANGED <<sys_ticks, rd, begun, deadline, due, set>>

(* vApplicationTickHook.                                                   *)
TickHook ==
  /\ pending = 1 /\ pending' = 0
  /\ sys_ticks' = sys_ticks + 1
  /\ UNCHANGED <<val, rd, begun, deadline, due, set>>

(* A thread calls timestamp(), to set a deadline or to ask for it.         *)
Read(call) ==
  /\ rd.pc = "idle"
  /\ rd' = [rd EXCEPT !.pc = "ticks", !.call = call]
  /\ begun' = Time
  /\ UNCHANGED <<counter, deadline, due, set>>

(* _get_ticks, one access at a time.                                       *)
ReadTicks ==
  /\ rd.pc = "ticks"
  /\ rd' = [rd EXCEPT !.pc = "cycles", !.ticks = sys_ticks]
  /\ UNCHANGED <<counter, begun, deadline, due, set>>

ReadCycles ==
  /\ rd.pc = "cycles"
  /\ rd' = [rd EXCEPT !.pc = "nop", !.cycles = Load - val]
  /\ UNCHANGED <<counter, begun, deadline, due, set>>

(* Mutant: no instruction for the interrupt to be delivered in.            *)
NopMissing ==
  /\ rd.pc = "nop"
  /\ rd' = [rd EXCEPT !.pc = "check"]
  /\ UNCHANGED <<counter, begun, deadline, due, set>>

(* The nop that gives an interrupt raised by then the time to be delivered. *)
Nop ==
  /\ rd.pc = "nop" /\ pending = 0
  /\ rd' = [rd EXCEPT !.pc = "check"]
  /\ UNCHANGED <<counter, begun, deadline, due, set>>

Retry ==
  /\ rd.pc = "check" /\ rd.ticks # sys_ticks
  /\ rd' = [Idle EXCEPT !.pc = "ticks", !.call = rd.call]
  /\ UNCHANGED <<counter, begun, deadline, due, set>>

Reading == rd.ticks * Load + rd.cycles

Done == rd.pc = "check" /\ rd.ticks = sys_ticks /\ rd' = Idle /\ begun' = 0

SetDeadline(us) ==
  /\ Done /\ rd.call = "set"
  /\ deadline' = AddUs(Stamp(Reading), us) /\ due' = us
  /\ set' = [from |-> begun, to |-> Time]
  /\ UNCHANGED counter

AskExpired == Done /\ rd.call = "ask" /\ UNCHANGED <<counter, deadline, due, set>>

ClockNext ==
  \/ Cycle \/ TickHook
  \/ \E call \in {"set", "ask"} : Read(call)
  \/ ReadTicks \/ ReadCycles \/ Nop \/ Retry
  \/ \E us \in Delays : SetDeadline(us)
  \/ AskExpired

ClockSpec == ClockInit /\ [][ClockNext]_clockVars

-----------------------------------------------------------------------------
(* Properties.                                                             *)

ClockTypeOK ==
  /\ val \in 0 .. Load /\ pending \in {0, 1} /\ sys_ticks \in Nat
  /\ rd \in [pc : {"idle", "ticks", "cycles", "nop", "check"}, ticks : Nat,
             cycles : 0 .. Load, call : {"set", "ask"}]
  /\ begun \in Nat
  /\ deadline \in [sec : Nat, usec : 0 .. Million - 1]
  /\ due \in Nat
  /\ set \in [from : Nat, to : Nat]

(* What timestamp() returns is a time during its call, however the reads   *)
(* of _sys_ticks and of the counter fall between the counter's restart and *)
(* the delivery of its interrupt: time never goes back by a tick.          *)
ReadIsCurrent ==
  rd.pc = "check" /\ rd.ticks = sys_ticks => begun <= Reading /\ Reading <= Time

(* The answer of timestamp_expired: "yes" only when the deadline had       *)
(* passed at the end of the call, "no" only if not at its beginning.       *)
AnswerIsRight ==
  rd.pc = "check" /\ rd.ticks = sys_ticks /\ rd.call = "ask" =>
    IF ExpiredAt(Stamp(Reading), deadline) THEN Time > set.from + due ELSE begun <= set.to + due

(* Deadline and question fall between the same two wraps of the 32 bits.   *)
Epoch(us) == us \div Word
SameEpoch == Epoch(set.from) = Epoch(set.to + due) /\ Epoch(set.from) = Epoch(Time)

(* timestamp_expired is right about deadlines set and asked for in the     *)
(* same 71 minutes.                                                        *)
ExpiryIsRight == SameEpoch => AnswerIsRight

(* No deadline counts as missed before its time, as long as the ticks have *)
(* not overflowed: the comments at stm32f4xx/timestamp.c:8 and :68 know no *)
(* other limit, and that is 49 days away.                                  *)
NeverExpiresEarly ==
  rd.pc = "check" /\ rd.ticks = sys_ticks /\ rd.call = "ask" /\ ExpiredAt(Stamp(Reading), deadline)
    => Time > set.from + due
=============================================================================
