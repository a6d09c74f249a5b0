--------------------------- MODULE FbControlProofs ---------------------------
(***************************************************************************)
(* Theorems about module FbControl, for every length of a move, settling   *)
(* time and number of loads.                                               *)
(***************************************************************************)
EXTENDS FbControl, TLAPS

AxisStates ==
  [new_target : LoadIds, limits : LoadIds, start : BOOLEAN, moving : BOOLEAN,
   settling : BOOLEAN, settle_time : Nat, time : Nat, timebase : Nat, total : Nat,
   completed : BOOLEAN, plan : [target : LoadIds, limits : LoadIds], driven : BOOLEAN]

(* What one axis controller is at any time.                                *)
Axis(x) == x \in AxisStates /\ ~(x.moving /\ x.settling)

(* Its move was planned for the target and the limits that it has.         *)
Current(x) ==
  /\ x.new_target = x.limits
  /\ x.moving => x.plan.target = x.new_target /\ x.plan.limits = x.limits

SameLoad(x, y) == x.new_target = y.new_target /\ x.limits = y.limits

LEMMA ResetIs ==
  Axis(ResetAxis) /\ Current(ResetAxis)
BY ControlAssumption DEF Axis, AxisStates, Current, ResetAxis, LoadIds

LEMMA SetTargetIs ==
  ASSUME NEW x, Axis(x), NEW id \in LoadIds
  PROVE  /\ Axis(SetTarget(x, id)) /\ ~SetTarget(x, id).moving
         /\ SetTarget(x, id).new_target = id /\ SetTarget(x, id).limits = x.limits
BY DEF Axis, AxisStates, SetTarget

LEMMA SetLimitsIs ==
  ASSUME NEW x, Axis(x), NEW id \in LoadIds
  PROVE  /\ Axis(SetLimits(x, id)) /\ SetLimits(x, id).moving = x.moving
         /\ SetLimits(x, id).new_target = x.new_target /\ SetLimits(x, id).limits = id
BY DEF Axis, AxisStates, SetLimits

LEMMA PlanIs ==
  ASSUME NEW x, Axis(x), ~x.settling, NEW d \in Durations
  PROVE  /\ Axis(Plan(x, d)) /\ SameLoad(x, Plan(x, d))
         /\ Current(x) => Current(Plan(x, d))
<1>1. d * Scale \in Nat /\ 0 \in Nat /\ Scale \in Nat
  BY ControlAssumption
<1>2. (IF x.limits = 0 THEN 0 ELSE d * Scale) \in Nat
  BY <1>1
<1>3. PICK t \in Nat : t = IF x.limits = 0 THEN 0 ELSE d * Scale
  BY <1>2
<1>4. Plan(x, d) = [x EXCEPT !.plan = [target |-> x.new_target, limits |-> x.limits],
                             !.total = t, !.completed = FALSE, !.start = FALSE, !.moving = TRUE,
                             !.time = 0, !.timebase = Scale]
  BY <1>3, Zenon DEF Plan
<1>5. PICK p : p = [target |-> x.new_target, limits |-> x.limits]
  OBVIOUS
<1>6. p \in [target : LoadIds, limits : LoadIds] /\ p.target = x.new_target /\ p.limits = x.limits
  BY <1>5 DEF Axis, AxisStates
<1>7. Plan(x, d) = [x EXCEPT !.plan = p, !.total = t, !.completed = FALSE, !.start = FALSE,
                             !.moving = TRUE, !.time = 0, !.timebase = Scale]
  BY <1>4, <1>5, Zenon
<1>8. Axis(Plan(x, d)) /\ SameLoad(x, Plan(x, d)) /\ Plan(x, d).plan = p
  BY <1>1, <1>6, <1>7 DEF Axis, AxisStates, SameLoad
<1> QED
  BY <1>6, <1>8 DEF SameLoad, Current

LEMMA RunIs ==
  ASSUME NEW x, Axis(x), NEW e \in Nat
  PROVE  /\ Axis(Run(x, e)) /\ SameLoad(x, Run(x, e)) /\ Run(x, e).moving = x.moving
         /\ Run(x, e).plan = x.plan
<1>1. x.time + e \in Nat /\ (x.time + e >= x.total) \in BOOLEAN
  BY DEF Axis, AxisStates
<1>2. PICK t \in Nat : t = x.time + e
  BY <1>1
<1>3. PICK c \in BOOLEAN : c = (x.time + e >= x.total)
  BY <1>1
<1>4. Run(x, e) = [x EXCEPT !.time = t, !.completed = c, !.driven = TRUE]
  BY <1>2, <1>3 DEF Run, Axis, AxisStates
<1> QED
  BY <1>4 DEF Axis, AxisStates, SameLoad

LEMMA StillIs ==
  ASSUME NEW x, Axis(x)
  PROVE  /\ Axis(Still(x)) /\ SameLoad(x, Still(x)) /\ Still(x).moving = x.moving
         /\ Still(x).plan = x.plan
BY ControlAssumption DEF Axis, AxisStates, SameLoad, Still

LEMMA ArriveIs ==
  ASSUME NEW x, Axis(x), NEW a \in Axes
  PROVE  /\ Axis(Arrive(x, a)) /\ SameLoad(x, Arrive(x, a))
         /\ Arrive(x, a).plan = x.plan /\ (Arrive(x, a).moving => x.moving)
BY ControlAssumption DEF Axis, AxisStates, SameLoad, Arrive

LEMMA AdvanceIs ==
  ASSUME NEW x, Axis(x)
  PROVE  /\ Axis(Advance(x)) /\ SameLoad(x, Advance(x)) /\ Advance(x).moving = x.moving
         /\ Advance(x).plan = x.plan
<1>1. CASE x.moving
  BY <1>1, RunIs DEF Advance, Axis, AxisStates
<1>2. CASE ~x.moving /\ x.settling /\ x.settle_time > 0
  <2>1. PICK y : y = [x EXCEPT !.settle_time = @ - 1]
    OBVIOUS
  <2>2. Axis(y) /\ SameLoad(x, y) /\ y.moving = x.moving /\ y.plan = x.plan
    BY <1>2, <2>1 DEF Axis, AxisStates, SameLoad
  <2>3. Advance(x) = Run(y, Scale)
    BY <1>2, <2>1 DEF Advance
  <2> QED
    BY <2>2, <2>3, RunIs, ControlAssumption DEF SameLoad
<1>3. CASE ~x.moving /\ ~(x.settling /\ x.settle_time > 0)
  BY <1>3, StillIs DEF Advance
<1> QED
  BY <1>1, <1>2, <1>3

(* A clock keeps target and limits, and moves are planned for them.        *)
LEMMA ClockIs ==
  ASSUME NEW x, Axis(x), NEW a \in Axes, NEW d \in Durations
  PROVE  /\ Axis(Clock(x, a, d)) /\ SameLoad(x, Clock(x, a, d))
         /\ Current(x) => Current(Clock(x, a, d))
<1>1. PICK z : z = Arrive(x, a)
  OBVIOUS
<1>2. Axis(z) /\ SameLoad(x, z) /\ z.plan = x.plan /\ (z.moving => x.moving)
  BY <1>1, ArriveIs
<1>3. PICK y : y = Advance(z)
  OBVIOUS
<1>4. Axis(y) /\ SameLoad(x, y) /\ y.plan = x.plan /\ (y.moving => x.moving)
  BY <1>2, <1>3, AdvanceIs DEF SameLoad
<1>5. Current(x) => Current(y)
  BY <1>4 DEF SameLoad, Current
<1>6. Clock(x, a, d) = IF ~y.moving /\ ~y.settling /\ y.start THEN Plan(y, d) ELSE y
  BY <1>1, <1>3 DEF Clock
<1>7. CASE ~y.moving /\ ~y.settling /\ y.start
  <2>1. /\ Axis(Plan(y, d)) /\ SameLoad(y, Plan(y, d)) /\ (Current(y) => Current(Plan(y, d)))
    BY <1>4, <1>7, PlanIs
  <2> QED
    BY <1>4, <1>5, <1>6, <1>7, <2>1 DEF SameLoad
<1>8. CASE ~(~y.moving /\ ~y.settling /\ y.start)
  BY <1>4, <1>5, <1>6, <1>8
<1> QED
  BY <1>7, <1>8

-----------------------------------------------------------------------------
(* Both axes.                                                              *)

Typed(ax) == DOMAIN ax = Axes /\ ax \in [Axes -> AxisStates] /\ \A a \in Axes : Axis(ax[a])

(* Both were last loaded with the same preset, and move for it.            *)
Whole(ax) ==
  /\ \A a \in Axes : Current(ax[a])
  /\ \A a, b \in Axes : ax[a].new_target = ax[b].new_target

LEMMA QuotientIsNatural ==
  ASSUME NEW x \in Nat, NEW m \in Nat \ {0}
  PROVE  x \div m \in Nat
<1>1. x \div m \in Int /\ x % m \in 0 .. m - 1
  OBVIOUS
<1>2. PICK q \in Int : q = x \div m
  BY <1>1
<1>3. PICK r \in 0 .. m - 1 : r = x % m
  BY <1>1
<1>4. x = q * m + r
  BY <1>2, <1>3
<1>5. q >= 0
  BY <1>2
<1> QED
  BY <1>2, <1>5

LEMMA RatioIsNatural ==
  ASSUME NEW s \in Int, NEW t \in Int
  PROVE  Ratio(s, t) \in Nat
<1>1. PICK m \in Nat : m = Abs(s)
  BY DEF Abs
<1>2. PICK n \in Nat : n = Abs(t)
  BY DEF Abs
<1>3. CASE m > MinTime * Scale /\ 20 * n > m
  <2>1. n \in Nat \ {0} /\ m * Scale \in Nat
    BY <1>3, ControlAssumption
  <2>2. m * Scale + (n - 1) \in Nat
    BY <2>1
  <2>3. (m * Scale + (n - 1)) \div n \in Nat
    BY <2>1, <2>2, QuotientIsNatural
  <2> QED
    <3>1. Ratio(s, t) = IF m > MinTime * Scale /\ 20 * n > m
                        THEN (m * Scale + (n - 1)) \div n ELSE Scale
      BY <1>1, <1>2 DEF Ratio
    <3> QED
      BY <1>3, <2>3, <3>1, Zenon
<1>4. CASE ~(m > MinTime * Scale /\ 20 * n > m)
  BY <1>1, <1>2, <1>4, ControlAssumption DEF Ratio
<1> QED
  BY <1>3, <1>4

LEMMA RescaleIs ==
  ASSUME NEW ax, Typed(ax)
  PROVE  Typed(Rescale(ax)) /\ (Whole(ax) => Whole(Rescale(ax)))
<1>1. \A a \in Axes : Remaining(ax[a]) \in Int
  BY DEF Typed, Axis, AxisStates, Remaining
<1>2. PICK p \in Int, y \in Int : p = Remaining(ax["pitch"]) /\ y = Remaining(ax["yaw"])
  BY <1>1 DEF Axes
<1>3. {Remaining(ax[a]) : a \in Axes} = {p, y}
  BY <1>2 DEF Axes
<1>4. Min({p, y}) \in Int /\ Max({p, y}) \in Int
  <2>1. \E x \in {p, y} : \A z \in {p, y} : x <= z
    OBVIOUS
  <2>2. \E x \in {p, y} : \A z \in {p, y} : x >= z
    OBVIOUS
  <2>3. Min({p, y}) \in {p, y}
    BY <2>1 DEF Min
  <2>4. Max({p, y}) \in {p, y}
    BY <2>2 DEF Max
  <2> QED
    BY <2>3, <2>4
<1>5. PICK n \in Nat : n = Ratio(Min({p, y}), Max({p, y}))
  BY <1>4, RatioIsNatural
<1>6. \A a \in Axes : Rescale(ax)[a] = [ax[a] EXCEPT !.timebase = IF a # Slower(ax) THEN n ELSE Scale]
  BY <1>3, <1>5, Zenon DEF Rescale
<1>7. DOMAIN Rescale(ax) = Axes
  BY DEF Rescale
<1>8. ASSUME NEW a \in Axes
      PROVE  /\ Axis(Rescale(ax)[a]) /\ SameLoad(ax[a], Rescale(ax)[a])
             /\ Rescale(ax)[a].moving = ax[a].moving /\ Rescale(ax)[a].plan = ax[a].plan
  <2>1. PICK t \in Nat : t = IF a # Slower(ax) THEN n ELSE Scale
    BY ControlAssumption
  <2>2. Rescale(ax)[a] = [ax[a] EXCEPT !.timebase = t]
    BY <1>6, <2>1, Zenon
  <2>3. Axis(ax[a])
    BY DEF Typed
  <2> QED
    BY <2>2, <2>3 DEF Axis, AxisStates, SameLoad
<1>9. Rescale(ax) \in [Axes -> AxisStates]
  BY <1>7, <1>8 DEF Axis, Rescale
<1> QED
  BY <1>7, <1>8, <1>9 DEF Typed, Whole, SameLoad, Current

LEMMA ClockedIs ==
  ASSUME NEW ax, Typed(ax), NEW d \in Times
  PROVE  Typed(Clocked(ax, d)) /\ (Whole(ax) => Whole(Clocked(ax, d)))
<1>1. \A a \in Axes : Axis(ax[a]) /\ d[a] \in Durations
  BY DEF Typed, Times
<1>2. Clocked(ax, d) = [a \in Axes |-> Clock(ax[a], a, d[a])]
  BY DEF Clocked
<1>3. \A a \in Axes : /\ Axis(Clocked(ax, d)[a]) /\ SameLoad(ax[a], Clocked(ax, d)[a])
                       /\ (Current(ax[a]) => Current(Clocked(ax, d)[a]))
  BY <1>1, <1>2, ClockIs
<1>4. Clocked(ax, d) \in [Axes -> AxisStates] /\ DOMAIN Clocked(ax, d) = Axes
  BY <1>2, <1>3 DEF Axis
<1> QED
  BY <1>3, <1>4 DEF Typed, Whole, SameLoad

(* Both axes get a target and limits of the same load.                     *)
LEMMA TargetedAndLimited ==
  ASSUME NEW ax, Typed(ax), NEW id \in LoadIds
  PROVE  Typed(Limited(Targeted(ax, id), id)) /\ Whole(Limited(Targeted(ax, id), id))
<1>1. \A a \in Axes : Limited(Targeted(ax, id), id)[a] = SetLimits(SetTarget(ax[a], id), id)
  BY DEF Limited, Targeted
<1>2. ASSUME NEW a \in Axes
      PROVE  LET x == Limited(Targeted(ax, id), id)[a]
             IN  Axis(x) /\ ~x.moving /\ x.new_target = id /\ x.limits = id
  <2>1. Axis(ax[a])
    BY DEF Typed
  <2>2. PICK y : y = SetTarget(ax[a], id)
    OBVIOUS
  <2>3. Axis(y) /\ ~y.moving /\ y.new_target = id
    BY <2>1, <2>2, SetTargetIs
  <2>4. /\ Axis(SetLimits(y, id)) /\ SetLimits(y, id).moving = y.moving
        /\ SetLimits(y, id).new_target = y.new_target /\ SetLimits(y, id).limits = id
    BY <2>3, SetLimitsIs
  <2> QED
    BY <1>1, <2>2, <2>3, <2>4
<1>3. /\ Limited(Targeted(ax, id), id) \in [Axes -> AxisStates]
      /\ DOMAIN Limited(Targeted(ax, id), id) = Axes
  BY <1>2 DEF Axis, Limited
<1> QED
  BY <1>2, <1>3 DEF Typed, Whole, Current

(* fb_try_load_preset in one go leaves both axes with one load.            *)
LEMMA LoadedIs ==
  ASSUME NEW ax, Typed(ax), NEW id \in LoadIds, NEW home \in BOOLEAN, NEW d \in Times
  PROVE  Typed(Loaded(ax, id, home, d)) /\ Whole(Loaded(ax, id, home, d))
<1>1. PICK y : y = Limited(Targeted(ax, id), id)
  OBVIOUS
<1>2. Typed(y) /\ Whole(y)
  BY <1>1, TargetedAndLimited
<1>3. PICK z : z = Clocked(y, d)
  OBVIOUS
<1>4. Typed(z) /\ Whole(z)
  BY <1>2, <1>3, ClockedIs
<1>5. Typed(Rescale(z)) /\ Whole(Rescale(z))
  BY <1>4, RescaleIs
<1> QED
  BY <1>1, <1>2, <1>3, <1>5 DEF Loaded

-----------------------------------------------------------------------------
(* Moves that begin.                                                       *)

Fresh(x) == x.moving => x.time = 0

(* A controller that waits for its clock with a new target.                *)
Waiting(x) == ~x.moving /\ ~x.settling /\ x.start

(* A move that is planned and has not been clocked yet.                    *)
Planned(x) == x.moving /\ ~x.completed /\ x.time = 0

LEMMA PlanBegins ==
  ASSUME NEW x, Axis(x), NEW d \in Durations
  PROVE  Planned(Plan(x, d))
<1>1. PICK t : t = IF x.limits = 0 THEN 0 ELSE d * Scale
  OBVIOUS
<1>2. PICK p : p = [target |-> x.new_target, limits |-> x.limits]
  OBVIOUS
<1>3. Plan(x, d) = [x EXCEPT !.plan = p, !.total = t, !.completed = FALSE, !.start = FALSE,
                             !.moving = TRUE, !.time = 0, !.timebase = Scale]
  BY <1>1, <1>2, Zenon DEF Plan
<1> QED
  BY <1>3 DEF Planned, Axis, AxisStates

(* A controller at rest only begins what it plans now.                     *)
LEMMA ClockFromRest ==
  ASSUME NEW x, Axis(x), ~x.moving, NEW a \in Axes, NEW d \in Durations
  PROVE  Fresh(Clock(x, a, d)) /\ (Waiting(x) => Planned(Clock(x, a, d)))
<1>1. Arrive(x, a) = x
  BY DEF Arrive
<1>2. PICK y : y = Advance(x)
  OBVIOUS
<1>3. Axis(y) /\ ~y.moving
  BY <1>2, AdvanceIs
<1>4. Clock(x, a, d) = IF ~y.moving /\ ~y.settling /\ y.start THEN Plan(y, d) ELSE y
  BY <1>1, <1>2 DEF Clock
<1>5. Fresh(Clock(x, a, d))
  BY <1>3, <1>4, PlanBegins DEF Fresh, Planned
<1>6. ASSUME Waiting(x) PROVE Planned(Clock(x, a, d))
  <2>1. y = Still(x)
    BY <1>2, <1>6 DEF Advance, Waiting
  <2>2. ~y.settling /\ y.start
    BY <1>6, <2>1 DEF Still, Waiting, Axis, AxisStates
  <2> QED
    BY <1>3, <1>4, <2>2, PlanBegins
<1> QED
  BY <1>5, <1>6

LEMMA PlanFields ==
  ASSUME NEW x, Axis(x), NEW d \in Durations
  PROVE  /\ ~Plan(x, d).start /\ Plan(x, d).timebase = Scale
         /\ x.limits # 0 => Plan(x, d).total = d * Scale
<1>1. PICK t : t = IF x.limits = 0 THEN 0 ELSE d * Scale
  OBVIOUS
<1>2. PICK p : p = [target |-> x.new_target, limits |-> x.limits]
  OBVIOUS
<1>3. Plan(x, d) = [x EXCEPT !.plan = p, !.total = t, !.completed = FALSE, !.start = FALSE,
                             !.moving = TRUE, !.time = 0, !.timebase = Scale]
  BY <1>1, <1>2, Zenon DEF Plan
<1>4. ~Plan(x, d).start /\ Plan(x, d).timebase = Scale /\ Plan(x, d).total = t
  BY <1>3 DEF Axis, AxisStates
<1> QED
  BY <1>1, <1>4, Zenon

(* A move of d ticks that has just been planned.                           *)
Begun(x, d) == Planned(x) /\ ~x.start /\ x.timebase = Scale /\ x.total = d * Scale

LEMMA ClockBegins ==
  ASSUME NEW x, Axis(x), Waiting(x), x.limits # 0, NEW a \in Axes, NEW d \in Durations
  PROVE  Begun(Clock(x, a, d), d)
<1>1. Arrive(x, a) = x
  BY DEF Arrive, Waiting
<1>2. PICK y : y = Advance(x)
  OBVIOUS
<1>3. y = Still(x)
  BY <1>2 DEF Advance, Waiting
<1>4. Axis(y) /\ ~y.moving /\ ~y.settling /\ y.start /\ y.limits # 0
  <2>1. Axis(y) /\ SameLoad(x, y) /\ y.moving = x.moving
    BY <1>3, StillIs
  <2>2. ~y.settling /\ y.start
    BY <1>3 DEF Still, Waiting, Axis, AxisStates
  <2> QED
    BY <2>1, <2>2 DEF Waiting, SameLoad
<1>5. Clock(x, a, d) = Plan(y, d)
  BY <1>1, <1>2, <1>4 DEF Clock
<1> QED
  BY <1>4, <1>5, PlanBegins, PlanFields DEF Begun

-----------------------------------------------------------------------------
(* What the console's load has done so far with an axis that nothing drove *)
(* meanwhile: it has given it the target, the limits too, a plan.          *)

GotTarget(x, id) == Waiting(x) /\ x.new_target = id
GotLimits(x, id) == GotTarget(x, id) /\ x.limits = id
GotPlan(x, id) ==
  /\ x.new_target = id /\ Current(x)
  /\ \E d \in Durations : Begun(x, d)

LEMMA TargetIsGot ==
  ASSUME NEW x, Axis(x), NEW id \in LoadIds
  PROVE  GotTarget(SetTarget(x, id), id)
BY DEF Axis, AxisStates, SetTarget, GotTarget, Waiting

LEMMA LimitsAreGot ==
  ASSUME NEW x, Axis(x), NEW id \in LoadIds, GotTarget(x, id)
  PROVE  GotLimits(SetLimits(x, id), id)
BY DEF Axis, AxisStates, SetLimits, GotLimits, GotTarget, Waiting

LEMMA PlanIsGot ==
  ASSUME NEW x, Axis(x), NEW id, id # 0, GotLimits(x, id), NEW a \in Axes, NEW d \in Durations
  PROVE  GotPlan(Clock(x, a, d), id)
<1>1. Waiting(x) /\ x.limits = id /\ x.new_target = id
  BY DEF GotLimits, GotTarget
<1>2. Begun(Clock(x, a, d), d)
  BY <1>1, ClockBegins
<1>3. Current(x)
  BY <1>1 DEF Current, Waiting
<1>4. SameLoad(x, Clock(x, a, d)) /\ Current(Clock(x, a, d))
  BY <1>3, ClockIs
<1> QED
  BY <1>1, <1>2, <1>4 DEF GotPlan, SameLoad

LEMMA LimitedIsWhole ==
  ASSUME NEW ax, NEW id, \A a \in Axes : GotLimits(ax[a], id)
  PROVE  Whole(ax)
BY DEF GotLimits, GotTarget, Waiting, Whole, Current

LEMMA PlannedIsWhole ==
  ASSUME NEW ax, NEW id, \A a \in Axes : GotPlan(ax[a], id)
  PROVE  Whole(ax)
BY DEF GotPlan, Whole

-----------------------------------------------------------------------------
(* The whole of it.                                                        *)

Statements ==
  {"none", "target pitch", "target yaw", "limits pitch", "limits yaw",
   "clock pitch", "clock yaw", "rescale", "mode"}

ConsoleOK ==
  /\ loads \in LoadIds
  /\ command \in [step : Statements, id : LoadIds, home : BOOLEAN]
  /\ command.step # "none" => command.id # 0
  /\ torn \in BOOLEAN

(* Between the console's statements the axes are whole, or as far as the   *)
(* load has come with each of them.                                        *)
Progress ==
  LET id == command.id
      pitch == axis["pitch"]
      yaw == axis["yaw"]
  IN  /\ command.step \in {"none", "target pitch", "mode"} => Whole(axis)
      /\ command.step = "target yaw" =>
           GotTarget(pitch, id) /\ (yaw.moving => yaw.plan.target = yaw.plan.limits)
      /\ command.step = "limits pitch" => GotTarget(pitch, id) /\ GotTarget(yaw, id)
      /\ command.step = "limits yaw" => GotLimits(pitch, id) /\ GotTarget(yaw, id)
      /\ command.step = "clock pitch" => GotLimits(pitch, id) /\ GotLimits(yaw, id)
      /\ command.step = "clock yaw" => GotPlan(pitch, id) /\ GotLimits(yaw, id)
      /\ command.step = "rescale" => GotPlan(pitch, id) /\ GotPlan(yaw, id)

ControlInv ==
  /\ Typed(axis)
  /\ control_mode \in {"MANUAL", "AUTO"}
  /\ ConsoleOK
  /\ ~torn => Progress

LEMMA AllReset ==
  Typed([a \in Axes |-> ResetAxis]) /\ Whole([a \in Axes |-> ResetAxis])
BY ResetIs DEF Typed, Whole, Axis

LEMMA OneMoreLoad ==
  ASSUME loads \in LoadIds, loads < MaxLoads, loads' = loads + 1
  PROVE  loads' \in LoadIds /\ loads' # 0
<1>1. MaxLoads \in Nat
  BY ControlAssumption
<1> QED
  BY <1>1 DEF LoadIds

LEMMA ControlInit == Init => ControlInv
<1> SUFFICES ASSUME Init PROVE ControlInv
  OBVIOUS
<1>1. ConsoleOK /\ command.step = "none"
  <2>1. 0 \in LoadIds
    BY ControlAssumption DEF LoadIds
  <2>2. loads = 0 /\ command = Idle /\ torn = FALSE
    BY DEF Init
  <2> QED
    BY <2>1, <2>2 DEF ConsoleOK, Idle, Statements
<1> QED
  BY <1>1, AllReset DEF Init, ControlInv, Progress

LEMMA ControlIs ==
  ASSUME NEW ax, Typed(ax), NEW mode \in {"MANUAL", "AUTO"}, NEW times, times \subseteq Times,
         Control(ax, mode, times)
  PROVE  /\ Typed(axis') /\ (Whole(ax) => Whole(axis'))
         /\ control_mode' \in {"MANUAL", "AUTO"}
<1>1. CASE axis' = ax /\ control_mode' = mode
  BY <1>1
<1>2. CASE (\E d \in times : axis' = Clocked(ax, d)) /\ control_mode' = mode
  BY <1>2, ClockedIs
<1>3. CASE axis' = [a \in Axes |-> ResetAxis] /\ control_mode' = "MANUAL"
  BY <1>3, AllReset
<1> QED
  BY <1>1, <1>2, <1>3 DEF Control

LEMMA LoopStep ==
  ASSUME ControlInv, Loop
  PROVE  ControlInv'
<1>1. CASE Pass
  <2>1. /\ Typed(axis') /\ (Whole(axis) => Whole(axis'))
        /\ control_mode' \in {"MANUAL", "AUTO"}
    BY <1>1, ControlIs DEF Pass, ControlInv
  <2>2. UNCHANGED <<loads, command>> /\ torn' = (torn \/ (control_mode = "AUTO" /\ command # Idle))
    BY <1>1 DEF Pass
  <2>3. ConsoleOK'
    BY <2>2 DEF ControlInv, ConsoleOK
  <2>4. ASSUME ~torn' PROVE Progress'
    <3>1. ~torn /\ (control_mode # "AUTO" \/ command = Idle)
      BY <2>2, <2>4
    <3>2. CASE control_mode # "AUTO"
      <4>1. axis' = axis /\ command' = command
        BY <1>1, <3>2 DEF Pass, Control
      <4>2. Progress
        BY <3>1 DEF ControlInv
      <4> QED
        BY <4>1, <4>2 DEF Progress
    <3>3. CASE command = Idle
      <4>1. command.step = "none" /\ command'.step = "none"
        BY <2>2, <3>3 DEF Idle
      <4>2. Whole(axis)
        BY <3>1, <4>1 DEF ControlInv, Progress
      <4> QED
        BY <2>1, <4>1, <4>2 DEF Progress
    <3> QED
      BY <3>1, <3>2, <3>3
  <2> QED
    BY <2>1, <2>3, <2>4 DEF ControlInv
<1>2. ASSUME NEW home \in BOOLEAN, PassLoads(home) PROVE ControlInv'
  <2>1. loads' \in LoadIds
    <3>1. loads < MaxLoads /\ loads' = loads + 1
      BY <1>2 DEF PassLoads
    <3> QED
      BY <3>1, OneMoreLoad DEF ControlInv, ConsoleOK
  <2>2. PICK d \in Times : Control(Loaded(axis, loads', home, d), "AUTO", {d})
    BY <1>2 DEF PassLoads
  <2>3. PICK id \in LoadIds : id = loads'
    BY <2>1
  <2>4. PICK y : y = Loaded(axis, id, home, d)
    OBVIOUS
  <2>5. Typed(y) /\ Whole(y)
    BY <2>4, LoadedIs DEF ControlInv
  <2>6. Control(y, "AUTO", {d})
    BY <2>2, <2>3, <2>4, Zenon
  <2>7. Typed(axis') /\ Whole(axis') /\ control_mode' \in {"MANUAL", "AUTO"}
    BY <2>5, <2>6, ControlIs
  <2>8. command' = command /\ torn' = (command # Idle)
    BY <1>2 DEF PassLoads
  <2>9. ConsoleOK'
    BY <2>1, <2>8 DEF ControlInv, ConsoleOK
  <2>10. ASSUME ~torn' PROVE Progress'
    <3>1. command = Idle
      BY <2>8, <2>10
    <3>2. command'.step = "none"
      BY <2>8, <3>1 DEF Idle
    <3> QED
      BY <2>7, <3>2 DEF Progress
  <2> QED
    BY <2>7, <2>9, <2>10 DEF ControlInv
<1> QED
  BY <1>1, <1>2 DEF Loop

(* A statement of the console changes one axis.                            *)
LEMMA OneAxis ==
  ASSUME Typed(axis), NEW a \in Axes, NEW x, Axis(x), axis' = [axis EXCEPT ![a] = x]
  PROVE  Typed(axis')
BY DEF Typed, Axis

(* Each statement does its part of the load.                               *)
LEMMA StatementProgress ==
  ASSUME ControlInv, ~torn, Console
  PROVE  Progress'
<1>1. /\ Axis(axis["pitch"]) /\ Axis(axis["yaw"]) /\ axis \in [Axes -> AxisStates]
      /\ command.id \in LoadIds /\ "pitch" \in Axes /\ "yaw" \in Axes
      /\ \A a \in Axes : a = "pitch" \/ a = "yaw"
      /\ command \in [step : Statements, id : LoadIds, home : BOOLEAN]
  BY DEF ControlInv, ConsoleOK, Typed, Axes
<1>2. PICK id \in LoadIds : id = command.id
  BY <1>1
<1>3. PICK p : p = axis["pitch"]
  OBVIOUS
<1>4. PICK y : y = axis["yaw"]
  OBVIOUS
<1>5. Axis(p) /\ Axis(y) /\ Progress /\ (command.step # "none" => id # 0)
  BY <1>1, <1>2, <1>3, <1>4 DEF ControlInv, ConsoleOK
<1>6. ASSUME NEW from \in Statements, NEW to \in Statements, Statement(from, to)
      PROVE  command.step = from /\ command'.step = to /\ command'.id = id
  BY <1>1, <1>2, <1>6 DEF Statement
<1>7. CASE ConsoleTargets
  <2>1. CASE Statement("target pitch", "target yaw") /\ axis' = [axis EXCEPT !["pitch"] = SetTarget(p, id)]
    <3>1. command.step = "target pitch" /\ command'.step = "target yaw" /\ command'.id = id
      BY <1>6, <2>1 DEF Statements
    <3>2. axis'["pitch"] = SetTarget(p, id) /\ axis'["yaw"] = y
      BY <1>1, <1>4, <2>1
    <3>3. Current(y)
      BY <1>1, <1>4, <1>5, <3>1 DEF Progress, Whole
    <3>4. y.moving => y.plan.target = y.plan.limits
      BY <3>3 DEF Current
    <3>5. GotTarget(SetTarget(p, id), id)
      BY <1>5, TargetIsGot
    <3> QED
      BY <3>1, <3>2, <3>4, <3>5 DEF Progress
  <2>2. CASE Statement("target yaw", "limits pitch") /\ axis' = [axis EXCEPT !["yaw"] = SetTarget(y, id)]
    <3>1. command.step = "target yaw" /\ command'.step = "limits pitch" /\ command'.id = id
      BY <1>6, <2>2 DEF Statements
    <3>2. axis'["pitch"] = p /\ axis'["yaw"] = SetTarget(y, id)
      BY <1>1, <1>3, <2>2
    <3>3. GotTarget(p, id)
      BY <1>2, <1>3, <1>5, <3>1 DEF Progress
    <3>4. GotTarget(SetTarget(y, id), id)
      BY <1>5, TargetIsGot
    <3> QED
      BY <3>1, <3>2, <3>3, <3>4 DEF Progress
  <2> QED
    BY <1>1, <1>2, <1>3, <1>4, <1>7, <2>1, <2>2 DEF ConsoleTargets
<1>8. CASE ConsoleLimits
  <2>1. CASE Statement("limits pitch", "limits yaw") /\ axis' = [axis EXCEPT !["pitch"] = SetLimits(p, id)]
    <3>1. command.step = "limits pitch" /\ command'.step = "limits yaw" /\ command'.id = id
      BY <1>6, <2>1 DEF Statements
    <3>2. axis'["pitch"] = SetLimits(p, id) /\ axis'["yaw"] = y
      BY <1>1, <1>4, <2>1
    <3>3. GotTarget(p, id) /\ GotTarget(y, id)
      BY <1>2, <1>3, <1>4, <1>5, <3>1 DEF Progress
    <3>4. GotLimits(SetLimits(p, id), id)
      BY <1>5, <3>3, LimitsAreGot
    <3> QED
      BY <3>1, <3>2, <3>3, <3>4 DEF Progress
  <2>2. CASE /\ Statement("limits yaw", IF command.home THEN "mode" ELSE "clock pitch")
             /\ axis' = [axis EXCEPT !["yaw"] = SetLimits(y, id)]
    <3>1. PICK to \in {"mode", "clock pitch"} : Statement("limits yaw", to)
      BY <2>2
    <3>2. command.step = "limits yaw" /\ command'.step = to /\ command'.id = id
      BY <1>6, <3>1 DEF Statements
    <3>3. axis'["pitch"] = p /\ axis'["yaw"] = SetLimits(y, id)
      BY <1>1, <1>3, <2>2
    <3>4. GotLimits(p, id) /\ GotTarget(y, id)
      BY <1>2, <1>3, <1>4, <1>5, <3>2 DEF Progress
    <3>5. GotLimits(SetLimits(y, id), id)
      BY <1>5, <3>4, LimitsAreGot
    <3>6. Whole(axis')
      BY <1>1, <3>3, <3>4, <3>5, LimitedIsWhole
    <3> QED
      BY <3>1, <3>2, <3>3, <3>4, <3>5, <3>6 DEF Progress
  <2> QED
    BY <1>1, <1>2, <1>3, <1>4, <1>8, <2>1, <2>2 DEF ConsoleLimits
<1>9. CASE ConsoleClocks
  <2>1. PICK d \in Durations :
          \/ Statement("clock pitch", "clock yaw") /\ axis' = [axis EXCEPT !["pitch"] = Clock(p, "pitch", d)]
          \/ Statement("clock yaw", "rescale") /\ axis' = [axis EXCEPT !["yaw"] = Clock(y, "yaw", d)]
    BY <1>1, <1>3, <1>4, <1>9 DEF ConsoleClocks
  <2>2. CASE Statement("clock pitch", "clock yaw") /\ axis' = [axis EXCEPT !["pitch"] = Clock(p, "pitch", d)]
    <3>1. command.step = "clock pitch" /\ command'.step = "clock yaw" /\ command'.id = id
      BY <1>6, <2>2 DEF Statements
    <3>2. axis'["pitch"] = Clock(p, "pitch", d) /\ axis'["yaw"] = y
      BY <1>1, <1>4, <2>2
    <3>3. GotLimits(p, id) /\ GotLimits(y, id) /\ id # 0
      BY <1>2, <1>3, <1>4, <1>5, <3>1 DEF Progress
    <3>4. GotPlan(Clock(p, "pitch", d), id)
      BY <1>1, <1>5, <3>3, PlanIsGot
    <3> QED
      BY <3>1, <3>2, <3>3, <3>4 DEF Progress
  <2>3. CASE Statement("clock yaw", "rescale") /\ axis' = [axis EXCEPT !["yaw"] = Clock(y, "yaw", d)]
    <3>1. command.step = "clock yaw" /\ command'.step = "rescale" /\ command'.id = id
      BY <1>6, <2>3 DEF Statements
    <3>2. axis'["pitch"] = p /\ axis'["yaw"] = Clock(y, "yaw", d)
      BY <1>1, <1>3, <2>3
    <3>3. GotPlan(p, id) /\ GotLimits(y, id) /\ id # 0
      BY <1>2, <1>3, <1>4, <1>5, <3>1 DEF Progress
    <3>4. GotPlan(Clock(y, "yaw", d), id)
      BY <1>1, <1>5, <3>3, PlanIsGot
    <3> QED
      BY <3>1, <3>2, <3>3, <3>4 DEF Progress
  <2> QED
    BY <2>1, <2>2, <2>3
<1>10. CASE ConsoleRescales
  <2>1. command.step = "rescale" /\ command'.step = "mode" /\ axis' = Rescale(axis)
    BY <1>6, <1>10 DEF ConsoleRescales, Statements
  <2>2. GotPlan(p, id) /\ GotPlan(y, id)
    BY <1>2, <1>3, <1>4, <1>5, <2>1 DEF Progress
  <2>3. Whole(axis)
    BY <1>1, <1>3, <1>4, <2>2, PlannedIsWhole
  <2>4. Whole(axis')
    BY <2>1, <2>3, RescaleIs DEF ControlInv
  <2> QED
    BY <2>1, <2>4 DEF Progress
<1>11. CASE ConsoleSetsMode
  <2>1. command.step = "mode" /\ command'.step = "none" /\ axis' = axis
    BY <1>11 DEF ConsoleSetsMode, Idle
  <2>2. Whole(axis')
    BY <1>5, <2>1 DEF Progress
  <2> QED
    BY <2>1, <2>2 DEF Progress
<1> QED
  BY <1>7, <1>8, <1>9, <1>10, <1>11 DEF Console

LEMMA ConsoleStep ==
  ASSUME ControlInv, Console
  PROVE  ControlInv'
<1>1. command.step # "none" /\ torn' = torn /\ loads' = loads
  BY DEF Console, ConsoleTargets, ConsoleLimits, ConsoleClocks, ConsoleRescales, ConsoleSetsMode,
         Statement
<1>2. command.id \in LoadIds /\ "pitch" \in Axes /\ "yaw" \in Axes
  BY DEF ControlInv, ConsoleOK, Axes
<1>3. Typed(axis) /\ Axis(axis["pitch"]) /\ Axis(axis["yaw"])
  BY <1>2 DEF ControlInv, Typed
<1>4. Typed(axis')
  <2>1. CASE ConsoleTargets
    <3>1. \/ axis' = [axis EXCEPT !["pitch"] = SetTarget(axis["pitch"], command.id)]
          \/ axis' = [axis EXCEPT !["yaw"] = SetTarget(axis["yaw"], command.id)]
      BY <2>1, <1>2, <1>3 DEF ConsoleTargets, Typed
    <3> QED
      BY <1>2, <1>3, <3>1, SetTargetIs, OneAxis
  <2>2. CASE ConsoleLimits
    <3>1. \/ axis' = [axis EXCEPT !["pitch"] = SetLimits(axis["pitch"], command.id)]
          \/ axis' = [axis EXCEPT !["yaw"] = SetLimits(axis["yaw"], command.id)]
      BY <2>2, <1>2, <1>3 DEF ConsoleLimits, Typed
    <3> QED
      BY <1>2, <1>3, <3>1, SetLimitsIs, OneAxis
  <2>3. CASE ConsoleClocks
    <3>1. PICK d \in Durations :
            \/ axis' = [axis EXCEPT !["pitch"] = Clock(axis["pitch"], "pitch", d)]
            \/ axis' = [axis EXCEPT !["yaw"] = Clock(axis["yaw"], "yaw", d)]
      BY <2>3, <1>2, <1>3 DEF ConsoleClocks, Typed
    <3> QED
      BY <1>2, <1>3, <3>1, ClockIs, OneAxis
  <2>4. CASE ConsoleRescales
    BY <2>4, <1>3, RescaleIs DEF ConsoleRescales
  <2>5. CASE ConsoleSetsMode
    BY <2>5, <1>3 DEF ConsoleSetsMode
  <2> QED
    BY <2>1, <2>2, <2>3, <2>4, <2>5 DEF Console
<1>5. control_mode' \in {"MANUAL", "AUTO"}
  BY DEF Console, ConsoleTargets, ConsoleLimits, ConsoleClocks, ConsoleRescales, ConsoleSetsMode,
         ControlInv
<1>6. ConsoleOK'
  <2>1. command' = Idle \/ \E to \in Statements : command' = [command EXCEPT !.step = to]
    <3>1. CASE ConsoleTargets
      BY <3>1 DEF ConsoleTargets, Statement, Statements
    <3>2. CASE ConsoleLimits
      <4>1. (IF command.home THEN "mode" ELSE "clock pitch") \in Statements
        BY DEF Statements
      <4>2. "limits yaw" \in Statements
        BY DEF Statements
      <4> QED
        BY <3>2, <4>1, <4>2 DEF ConsoleLimits, Statement
    <3>3. CASE ConsoleClocks
      BY <3>3 DEF ConsoleClocks, Statement, Statements
    <3>4. CASE ConsoleRescales
      BY <3>4 DEF ConsoleRescales, Statement, Statements
    <3>5. CASE ConsoleSetsMode
      BY <3>5 DEF ConsoleSetsMode
    <3> QED
      BY <3>1, <3>2, <3>3, <3>4, <3>5 DEF Console
  <2>2. 0 \in LoadIds
    BY ControlAssumption DEF LoadIds
  <2>3. /\ command' \in [step : Statements, id : LoadIds, home : BOOLEAN]
        /\ command'.step # "none" => command'.id # 0
    <3>1. CASE command' = Idle
      BY <2>2, <3>1 DEF Idle, Statements
    <3>2. CASE \E to \in Statements : command' = [command EXCEPT !.step = to]
      BY <1>1, <3>2 DEF ControlInv, ConsoleOK
    <3> QED
      BY <2>1, <3>1, <3>2
  <2> QED
    BY <1>1, <2>3 DEF ControlInv, ConsoleOK
<1>7. ~torn' => Progress'
  BY <1>1, StatementProgress
<1> QED
  BY <1>4, <1>5, <1>6, <1>7 DEF ControlInv

LEMMA ControlInductive == Init /\ [][Next]_vars => []ControlInv
<1>1. ASSUME ControlInv, [Next]_vars PROVE ControlInv'
  <2>1. CASE Loop
    BY <1>1, <2>1, LoopStep
  <2>2. ASSUME NEW home \in BOOLEAN, ConsoleStarts(home) PROVE ControlInv'
    <3>1. loads' \in LoadIds /\ loads' # 0
      BY <1>1, <2>2, OneMoreLoad DEF ConsoleStarts, ControlInv, ConsoleOK
    <3>2. command' = [step |-> "target pitch", id |-> loads', home |-> home]
      BY <2>2 DEF ConsoleStarts
    <3>3. UNCHANGED <<axis, control_mode, torn>>
      BY <2>2 DEF ConsoleStarts
    <3>4. ConsoleOK'
      BY <1>1, <3>1, <3>2, <3>3 DEF ControlInv, ConsoleOK, Statements
    <3>5. ASSUME ~torn' PROVE Progress'
      <4>1. Whole(axis)
        <5>1. Progress
          BY <1>1, <3>3, <3>5 DEF ControlInv
        <5>2. command.step = "none"
          BY <2>2 DEF ConsoleStarts, Idle
        <5> QED
          BY <5>1, <5>2 DEF Progress
      <4> QED
        BY <3>2, <3>3, <4>1 DEF Progress
    <3> QED
      BY <1>1, <3>3, <3>4, <3>5 DEF ControlInv
  <2>3. CASE ManualCommand
    <3>1. UNCHANGED <<axis, loads, command, torn>> /\ control_mode' = "MANUAL"
      BY <2>3 DEF ManualCommand
    <3>2. ConsoleOK'
      BY <1>1, <3>1 DEF ControlInv, ConsoleOK
    <3>3. ASSUME ~torn' PROVE Progress'
      <4>1. Progress
        BY <1>1, <3>1, <3>3 DEF ControlInv
      <4> QED
        BY <3>1, <4>1 DEF Progress
    <3> QED
      BY <1>1, <3>1, <3>2, <3>3 DEF ControlInv
  <2>4. CASE Console
    BY <1>1, <2>4, ConsoleStep
  <2>5. CASE UNCHANGED vars
    BY <1>1, <2>5 DEF vars, ControlInv, ConsoleOK, Progress
  <2> QED
    BY <1>1, <2>1, <2>2, <2>3, <2>4, <2>5 DEF Next
<1> QED
  BY ControlInit, <1>1, PTL

(* Types and ranges of the axis controllers hold, and no axis moves and    *)
(* settles at the same time, whatever interleaving of loop and console.    *)
THEOREM ControlTypeCorrect == Spec => []TypeOK
<1>1. ControlInv => TypeOK
  BY DEF ControlInv, ConsoleOK, Statements, Typed, Axis, AxisStates, TypeOK
<1> QED
  BY <1>1, ControlInductive, PTL DEF Spec

(* Both axes move with target and limits of one load, in every state of a  *)
(* load by button or console that no pass has torn.                        *)
THEOREM UntornMovesCorrect == Spec => []UntornMovesAreWhole
<1>1. ASSUME Typed(axis), Whole(axis) PROVE MovesAreWhole
  <2>1. \A a \in Axes : Axis(axis[a]) /\ Current(axis[a])
    BY <1>1 DEF Typed, Whole
  <2>2. \A a \in Axes : Moving(a) => axis[a].plan.target = axis[a].plan.limits
    BY <2>1 DEF Current, Moving
  <2>3. ASSUME \A a \in Axes : Moving(a) PROVE axis["pitch"].plan = axis["yaw"].plan
    <3>1. \A a \in Axes : axis[a].plan \in [target : LoadIds, limits : LoadIds]
      BY <2>1 DEF Axis, AxisStates
    <3>2. axis["pitch"].new_target = axis["yaw"].new_target
      BY <1>1 DEF Whole, Axes
    <3>3. /\ axis["pitch"].plan.target = axis["yaw"].plan.target
          /\ axis["pitch"].plan.limits = axis["yaw"].plan.limits
      BY <2>1, <2>3, <3>2 DEF Current, Moving, Axes
    <3> QED
      BY <3>1, <3>3 DEF Axes
  <2> QED
    BY <2>2, <2>3 DEF MovesAreWhole
<1>2. ASSUME ControlInv PROVE UntornMovesAreWhole
  <2> SUFFICES ASSUME ~torn PROVE MovesAreWhole
    BY DEF UntornMovesAreWhole
  <2>1. Progress /\ Typed(axis) /\ command.step \in Statements
    BY <1>2 DEF ControlInv, ConsoleOK
  <2>2. \A a \in Axes : a = "pitch" \/ a = "yaw"
    BY DEF Axes
  <2>3. CASE command.step \in {"none", "target pitch", "mode"}
    BY <1>1, <2>1, <2>3 DEF Progress
  <2>4. CASE command.step = "rescale"
    <3>1. GotPlan(axis["pitch"], command.id) /\ GotPlan(axis["yaw"], command.id)
      BY <2>1, <2>4 DEF Progress
    <3> QED
      BY <1>1, <2>1, <2>2, <3>1, PlannedIsWhole
  <2>5. CASE command.step \in {"target yaw", "limits pitch", "limits yaw", "clock pitch", "clock yaw"}
    <3>1. /\ ~axis["pitch"].moving \/ ~axis["yaw"].moving
          /\ \A a \in Axes : axis[a].moving => axis[a].plan.target = axis[a].plan.limits
      BY <2>1, <2>2, <2>5 DEF Progress, GotTarget, GotLimits, GotPlan, Waiting, Current
    <3> QED
      BY <3>1 DEF MovesAreWhole, Moving, Axes
  <2> QED
    BY <2>1, <2>3, <2>4, <2>5 DEF Statements
<1> QED
  BY <1>2, ControlInductive, PTL DEF Spec

-----------------------------------------------------------------------------
(* Moves that are aborted and not resumed.                                 *)

(* The first clock of a move takes it one timebase ahead.                  *)
LEMMA FirstClock ==
  ASSUME NEW x, Axis(x), Planned(x), x.timebase <= Scale, NEW a \in Axes, NEW d \in Durations
  PROVE  Clock(x, a, d).moving => Clock(x, a, d).time <= Scale
<1>1. Arrive(x, a) = x
  BY DEF Arrive, Planned
<1>2. PICK y : y = Advance(x)
  OBVIOUS
<1>3. y = Run(x, x.timebase) /\ y.moving
  <2>1. y = Run(x, x.timebase)
    BY <1>2 DEF Advance, Planned
  <2>2. x.timebase \in Nat
    BY DEF Axis, AxisStates
  <2> QED
    BY <2>1, <2>2, RunIs DEF Planned
<1>4. y.time = x.timebase
  <2>1. PICK c : c = (x.time + x.timebase >= x.total)
    OBVIOUS
  <2>2. x.time + x.timebase = x.timebase
    BY DEF Planned, Axis, AxisStates
  <2>3. y = [x EXCEPT !.time = x.time + x.timebase, !.completed = c, !.driven = TRUE]
    BY <1>3, <2>1 DEF Run, Axis, AxisStates
  <2> QED
    BY <2>2, <2>3 DEF Axis, AxisStates
<1>5. Clock(x, a, d) = y
  BY <1>1, <1>2, <1>3 DEF Clock
<1> QED
  BY <1>4, <1>5

(* The axis that would be done first is slowed down, never sped up.        *)
LEMMA RatioSlows ==
  ASSUME NEW s \in Nat, NEW t \in Nat, s <= t
  PROVE  Ratio(s, t) <= Scale
<1>1. Scale \in Nat \ {0} /\ MinTime \in Nat /\ Abs(s) = s /\ Abs(t) = t
  BY ControlAssumption DEF Abs
<1>2. CASE s > MinTime * Scale /\ 20 * t > s
  <2>1. t \in Nat \ {0}
    BY <1>2
  <2>2. PICK n \in Nat : n = s * Scale + (t - 1)
    <3>1. s * Scale \in Nat
      BY <1>1
    <3> QED
      BY <2>1, <3>1
  <2>3. Ratio(s, t) = n \div t
    BY <1>1, <1>2, <2>2 DEF Ratio
  <2>4. n \div t \in Int /\ n % t \in 0 .. t - 1
    BY <2>1
  <2>5. PICK q \in Int : q = n \div t
    BY <2>4
  <2>6. PICK r \in 0 .. t - 1 : r = n % t
    BY <2>4
  <2>7. n = q * t + r
    BY <2>1, <2>5, <2>6
  <2>8. s * Scale <= t * Scale
    BY <1>1
  <2>9. q * t < t * Scale + t
    BY <1>1, <2>1, <2>2, <2>6, <2>7, <2>8
  <2>10. (q - Scale) * t < t
    BY <1>1, <2>1, <2>9
  <2>11. PICK e \in Int : e = q - Scale
    BY <1>1
  <2>12. e <= 0
    <3>1. e * t < t
      BY <2>10, <2>11
    <3>2. CASE e >= 1
      <4>1. e * t >= t
        BY <2>1, <3>2
      <4> QED
        BY <2>1, <3>1, <4>1
    <3> QED
      BY <3>2
  <2> QED
    BY <1>1, <2>3, <2>5, <2>11, <2>12
<1>3. CASE ~(s > MinTime * Scale /\ 20 * t > s)
  BY <1>1, <1>3 DEF Ratio
<1> QED
  BY <1>2, <1>3

LEMMA RescaleSlows ==
  ASSUME NEW ax, Typed(ax), \A a \in Axes : Planned(ax[a])
  PROVE  \A a \in Axes : Planned(Rescale(ax)[a]) /\ Rescale(ax)[a].timebase <= Scale
<1>1. \A a \in Axes : Remaining(ax[a]) \in Nat
  BY DEF Typed, Axis, AxisStates, Remaining, Planned
<1>2. PICK p \in Nat, y \in Nat : p = Remaining(ax["pitch"]) /\ y = Remaining(ax["yaw"])
  BY <1>1 DEF Axes
<1>3. {Remaining(ax[a]) : a \in Axes} = {p, y}
  BY <1>2 DEF Axes
<1>4. Min({p, y}) \in Nat /\ Max({p, y}) \in Nat /\ Min({p, y}) <= Max({p, y})
  <2>1. \E x \in {p, y} : \A z \in {p, y} : x <= z
    OBVIOUS
  <2>2. \E x \in {p, y} : \A z \in {p, y} : x >= z
    OBVIOUS
  <2>3. Min({p, y}) \in {p, y} /\ \A z \in {p, y} : Min({p, y}) <= z
    BY <2>1 DEF Min
  <2>4. Max({p, y}) \in {p, y}
    BY <2>2 DEF Max
  <2> QED
    BY <2>3, <2>4
<1>5. PICK n \in Nat : n = Ratio(Min({p, y}), Max({p, y}))
  BY <1>4, RatioIsNatural
<1>6. n <= Scale
  BY <1>4, <1>5, RatioSlows
<1>7. \A a \in Axes : Rescale(ax)[a] = [ax[a] EXCEPT !.timebase = IF a # Slower(ax) THEN n ELSE Scale]
  BY <1>3, <1>5, Zenon DEF Rescale
<1> QED
  <2> TAKE a \in Axes
  <2>1. PICK t \in Nat : t = (IF a # Slower(ax) THEN n ELSE Scale) /\ t <= Scale
    BY <1>6, ControlAssumption
  <2>2. Rescale(ax)[a] = [ax[a] EXCEPT !.timebase = t]
    BY <1>7, <2>1, Zenon
  <2>3. Axis(ax[a]) /\ Planned(ax[a])
    BY DEF Typed
  <2> QED
    BY <2>1, <2>2, <2>3 DEF Axis, AxisStates, Planned

(* A button's load and the clock of the same pass.                         *)
LEMMA LoadedBegins ==
  ASSUME NEW ax, Typed(ax), NEW id \in LoadIds, NEW home \in BOOLEAN, NEW d \in Times, NEW e \in Times
  PROVE  \A a \in Axes : LET x == Clocked(Loaded(ax, id, home, d), e)[a]
                         IN  x.moving => x.time <= Scale
<1>1. PICK y : y = Limited(Targeted(ax, id), id)
  OBVIOUS
<1>2. Typed(y) /\ \A a \in Axes : d[a] \in Durations /\ e[a] \in Durations
  BY <1>1, TargetedAndLimited DEF Times
<1>3. \A a \in Axes : Waiting(y[a])
  <2> TAKE a \in Axes
  <2>1. y[a] = SetLimits(SetTarget(ax[a], id), id) /\ Axis(ax[a])
    BY <1>1 DEF Limited, Targeted, Typed
  <2> QED
    BY <2>1 DEF SetLimits, SetTarget, Waiting, Axis, AxisStates
<1>4. CASE home
  <2>1. Loaded(ax, id, home, d) = y
    BY <1>1, <1>4 DEF Loaded
  <2>2. \A a \in Axes : Fresh(Clock(y[a], a, e[a]))
    BY <1>2, <1>3, ClockFromRest DEF Typed, Waiting
  <2>3. \A a \in Axes : Clocked(y, e)[a] = Clock(y[a], a, e[a])
    BY DEF Clocked
  <2> QED
    BY <2>1, <2>2, <2>3, ControlAssumption DEF Fresh
<1>5. CASE ~home
  <2>1. PICK z : z = Clocked(y, d)
    OBVIOUS
  <2>2. Typed(z) /\ \A a \in Axes : Planned(z[a])
    <3>1. \A a \in Axes : z[a] = Clock(y[a], a, d[a])
      BY <2>1 DEF Clocked
    <3>2. \A a \in Axes : Planned(z[a])
      BY <1>2, <1>3, <3>1, ClockFromRest DEF Typed, Waiting
    <3> QED
      BY <1>2, <2>1, <3>2, ClockedIs
  <2>3. PICK w : w = Rescale(z)
    OBVIOUS
  <2>4. Typed(w) /\ \A a \in Axes : Planned(w[a]) /\ w[a].timebase <= Scale
    BY <2>2, <2>3, RescaleIs, RescaleSlows
  <2>5. Loaded(ax, id, home, d) = w
    BY <1>1, <1>5, <2>1, <2>3 DEF Loaded
  <2>6. \A a \in Axes : Clocked(w, e)[a] = Clock(w[a], a, e[a])
    BY DEF Clocked
  <2> QED
    BY <1>2, <2>4, <2>5, <2>6, FirstClock DEF Typed
<1> QED
  BY <1>4, <1>5

(* While the board is not in automatic mode, what the console's load has   *)
(* gone through is at rest, or planned and not begun.                      *)
ConsoleWaits ==
  control_mode # "AUTO" =>
    /\ command.step \in {"target yaw", "limits pitch", "limits yaw", "clock pitch"}
         => ~axis["pitch"].moving
    /\ command.step \in {"limits pitch", "limits yaw", "clock pitch", "clock yaw"}
         => ~axis["yaw"].moving
    /\ command.step \in {"clock yaw", "rescale", "mode"} => Fresh(axis["pitch"])
    /\ command.step \in {"rescale", "mode"} => Fresh(axis["yaw"])

LEMMA LoopWaits ==
  ASSUME ControlInv, ConsoleWaits, Loop
  PROVE  ConsoleWaits'
<1>1. UNCHANGED command
  BY DEF Loop, Pass, PassLoads
<1>2. (control_mode # "AUTO" /\ UNCHANGED <<axis, control_mode>>) \/ control_mode' = "AUTO"
        \/ axis' = [a \in Axes |-> ResetAxis]
  BY DEF Loop, Pass, PassLoads, Control
<1>3. CASE axis' = [a \in Axes |-> ResetAxis]
  <2>1. ~axis'["pitch"].moving /\ ~axis'["yaw"].moving
    BY <1>3 DEF Axes, ResetAxis
  <2> QED
    BY <2>1 DEF ConsoleWaits, Fresh
<1> QED
  BY <1>1, <1>2, <1>3 DEF ConsoleWaits, Fresh

LEMMA StatementWaits ==
  ASSUME ControlInv, ConsoleWaits, Console
  PROVE  ConsoleWaits'
<1>1. /\ Axis(axis["pitch"]) /\ Axis(axis["yaw"]) /\ axis \in [Axes -> AxisStates]
      /\ command.id \in LoadIds /\ "pitch" \in Axes /\ "yaw" \in Axes
      /\ command \in [step : Statements, id : LoadIds, home : BOOLEAN]
  BY DEF ControlInv, ConsoleOK, Typed, Axes
<1>2. CASE ConsoleSetsMode
  BY <1>2 DEF ConsoleSetsMode, ConsoleWaits
<1>3. SUFFICES ASSUME control_mode # "AUTO", control_mode' = control_mode, ~ConsoleSetsMode
               PROVE  ConsoleWaits'
  BY <1>2 DEF Console, ConsoleTargets, ConsoleLimits, ConsoleClocks, ConsoleRescales, ConsoleWaits
<1>4. CASE ConsoleTargets
  <2>1. ~SetTarget(axis["pitch"], command.id).moving /\ ~SetTarget(axis["yaw"], command.id).moving
    BY <1>1, SetTargetIs
  <2>2. \/ /\ axis' = [axis EXCEPT !["pitch"] = SetTarget(axis["pitch"], command.id)]
           /\ command'.step = "target yaw"
        \/ /\ axis' = [axis EXCEPT !["yaw"] = SetTarget(axis["yaw"], command.id)]
           /\ command.step = "target yaw" /\ command'.step = "limits pitch"
    BY <1>1, <1>4 DEF ConsoleTargets, Statement
  <2> QED
    BY <1>1, <1>3, <2>1, <2>2 DEF ConsoleWaits
<1>5. CASE ConsoleLimits
  <2>1. /\ SetLimits(axis["pitch"], command.id).moving = axis["pitch"].moving
        /\ SetLimits(axis["yaw"], command.id).moving = axis["yaw"].moving
    BY <1>1, SetLimitsIs
  <2>2. ~axis["pitch"].moving /\ ~axis["yaw"].moving
    BY <1>3, <1>5 DEF ConsoleLimits, Statement, ConsoleWaits
  <2>3. \/ axis' = [axis EXCEPT !["pitch"] = SetLimits(axis["pitch"], command.id)]
        \/ axis' = [axis EXCEPT !["yaw"] = SetLimits(axis["yaw"], command.id)]
    BY <1>1, <1>5 DEF ConsoleLimits
  <2>4. ~axis'["pitch"].moving /\ ~axis'["yaw"].moving
    BY <1>1, <2>1, <2>2, <2>3
  <2> QED
    BY <2>4 DEF ConsoleWaits, Fresh
<1>6. CASE ConsoleClocks
  <2>1. PICK d \in Durations :
          \/ /\ command.step = "clock pitch" /\ command'.step = "clock yaw"
             /\ axis' = [axis EXCEPT !["pitch"] = Clock(axis["pitch"], "pitch", d)]
          \/ /\ command.step = "clock yaw" /\ command'.step = "rescale"
             /\ axis' = [axis EXCEPT !["yaw"] = Clock(axis["yaw"], "yaw", d)]
    BY <1>1, <1>6 DEF ConsoleClocks, Statement
  <2>2. CASE command.step = "clock pitch"
    <3>1. ~axis["pitch"].moving /\ ~axis["yaw"].moving
      BY <1>3, <2>2 DEF ConsoleWaits
    <3>2. Fresh(Clock(axis["pitch"], "pitch", d))
      BY <1>1, <3>1, ClockFromRest
    <3>3. Fresh(axis'["pitch"]) /\ ~axis'["yaw"].moving /\ command'.step = "clock yaw"
      BY <1>1, <2>1, <2>2, <3>1, <3>2
    <3> QED
      BY <3>3 DEF ConsoleWaits
  <2>3. CASE command.step = "clock yaw"
    <3>1. Fresh(axis["pitch"]) /\ ~axis["yaw"].moving
      BY <1>3, <2>3 DEF ConsoleWaits
    <3>2. Fresh(Clock(axis["yaw"], "yaw", d))
      BY <1>1, <3>1, ClockFromRest
    <3>3. Fresh(axis'["pitch"]) /\ Fresh(axis'["yaw"]) /\ command'.step = "rescale"
      BY <1>1, <2>1, <2>3, <3>1, <3>2
    <3> QED
      BY <3>3 DEF ConsoleWaits
  <2> QED
    BY <2>1, <2>2, <2>3
<1>7. CASE ConsoleRescales
  <2>1. axis' = Rescale(axis) /\ command'.step = "mode"
    BY <1>1, <1>7 DEF ConsoleRescales, Statement
  <2>2. Fresh(axis["pitch"]) /\ Fresh(axis["yaw"])
    BY <1>3, <1>7 DEF ConsoleRescales, Statement, ConsoleWaits
  <2>3. \A a \in Axes : Rescale(axis)[a].moving = axis[a].moving /\ Rescale(axis)[a].time = axis[a].time
    <3> TAKE a \in Axes
    <3>1. PICK n : Rescale(axis)[a] = [axis[a] EXCEPT !.timebase = n]
      BY DEF Rescale
    <3> QED
      BY <1>1, <3>1 DEF AxisStates
  <2> QED
    BY <1>1, <2>1, <2>2, <2>3 DEF ConsoleWaits, Fresh
<1> QED
  BY <1>3, <1>4, <1>5, <1>6, <1>7 DEF Console

(* Whoever starts an automatic move, and whatever was aborted or switched  *)
(* to manual mode before: an axis that moves when automatic mode begins    *)
(* has been planned by the load that began it.                             *)
THEOREM AbortedMovesStayAborted == Spec => NeverResumes
<1>1. Init => ConsoleWaits
  BY DEF Init, Idle, ConsoleWaits
<1>2. ControlInv /\ ConsoleWaits /\ [Next]_vars => ConsoleWaits'
  <2> SUFFICES ASSUME ControlInv, ConsoleWaits, [Next]_vars PROVE ConsoleWaits'
    OBVIOUS
  <2>1. CASE Loop
    BY <2>1, LoopWaits
  <2>2. CASE \E home \in BOOLEAN : ConsoleStarts(home)
    <3>0. PICK home \in BOOLEAN : ConsoleStarts(home)
      BY <2>2
    <3>1. command'.step = "target pitch"
      BY <3>0 DEF ConsoleStarts
    <3> QED
      BY <3>1 DEF ConsoleWaits
  <2>3. CASE ManualCommand
    <3>1. command'.step = "none"
      BY <2>3 DEF ManualCommand, Idle
    <3> QED
      BY <3>1 DEF ConsoleWaits
  <2>4. CASE Console
    BY <2>4, StatementWaits
  <2>5. CASE UNCHANGED vars
    BY <2>5 DEF vars, ConsoleWaits, Fresh
  <2> QED
    BY <2>1, <2>2, <2>3, <2>4, <2>5 DEF Next
<1>3. ControlInv /\ ConsoleWaits /\ [Next]_vars =>
        [control_mode # "AUTO" /\ control_mode' = "AUTO"
           => \A a \in Axes : Moving(a)' => axis'[a].time <= Scale]_vars
  <2> SUFFICES ASSUME ControlInv, ConsoleWaits, [Next]_vars,
                      control_mode # "AUTO", control_mode' = "AUTO"
               PROVE  \A a \in Axes : axis'[a].moving => axis'[a].time <= Scale
    BY Zenon DEF Moving
  <2>1. ConsoleSetsMode \/ \E home \in BOOLEAN : PassLoads(home)
    BY DEF Next, Loop, Pass, Control, ConsoleStarts, ManualCommand, Console, ConsoleTargets,
           ConsoleLimits, ConsoleClocks, ConsoleRescales, vars
  <2>2. CASE ConsoleSetsMode
    <3>1. Fresh(axis["pitch"]) /\ Fresh(axis["yaw"]) /\ UNCHANGED axis
      BY <2>2 DEF ConsoleSetsMode, ConsoleWaits
    <3> QED
      BY <3>1, ControlAssumption DEF Fresh, Axes
  <2>3. CASE \E home \in BOOLEAN : PassLoads(home)
    <3>1. PICK home \in BOOLEAN : PassLoads(home)
      BY <2>3
    <3>2. loads' \in LoadIds
      BY <3>1, OneMoreLoad DEF PassLoads, ControlInv, ConsoleOK
    <3>3. PICK d \in Times : Control(Loaded(axis, loads', home, d), "AUTO", {d})
      BY <3>1 DEF PassLoads
    <3>4. PICK id \in LoadIds : id = loads'
      BY <3>2
    <3>5. Control(Loaded(axis, id, home, d), "AUTO", {d})
      BY <3>3, <3>4, Zenon
    <3>6. axis' = Clocked(Loaded(axis, id, home, d), d)
      BY <3>5 DEF Control
    <3> QED
      BY <3>6, LoadedBegins DEF ControlInv
  <2> QED
    BY <2>1, <2>2, <2>3
<1> QED
  BY <1>1, <1>2, <1>3, ControlInductive, PTL DEF Spec, NeverResumes

-----------------------------------------------------------------------------
(* Two axes that arrive together.                                          *)

LEMMA RunFields ==
  ASSUME NEW x, Axis(x), NEW e \in Nat
  PROVE  /\ Run(x, e).time = x.time + e
         /\ Run(x, e).completed <=> x.time + e >= x.total
         /\ Run(x, e).total = x.total /\ Run(x, e).timebase = x.timebase
         /\ Run(x, e).start = x.start
<1>1. x.time + e \in Nat /\ (x.time + e >= x.total) \in BOOLEAN
  BY DEF Axis, AxisStates
<1>2. PICK t \in Nat : t = x.time + e
  BY <1>1
<1>3. PICK c \in BOOLEAN : c = (x.time + e >= x.total)
  BY <1>1
<1>4. Run(x, e) = [x EXCEPT !.time = t, !.completed = c, !.driven = TRUE]
  BY <1>2, <1>3 DEF Run, Axis, AxisStates
<1> QED
  BY <1>2, <1>3, <1>4 DEF Axis, AxisStates

(* A clock plans nothing that was not asked for: it carries a move on, or  *)
(* the axis does not move afterwards.                                      *)
LEMMA ClockCarriesOn ==
  ASSUME NEW x, Axis(x), ~x.start, NEW a \in Axes, NEW d \in Durations
  PROVE  /\ ~Clock(x, a, d).start
         /\ x.moving /\ ~x.completed => Clock(x, a, d) = Run(x, x.timebase)
         /\ ~(x.moving /\ ~x.completed) => ~Clock(x, a, d).moving
<1>1. PICK z : z = Arrive(x, a)
  OBVIOUS
<1>2. /\ Axis(z) /\ ~z.start
      /\ x.moving /\ ~x.completed => z = x
      /\ ~(x.moving /\ ~x.completed) => ~z.moving
  <2>1. Axis(z)
    BY <1>1, ArriveIs
  <2>2. CASE x.moving /\ x.completed
    <3>1. z = [x EXCEPT !.moving = FALSE, !.settling = TRUE, !.settle_time = Settle[a]]
      BY <1>1, <2>2 DEF Arrive
    <3> QED
      BY <2>1, <2>2, <3>1 DEF Axis, AxisStates
  <2>3. CASE ~(x.moving /\ x.completed)
    <3>1. z = x
      BY <1>1, <2>3 DEF Arrive
    <3> QED
      BY <2>1, <2>3, <3>1
  <2> QED
    BY <2>2, <2>3
<1>3. PICK y : y = Advance(z)
  OBVIOUS
<1>4. Axis(y) /\ y.moving = z.moving
  BY <1>2, <1>3, AdvanceIs
<1>5. ~y.start
  <2>1. CASE z.moving
    <3>1. y = Run(z, z.timebase) /\ z.timebase \in Nat
      BY <1>2, <1>3, <2>1 DEF Advance, Axis, AxisStates
    <3> QED
      BY <1>2, <3>1, RunFields
  <2>2. CASE ~z.moving /\ z.settling /\ z.settle_time > 0
    <3>1. PICK w : w = [z EXCEPT !.settle_time = @ - 1]
      OBVIOUS
    <3>2. Axis(w) /\ ~w.start
      BY <1>2, <2>2, <3>1 DEF Axis, AxisStates
    <3>3. y = Run(w, Scale) /\ Scale \in Nat
      BY <1>3, <2>2, <3>1, ControlAssumption DEF Advance
    <3> QED
      BY <3>2, <3>3, RunFields
  <2>3. CASE ~z.moving /\ ~(z.settling /\ z.settle_time > 0)
    <3>1. y = Still(z)
      BY <1>3, <2>3 DEF Advance
    <3> QED
      BY <1>2, <3>1 DEF Still, Axis, AxisStates
  <2> QED
    BY <2>1, <2>2, <2>3
<1>6. Clock(x, a, d) = y
  BY <1>1, <1>3, <1>5 DEF Clock
<1>7. x.moving /\ ~x.completed => y = Run(x, x.timebase)
  BY <1>2, <1>3 DEF Advance
<1> QED
  BY <1>2, <1>4, <1>5, <1>6, <1>7

(* After n clocks of a move that takes k ticks, y is as far behind its     *)
(* time as it is slowed down: it is completed by the same clock as x.      *)
InStep(x, y) ==
  \E n, k \in Nat :
    /\ x.timebase = Scale /\ x.time = n * Scale /\ x.total = k * Scale
    /\ y.time = n * y.timebase
    /\ (k - 1) * y.timebase < y.total /\ y.total <= k * y.timebase
    /\ x.completed <=> y.completed

LEMMA TicksCompare ==
  ASSUME NEW n \in Nat, NEW k \in Nat, NEW s \in Nat
  PROVE  /\ n >= k => n * s >= k * s
         /\ n <= k - 1 => n * s <= (k - 1) * s
<1>1. \A c, e \in Nat : (c + e) * s = c * s + e * s /\ e * s \in Nat /\ c * s \in Nat
  OBVIOUS
<1>2. ASSUME n >= k PROVE n * s >= k * s
  <2>1. PICK e \in Nat : n = k + e
    <3>1. n - k \in Nat /\ n = k + (n - k)
      BY <1>2
    <3> QED
      BY <3>1
  <2> QED
    BY <1>1, <2>1
<1>3. ASSUME n <= k - 1 PROVE n * s <= (k - 1) * s
  <2>1. PICK e \in Nat : k - 1 = n + e
    <3>1. (k - 1) - n \in Nat /\ k - 1 = n + ((k - 1) - n)
      BY <1>3
    <3> QED
      BY <3>1
  <2> QED
    BY <1>1, <2>1
<1> QED
  BY <1>2, <1>3

LEMMA RunsInStep ==
  ASSUME NEW x, Axis(x), NEW y, Axis(y), InStep(x, y)
  PROVE  InStep(Run(x, x.timebase), Run(y, y.timebase))
<1>1. PICK n \in Nat, k \in Nat :
        /\ x.timebase = Scale /\ x.time = n * Scale /\ x.total = k * Scale
        /\ y.time = n * y.timebase
        /\ (k - 1) * y.timebase < y.total /\ y.total <= k * y.timebase
  BY DEF InStep
<1>2. PICK s \in Nat \ {0} : s = Scale
  BY ControlAssumption
<1>3. PICK t \in Nat : t = y.timebase
  BY DEF Axis, AxisStates
<1>4. PICK w \in Nat : w = y.total
  BY DEF Axis, AxisStates
<1>5. PICK m \in Nat : m = n + 1
  OBVIOUS
<1>6. n * s + s = m * s /\ n * t + t = m * t
  BY <1>5
<1>7. m * s >= k * s <=> m >= k
  <2>1. m >= k => m * s >= k * s
    BY TicksCompare
  <2>2. m <= k - 1 => m * s < k * s
    <3>1. m <= k - 1 => m * s <= (k - 1) * s
      BY TicksCompare
    <3>2. (k - 1) * s = k * s - s /\ k * s \in Nat /\ m * s \in Nat
      OBVIOUS
    <3> QED
      BY <3>1, <3>2
  <2>3. m >= k \/ m <= k - 1
    OBVIOUS
  <2>4. m * s \in Nat /\ k * s \in Nat
    OBVIOUS
  <2> QED
    BY <2>1, <2>2, <2>3, <2>4
<1>8. m * t >= w <=> m >= k
  <2>1. (k - 1) * t < w /\ w <= k * t
    BY <1>1, <1>3, <1>4
  <2>2. m >= k => m * t >= k * t
    BY TicksCompare
  <2>3. m <= k - 1 => m * t <= (k - 1) * t
    BY TicksCompare
  <2>4. m * t \in Nat /\ k * t \in Nat /\ (k - 1) * t \in Int
    OBVIOUS
  <2> QED
    BY <2>1, <2>2, <2>3, <2>4
<1>9. PICK u : u = Run(x, x.timebase)
  OBVIOUS
<1>10. PICK v : v = Run(y, y.timebase)
  OBVIOUS
<1>11. /\ u.time = n * s + s /\ (u.completed <=> n * s + s >= k * s)
       /\ u.total = k * s /\ u.timebase = s
  BY <1>1, <1>2, <1>9, RunFields
<1>12. /\ v.time = n * t + t /\ (v.completed <=> n * t + t >= w)
       /\ v.total = w /\ v.timebase = t
  BY <1>1, <1>3, <1>4, <1>10, RunFields
<1>13. u.time = m * s /\ v.time = m * t /\ (u.completed <=> v.completed)
  BY <1>6, <1>7, <1>8, <1>11, <1>12
<1>14. InStep(u, v)
  BY <1>1, <1>2, <1>3, <1>4, <1>11, <1>12, <1>13 DEF InStep
<1> QED
  BY <1>9, <1>10, <1>14

(* No move waits for a clock that may plan it, and two moves of which one  *)
(* is slowed down are in step.                                             *)
InTime(ax) ==
  /\ \A a \in Axes : ~ax[a].start
  /\ (\A a \in Axes : ax[a].moving) /\ (\E c \in Axes : ax[c].timebase < Scale)
       => InStep(ax["pitch"], ax["yaw"]) \/ InStep(ax["yaw"], ax["pitch"])

LEMMA ClockedInTime ==
  ASSUME NEW ax, Typed(ax), InTime(ax), NEW d \in Times
  PROVE  InTime(Clocked(ax, d))
<1>1. PICK w : w = Clocked(ax, d)
  OBVIOUS
<1>2. ASSUME NEW a \in Axes
      PROVE  /\ ~w[a].start
             /\ w[a].moving => ax[a].moving /\ w[a] = Run(ax[a], ax[a].timebase)
             /\ w[a].moving => w[a].timebase = ax[a].timebase
  <2>1. w[a] = Clock(ax[a], a, d[a]) /\ d[a] \in Durations
    BY <1>1 DEF Clocked, Times
  <2>2. Axis(ax[a]) /\ ~ax[a].start
    BY DEF Typed, InTime
  <2>3. /\ ~w[a].start
        /\ ax[a].moving /\ ~ax[a].completed => w[a] = Run(ax[a], ax[a].timebase)
        /\ ~(ax[a].moving /\ ~ax[a].completed) => ~w[a].moving
    BY <2>1, <2>2, ClockCarriesOn
  <2>4. ax[a].timebase \in Nat
    BY <2>2 DEF Axis, AxisStates
  <2> QED
    BY <2>2, <2>3, <2>4, RunFields
<1>3. ASSUME \A a \in Axes : w[a].moving, NEW c \in Axes, w[c].timebase < Scale
      PROVE  InStep(w["pitch"], w["yaw"]) \/ InStep(w["yaw"], w["pitch"])
  <2>1. "pitch" \in Axes /\ "yaw" \in Axes
    BY DEF Axes
  <2>2. (\A a \in Axes : ax[a].moving) /\ ax[c].timebase < Scale
    BY <1>2, <1>3
  <2>3. InStep(ax["pitch"], ax["yaw"]) \/ InStep(ax["yaw"], ax["pitch"])
    BY <2>2 DEF InTime
  <2>4. Axis(ax["pitch"]) /\ Axis(ax["yaw"])
    BY <2>1 DEF Typed
  <2>5. /\ w["pitch"] = Run(ax["pitch"], ax["pitch"].timebase)
        /\ w["yaw"] = Run(ax["yaw"], ax["yaw"].timebase)
    BY <1>2, <1>3, <2>1
  <2> QED
    BY <2>3, <2>4, <2>5, RunsInStep
<1> QED
  BY <1>1, <1>2, <1>3 DEF InTime

(* The ratio, rounded up, takes a move of s ticks to its end in t clocks,  *)
(* and, the resolution being fine enough, not in t - 1.                    *)
LEMMA RatioFits ==
  ASSUME NEW s \in Durations, NEW t \in Durations, s <= t,
         Ratio(s * Scale, t * Scale) < Scale
  PROVE  LET q == Ratio(s * Scale, t * Scale)
         IN  (t - 1) * q < s * Scale /\ s * Scale <= t * q
<1>1. s \in Nat /\ t \in Nat /\ Scale \in Nat \ {0} /\ MinTime \in Nat
  BY ControlAssumption
<1>2. PICK z \in Nat \ {0} : z = Scale
  BY <1>1
<1>3. PICK b \in Nat : b = s * z
  BY <1>1
<1>4. PICK c \in Nat : c = t * z
  BY <1>1
<1>5. Abs(b) = b /\ Abs(c) = c /\ MinTime * z \in Nat
  BY <1>1 DEF Abs
<1>6. b > MinTime * z /\ 20 * c > b
  BY <1>1, <1>2, <1>3, <1>4, <1>5 DEF Ratio
<1>7. c \in Nat \ {0} /\ b > 0
  BY <1>5, <1>6
<1>8. t \in Nat \ {0} /\ s > 0
  BY <1>1, <1>3, <1>4, <1>7
<1>9. PICK m \in Nat : m = b * z + (c - 1)
  <2>1. b * z \in Nat
    OBVIOUS
  <2> QED
    BY <1>7, <2>1
<1>10. Ratio(b, c) = m \div c
  BY <1>2, <1>5, <1>6, <1>9 DEF Ratio
<1>11. PICK q \in Nat : q = m \div c
  BY <1>7, QuotientIsNatural
<1>12. PICK r \in 0 .. c - 1 : r = m % c
  BY <1>7
<1>13. m = q * c + r
  BY <1>7, <1>11, <1>12
<1>14. PICK e \in Nat : e = q * t
  BY <1>1
<1>15. q * c = e * z
  BY <1>1, <1>4, <1>14
<1>16. e * z + r = b * z + (c - 1)
  BY <1>9, <1>13, <1>15
<1>17. b <= e
  <2>1. e * z >= b * z
    BY <1>12, <1>16
  <2>2. PICK f \in Int : f = e - b
    OBVIOUS
  <2>3. f * z >= 0
    BY <2>1, <2>2
  <2>4. f >= 0
    BY <2>3
  <2> QED
    BY <2>2, <2>4
<1>18. e < b + t
  <2>1. e * z < b * z + t * z
    BY <1>4, <1>12, <1>16
  <2>2. PICK f \in Int : f = e - b - t
    BY <1>1
  <2>3. f * z < 0
    <3>1. f * z = e * z - b * z - t * z
      BY <1>1, <2>2
    <3> QED
      BY <1>1, <2>1, <3>1
  <2>4. f < 0
    BY <2>3
  <2> QED
    BY <1>1, <2>2, <2>4
<1>19. (t - 1) * q < b
  <2>1. (t - 1) * q = e - q
    BY <1>1, <1>14
  <2>2. CASE q >= t
    BY <1>1, <1>18, <2>1, <2>2
  <2>3. CASE q <= t - 1
    <3>1. (t - 1) * (t - 1) < s * Scale
      BY <1>8, ResolutionAssumption
    <3>2. PICK g \in Nat : g = t - 1
      BY <1>8
    <3>3. g * q <= g * g
      <4>1. PICK h \in Nat : g = q + h
        <5>1. g - q \in Nat /\ g = q + (g - q)
          BY <2>3, <3>2
        <5> QED
          BY <5>1
      <4>2. g * g = g * q + g * h /\ g * h \in Nat /\ g * q \in Nat
        BY <4>1
      <4> QED
        BY <4>2
    <3>4. g * g < b
      BY <1>2, <1>3, <3>1, <3>2
    <3>5. g * q \in Nat /\ g * g \in Nat
      OBVIOUS
    <3> QED
      BY <3>2, <3>3, <3>4, <3>5
  <2> QED
    BY <1>1, <2>2, <2>3
<1>20. Ratio(s * Scale, t * Scale) = q
  BY <1>2, <1>3, <1>4, <1>10, <1>11
<1> QED
  <2>1. b = s * Scale /\ t * q = e
    BY <1>1, <1>2, <1>3, <1>14
  <2> QED
    BY <1>17, <1>19, <1>20, <2>1

(* The faster of two moves that begin, slowed down to n, is in step.       *)
LEMMA BeginInStep ==
  ASSUME NEW x, Axis(x), NEW y, Axis(y), NEW s \in Durations, NEW t \in Durations,
         Begun(x, t), Begun(y, s), NEW n \in Nat,
         (t - 1) * n < s * Scale, s * Scale <= t * n,
         NEW v, v = [y EXCEPT !.timebase = n]
  PROVE  InStep(x, v)
<1>1. t \in Nat /\ s * Scale \in Nat /\ Scale \in Nat
  BY ControlAssumption
<1>2. PICK w \in Nat : w = s * Scale
  BY <1>1
<1>3. /\ v.timebase = n /\ v.time = 0 /\ ~v.completed /\ v.total = w
      /\ x.timebase = Scale /\ x.time = 0 /\ ~x.completed /\ x.total = t * Scale
  BY <1>2 DEF Begun, Planned, Axis, AxisStates
<1>4. 0 * Scale = 0 /\ 0 * n = 0
  BY <1>1
<1> QED
  BY <1>1, <1>2, <1>3, <1>4 DEF InStep

LEMMA RescaledInTime ==
  ASSUME NEW ax, Typed(ax), NEW d \in Times, \A a \in Axes : Begun(ax[a], d[a])
  PROVE  InTime(Rescale(ax))
<1>1. "pitch" \in Axes /\ "yaw" \in Axes /\ \A a \in Axes : a = "pitch" \/ a = "yaw"
  BY DEF Axes
<1>2. PICK p \in Durations : p = d["pitch"]
  BY <1>1 DEF Times
<1>3. PICK y \in Durations : y = d["yaw"]
  BY <1>1 DEF Times
<1>4. /\ Axis(ax["pitch"]) /\ Axis(ax["yaw"])
      /\ Begun(ax["pitch"], p) /\ Begun(ax["yaw"], y)
  BY <1>1, <1>2, <1>3 DEF Typed
<1>5. p \in Nat /\ y \in Nat /\ p * Scale \in Nat /\ y * Scale \in Nat /\ Scale \in Nat \ {0}
  BY ControlAssumption
<1>6. Remaining(ax["pitch"]) = p * Scale /\ Remaining(ax["yaw"]) = y * Scale
  BY <1>4, <1>5 DEF Remaining, Begun, Planned
<1>7. {Remaining(ax[a]) : a \in Axes} = {p * Scale, y * Scale}
  BY <1>6 DEF Axes
<1>8. PICK w : w = Rescale(ax)
  OBVIOUS
<1>9. \A a \in Axes : ~w[a].start
  <2> TAKE a \in Axes
  <2>1. PICK n : w[a] = [ax[a] EXCEPT !.timebase = n]
    BY <1>8 DEF Rescale
  <2>2. Axis(ax[a]) /\ Begun(ax[a], d[a])
    BY DEF Typed
  <2> QED
    BY <2>1, <2>2 DEF Begun, Axis, AxisStates
<1>10. ASSUME NEW s \in Durations, NEW t \in Durations, NEW f \in Axes, NEW g \in Axes, f # g,
              Slower(ax) = g, Begun(ax[f], s), Begun(ax[g], t), s <= t,
              {Remaining(ax[a]) : a \in Axes} = {s * Scale, t * Scale},
              \E c \in Axes : w[c].timebase < Scale
       PROVE  InStep(w[g], w[f])
  <2>1. s \in Nat /\ t \in Nat
    BY ControlAssumption
  <2>2. PICK b \in Nat : b = s * Scale
    BY <1>5, <2>1
  <2>3. PICK c \in Nat : c = t * Scale
    BY <1>5, <2>1
  <2>4. b <= c
    BY <1>5, <1>10, <2>1, <2>2, <2>3
  <2>5. Min({b, c}) = b /\ Max({b, c}) = c
    <3>1. \E x \in {b, c} : \A z \in {b, c} : x <= z
      BY <2>4
    <3>2. \E x \in {b, c} : \A z \in {b, c} : x >= z
      BY <2>4
    <3>3. Min({b, c}) \in {b, c} /\ \A z \in {b, c} : Min({b, c}) <= z
      BY <3>1 DEF Min
    <3>4. Max({b, c}) \in {b, c} /\ \A z \in {b, c} : Max({b, c}) >= z
      BY <3>2 DEF Max
    <3> QED
      BY <2>4, <3>3, <3>4
  <2>6. PICK n \in Nat : n = Ratio(s * Scale, t * Scale)
    BY <2>2, <2>3, RatioIsNatural
  <2>7. \A a \in Axes : w[a] = [ax[a] EXCEPT !.timebase = IF a # g THEN n ELSE Scale]
    BY <1>8, <1>10, <2>2, <2>3, <2>5, <2>6, Zenon DEF Rescale
  <2>8. w[f] = [ax[f] EXCEPT !.timebase = n] /\ w[g] = [ax[g] EXCEPT !.timebase = Scale]
    BY <1>10, <2>7, Zenon
  <2>9. Axis(ax[f]) /\ Axis(ax[g])
    BY DEF Typed
  <2>10. w[g] = ax[g]
    BY <1>10, <2>8, <2>9 DEF Begun, Axis, AxisStates
  <2>11. w[f].timebase = n /\ w[g].timebase = Scale
    BY <1>5, <2>8, <2>9 DEF Axis, AxisStates
  <2>12. n < Scale
    <3>1. \A a \in Axes : a = f \/ a = g
      BY <1>1, <1>10
    <3> QED
      BY <1>5, <1>10, <2>11, <3>1
  <2>13. (t - 1) * n < s * Scale /\ s * Scale <= t * n
    BY <1>10, <2>6, <2>12, RatioFits
  <2>14. InStep(ax[g], w[f])
    BY <1>10, <2>8, <2>9, <2>13, BeginInStep
  <2> QED
    BY <2>10, <2>14
<1>11. ASSUME \E c \in Axes : w[c].timebase < Scale
       PROVE  InStep(w["pitch"], w["yaw"]) \/ InStep(w["yaw"], w["pitch"])
  <2>1. CASE p >= y
    <3>1. Slower(ax) = "pitch"
      <4>1. p * Scale >= y * Scale
        BY <1>5, <2>1
      <4> QED
        BY <1>6, <4>1 DEF Slower
    <3>2. y <= p /\ {Remaining(ax[a]) : a \in Axes} = {y * Scale, p * Scale}
      BY <1>5, <1>7, <2>1
    <3> QED
      BY <1>1, <1>4, <1>10, <1>11, <3>1, <3>2
  <2>2. CASE ~(p >= y)
    <3>1. Slower(ax) = "yaw"
      <4>1. ~(p * Scale >= y * Scale)
        <5>1. PICK e \in Nat \ {0} : y = p + e
          <6>1. y - p \in Nat \ {0} /\ y = p + (y - p)
            BY <1>5, <2>2
          <6> QED
            BY <6>1
        <5>2. y * Scale = p * Scale + e * Scale /\ e * Scale > 0
          BY <1>5, <5>1
        <5> QED
          BY <1>5, <5>2
      <4> QED
        BY <1>6, <4>1 DEF Slower
    <3>2. p <= y
      BY <1>5, <2>2
    <3> QED
      BY <1>1, <1>4, <1>7, <1>10, <1>11, <3>1, <3>2
  <2> QED
    BY <2>1, <2>2
<1> QED
  BY <1>8, <1>9, <1>11 DEF InTime

(* A button's load and the clock of the same pass.                         *)
LEMMA LoadedInTime ==
  ASSUME NEW ax, Typed(ax), NEW id \in LoadIds, id # 0, NEW home \in BOOLEAN,
         NEW d \in Times, NEW e \in Times
  PROVE  InTime(Clocked(Loaded(ax, id, home, d), e))
<1>1. PICK y : y = Limited(Targeted(ax, id), id)
  OBVIOUS
<1>2. Typed(y) /\ \A a \in Axes : d[a] \in Durations /\ e[a] \in Durations
  BY <1>1, TargetedAndLimited DEF Times
<1>3. \A a \in Axes : Axis(y[a]) /\ Waiting(y[a]) /\ y[a].limits # 0
  <2> TAKE a \in Axes
  <2>1. y[a] = SetLimits(SetTarget(ax[a], id), id) /\ Axis(ax[a])
    BY <1>1 DEF Limited, Targeted, Typed
  <2>2. Axis(y[a])
    BY <1>2 DEF Typed
  <2> QED
    BY <2>1, <2>2 DEF SetLimits, SetTarget, Waiting, Axis, AxisStates
<1>4. CASE home
  <2>1. PICK w : w = Clocked(y, e)
    OBVIOUS
  <2>2. \A a \in Axes : w[a] = Clock(y[a], a, e[a])
    BY <2>1 DEF Clocked
  <2>3. \A a \in Axes : Begun(w[a], e[a])
    BY <1>2, <1>3, <2>2, ClockBegins
  <2>4. InTime(w)
    BY <2>3, ControlAssumption DEF Begun, InTime
  <2>5. Loaded(ax, id, home, d) = y
    BY <1>1, <1>4 DEF Loaded
  <2> QED
    BY <2>1, <2>4, <2>5
<1>5. CASE ~home
  <2>1. PICK z : z = Clocked(y, d)
    OBVIOUS
  <2>2. Typed(z)
    BY <1>2, <2>1, ClockedIs
  <2>3. \A a \in Axes : Begun(z[a], d[a])
    BY <1>2, <1>3, <2>1, ClockBegins DEF Clocked
  <2>4. Typed(Rescale(z)) /\ InTime(Rescale(z))
    BY <2>2, <2>3, RescaleIs, RescaledInTime
  <2>5. Loaded(ax, id, home, d) = Rescale(z)
    BY <1>1, <1>5, <2>1 DEF Loaded
  <2> QED
    BY <2>4, <2>5, ClockedInTime
<1> QED
  BY <1>4, <1>5

LEMMA ResetInTime == InTime([a \in Axes |-> ResetAxis])
BY DEF InTime, ResetAxis, Axes

(* Two moves in time, or two of one load that the next clock plans.        *)
OnTime(ax) == InTime(ax) \/ \A a \in Axes : Waiting(ax[a]) /\ ax[a].limits # 0

LEMMA ClockedOnTime ==
  ASSUME NEW ax, Typed(ax), OnTime(ax), NEW d \in Times
  PROVE  InTime(Clocked(ax, d))
<1>1. CASE InTime(ax)
  BY <1>1, ClockedInTime
<1>2. CASE \A a \in Axes : Waiting(ax[a]) /\ ax[a].limits # 0
  <2>1. \A a \in Axes : Begun(Clocked(ax, d)[a], d[a])
    BY <1>2, ClockBegins DEF Typed, Clocked, Times
  <2> QED
    BY <2>1, ControlAssumption DEF Begun, InTime
<1> QED
  BY <1>1, <1>2 DEF OnTime

(* Unless it is torn, a load leaves its two moves on time, and every pass  *)
(* keeps them so.                                                          *)
LoadsOnTime == ~torn /\ command.step \in {"none", "mode"} => OnTime(axis)

LEMMA LoopOnTime ==
  ASSUME ControlInv, LoadsOnTime, Loop
  PROVE  LoadsOnTime'
<1> SUFFICES ASSUME ~torn', command'.step \in {"none", "mode"} PROVE OnTime(axis')
  BY DEF LoadsOnTime
<1>1. Typed(axis)
  BY DEF ControlInv
<1>2. CASE Pass
  <2>1. OnTime(axis)
    BY <1>2 DEF Pass, LoadsOnTime
  <2>2. \/ axis' = axis \/ axis' = [a \in Axes |-> ResetAxis]
        \/ \E d \in Times : axis' = Clocked(axis, d)
    BY <1>2 DEF Pass, Control
  <2> QED
    BY <1>1, <2>1, <2>2, ClockedOnTime, ResetInTime DEF OnTime
<1>3. ASSUME NEW home \in BOOLEAN, PassLoads(home) PROVE OnTime(axis')
  <2>1. loads' \in LoadIds /\ loads' # 0
    BY <1>3, OneMoreLoad DEF PassLoads, ControlInv, ConsoleOK
  <2>2. PICK d \in Times : Control(Loaded(axis, loads', home, d), "AUTO", {d})
    BY <1>3 DEF PassLoads
  <2>3. PICK id \in LoadIds : id = loads'
    BY <2>1
  <2>4. Control(Loaded(axis, id, home, d), "AUTO", {d})
    BY <2>2, <2>3, Zenon
  <2>5. \/ axis' = Clocked(Loaded(axis, id, home, d), d)
        \/ axis' = [a \in Axes |-> ResetAxis]
    BY <2>4 DEF Control
  <2> QED
    BY <1>1, <2>1, <2>3, <2>5, LoadedInTime, ResetInTime DEF OnTime
<1> QED
  BY <1>2, <1>3 DEF Loop

LEMMA ConsoleOnTime ==
  ASSUME ControlInv, LoadsOnTime, Console
  PROVE  LoadsOnTime'
<1> SUFFICES ASSUME ~torn', command'.step \in {"none", "mode"} PROVE OnTime(axis')
  BY DEF LoadsOnTime
<1>1. /\ ~torn /\ Typed(axis) /\ "pitch" \in Axes /\ "yaw" \in Axes
      /\ \A a \in Axes : a = "pitch" \/ a = "yaw"
      /\ command \in [step : Statements, id : LoadIds, home : BOOLEAN]
  BY DEF Console, ConsoleTargets, ConsoleLimits, ConsoleClocks, ConsoleRescales, ConsoleSetsMode,
         ControlInv, ConsoleOK, Axes
<1>2. ~ConsoleTargets /\ ~ConsoleClocks
  BY <1>1 DEF ConsoleTargets, ConsoleClocks, Statement
<1>3. CASE ConsoleLimits
  <2>1. /\ command.step = "limits yaw" /\ command'.step = "mode" /\ command'.id = command.id
        /\ axis' = [axis EXCEPT !["yaw"] = SetLimits(axis["yaw"], command.id)]
    BY <1>1, <1>3 DEF ConsoleLimits, Statement
  <2>2. command.id \in LoadIds /\ command.id # 0 /\ Axis(axis["yaw"]) /\ axis \in [Axes -> AxisStates]
    BY <1>1, <2>1 DEF ControlInv, ConsoleOK, Typed
  <2>3. GotLimits(axis["pitch"], command.id) /\ GotTarget(axis["yaw"], command.id)
    BY <1>1, <2>1 DEF ControlInv, Progress
  <2>4. GotLimits(SetLimits(axis["yaw"], command.id), command.id)
    BY <2>2, <2>3, LimitsAreGot
  <2>5. \A a \in Axes : GotLimits(axis'[a], command.id)
    BY <1>1, <2>1, <2>2, <2>3, <2>4
  <2> QED
    BY <2>2, <2>5 DEF OnTime, GotLimits, GotTarget
<1>4. CASE ConsoleRescales
  <2>1. command.step = "rescale" /\ axis' = Rescale(axis)
    BY <1>4 DEF ConsoleRescales, Statement
  <2>2. GotPlan(axis["pitch"], command.id) /\ GotPlan(axis["yaw"], command.id)
    BY <1>1, <2>1 DEF ControlInv, Progress
  <2>3. PICK p \in Durations, y \in Durations : Begun(axis["pitch"], p) /\ Begun(axis["yaw"], y)
    BY <2>2 DEF GotPlan
  <2>4. PICK d \in Times : d = [a \in Axes |-> IF a = "pitch" THEN p ELSE y]
    BY DEF Times
  <2>5. \A a \in Axes : Begun(axis[a], d[a])
    BY <1>1, <2>3, <2>4
  <2> QED
    BY <1>1, <2>1, <2>5, RescaledInTime DEF OnTime
<1>5. CASE ConsoleSetsMode
  BY <1>1, <1>5 DEF ConsoleSetsMode, LoadsOnTime
<1> QED
  BY <1>2, <1>3, <1>4, <1>5 DEF Console

LEMMA StaysOnTime == ControlInv /\ LoadsOnTime /\ [Next]_vars => LoadsOnTime'
<1> SUFFICES ASSUME ControlInv, LoadsOnTime, [Next]_vars PROVE LoadsOnTime'
  OBVIOUS
<1>1. CASE Loop
  BY <1>1, LoopOnTime
<1>2. ASSUME NEW home \in BOOLEAN, ConsoleStarts(home) PROVE LoadsOnTime'
  <2>1. command'.step = "target pitch"
    BY <1>2 DEF ConsoleStarts
  <2> QED
    BY <2>1 DEF LoadsOnTime
<1>3. CASE Console
  BY <1>3, ConsoleOnTime
<1>4. CASE ManualCommand \/ UNCHANGED vars
  BY <1>4 DEF ManualCommand, vars, LoadsOnTime, OnTime, InTime
<1> QED
  BY <1>1, <1>2, <1>3, <1>4 DEF Next

(* On the way to a preset, whatever time its two moves take, whoever loads *)
(* it and however the loop is aborted and restarted before: if one move    *)
(* was slowed down for the other, both end in the same pass.               *)
THEOREM AxesArriveTogether == Spec => BothArriveTogether
<1>1. Init => LoadsOnTime
  BY ResetInTime DEF Init, LoadsOnTime, OnTime
<1>2. ControlInv /\ LoadsOnTime /\ [Next]_vars =>
        [\A a, b \in Axes :
           /\ ~torn' /\ control_mode = "AUTO" /\ control_mode' = "AUTO"
           /\ UNCHANGED <<loads, command>>
           /\ Moving(a) /\ ~Moving(a)' /\ Moving(b)
           /\ \E c \in Axes : axis[c].timebase < Scale
           => ~Moving(b)']_vars
  <2> SUFFICES ASSUME ControlInv, LoadsOnTime, [Next]_vars, NEW a \in Axes, NEW b \in Axes,
                      ~torn', control_mode = "AUTO", control_mode' = "AUTO",
                      loads' = loads, command' = command,
                      axis[a].moving, ~axis'[a].moving, axis[b].moving,
                      \E c \in Axes : axis[c].timebase < Scale
               PROVE  ~axis'[b].moving
    BY Zenon DEF Moving
  <2>1. axis' # axis
    OBVIOUS
  <2>2. loads \in LoadIds /\ command \in [step : Statements, id : LoadIds, home : BOOLEAN]
    BY DEF ControlInv, ConsoleOK
  <2>3. loads # loads + 1
    BY <2>2 DEF LoadIds
  <2>4. ~Console
    BY <2>1, <2>2 DEF Console, ConsoleTargets, ConsoleLimits, ConsoleClocks, ConsoleRescales,
       ConsoleSetsMode, Statement
  <2>5. Pass
    BY <2>1, <2>3, <2>4 DEF Next, Loop, PassLoads, ConsoleStarts, ManualCommand, vars
  <2>6. ~torn /\ command = Idle
    BY <2>5 DEF Pass
  <2>7. PICK d \in Times : axis' = Clocked(axis, d)
    BY <2>1, <2>5 DEF Pass, Control
  <2>8. InTime(axis)
    <3>1. OnTime(axis)
      BY <2>6 DEF LoadsOnTime, Idle
    <3> QED
      BY <3>1 DEF OnTime, Waiting
  <2>9. \A c \in Axes : /\ Axis(axis[c]) /\ ~axis[c].start
                       /\ axis'[c] = Clock(axis[c], c, d[c]) /\ d[c] \in Durations
    BY <2>7, <2>8 DEF ControlInv, Typed, InTime, Clocked, Times
  <2>10. axis[a].completed
    <3>1. SUFFICES ASSUME ~axis[a].completed PROVE axis'[a].moving
      OBVIOUS
    <3>2. axis'[a] = Run(axis[a], axis[a].timebase)
      BY <2>9, <3>1, ClockCarriesOn
    <3>3. axis[a].timebase \in Nat
      BY <2>9 DEF Axis, AxisStates
    <3> QED
      BY <2>9, <3>2, <3>3, RunIs
  <2>11. axis[b].completed
    <3>1. CASE a = b
      BY <2>10, <3>1
    <3>2. CASE a # b
      <4>1. \A c \in Axes : axis[c].moving
        BY <3>2 DEF Axes
      <4>2. InStep(axis["pitch"], axis["yaw"]) \/ InStep(axis["yaw"], axis["pitch"])
        BY <2>8, <4>1 DEF InTime
      <4>3. axis["pitch"].completed <=> axis["yaw"].completed
        BY <4>2 DEF InStep
      <4> QED
        BY <2>10, <3>2, <4>3 DEF Axes
    <3> QED
      BY <3>1, <3>2
  <2> QED
    BY <2>9, <2>11, ClockCarriesOn
<1> QED
  BY <1>1, <1>2, StaysOnTime, ControlInductive, PTL DEF Spec, BothArriveTogether

-----------------------------------------------------------------------------
(* Moves that go on.                                                       *)

LEMMA RatioBounds ==
  ASSUME NEW s \in Int, NEW t \in Int
  PROVE  Ratio(s, t) \in 1 .. 20 * Scale
<1>1. PICK m \in Nat : m = Abs(s)
  BY DEF Abs
<1>2. PICK n \in Nat : n = Abs(t)
  BY DEF Abs
<1>3. PICK z \in Nat \ {0} : z = Scale
  BY ControlAssumption
<1>4. CASE m > MinTime * z /\ 20 * n > m
  <2>1. MinTime * z \in Nat
    BY ControlAssumption
  <2>2. m > 0 /\ n > 0
    BY <1>4, <2>1
  <2>3. PICK c \in Nat : c = m * z + (n - 1)
    <3>1. m * z \in Nat
      OBVIOUS
    <3> QED
      BY <2>2, <3>1
  <2>4. Ratio(s, t) = c \div n
    BY <1>1, <1>2, <1>3, <1>4, <2>3 DEF Ratio
  <2>5. PICK q \in Nat : q = c \div n
    BY <2>2, QuotientIsNatural
  <2>6. PICK r \in 0 .. n - 1 : r = c % n
    BY <2>2
  <2>7. c = q * n + r
    BY <2>2, <2>5, <2>6
  <2>8. q >= 1
    <3>1. m * z >= 1
      BY <2>2
    <3>2. q * n > 0
      BY <2>3, <2>6, <2>7, <3>1
    <3> QED
      BY <2>2, <3>2
  <2>9. q <= 20 * z
    <3>1. PICK e \in Nat : 20 * n = m + e /\ e > 0
      <4>1. 20 * n - m \in Nat /\ 20 * n = m + (20 * n - m) /\ 20 * n - m > 0
        BY <1>4
      <4> QED
        BY <4>1
    <3>2. (20 * n) * z = m * z + e * z /\ e * z > 0
      BY <3>1
    <3>3. PICK g \in Nat : g = 20 * z
      OBVIOUS
    <3>4. (20 * n) * z = g * n
      BY <3>3
    <3>5. q * n < g * n + n
      BY <2>2, <2>3, <2>6, <2>7, <3>2, <3>4
    <3>6. PICK h \in Int : h = q - g
      OBVIOUS
    <3>7. h * n < n
      <4>1. h * n = q * n - g * n
        BY <3>6
      <4>2. q * n \in Nat /\ g * n \in Nat
        OBVIOUS
      <4> QED
        BY <3>5, <4>1, <4>2
    <3>8. h <= 0
      <4>1. CASE h >= 1
        <5>1. h * n >= n
          BY <2>2, <4>1
        <5> QED
          BY <3>7, <5>1
      <4> QED
        BY <4>1
    <3> QED
      BY <3>3, <3>6, <3>8
  <2> QED
    BY <1>3, <2>4, <2>5, <2>8, <2>9
<1>5. CASE ~(m > MinTime * z /\ 20 * n > m)
  <2>1. Ratio(s, t) = Scale
    BY <1>1, <1>2, <1>3, <1>5 DEF Ratio
  <2> QED
    BY <1>3, <2>1
<1> QED
  BY <1>4, <1>5

(* A clock of the move takes it forward; before the first it has not begun, *)
(* and with the last it has passed its time by less than one clock.        *)
GoesOn(x) ==
  /\ x.timebase \in 1 .. 20 * Scale
  /\ x.moving => /\ x.completed \/ x.time < x.total \/ x.time = 0
                 /\ x.time <= x.total + 20 * Scale

LEMMA PlanGoesOn ==
  ASSUME NEW x, Axis(x), ~x.settling, NEW d \in Durations
  PROVE  GoesOn(Plan(x, d))
<1>1. Planned(Plan(x, d)) /\ Plan(x, d).timebase = Scale /\ Axis(Plan(x, d))
  BY PlanBegins, PlanFields, PlanIs
<1>2. Plan(x, d).total \in Nat
  BY <1>1 DEF Axis, AxisStates
<1> QED
  BY <1>1, <1>2, ControlAssumption DEF Planned, GoesOn

LEMMA ClockGoesOn ==
  ASSUME NEW x, Axis(x), GoesOn(x), NEW a \in Axes, NEW d \in Durations
  PROVE  GoesOn(Clock(x, a, d))
<1>0. Scale \in Nat \ {0}
  BY ControlAssumption
<1>1. PICK z : z = Arrive(x, a)
  OBVIOUS
<1>2. Axis(z) /\ GoesOn(z) /\ (z.moving => ~z.completed)
  <2>1. Axis(z)
    BY <1>1, ArriveIs
  <2>2. CASE x.moving /\ x.completed
    <3>1. z = [x EXCEPT !.moving = FALSE, !.settling = TRUE, !.settle_time = Settle[a]]
      BY <1>1, <2>2 DEF Arrive
    <3>2. ~z.moving /\ z.timebase = x.timebase
      BY <3>1 DEF Axis, AxisStates
    <3> QED
      BY <2>1, <3>2 DEF GoesOn
  <2>3. CASE ~(x.moving /\ x.completed)
    <3>1. z = x
      BY <1>1, <2>3 DEF Arrive
    <3> QED
      BY <2>1, <2>3, <3>1
  <2> QED
    BY <2>2, <2>3
<1>3. PICK y : y = Advance(z)
  OBVIOUS
<1>4. Axis(y)
  BY <1>2, <1>3, AdvanceIs
<1>5. GoesOn(y)
  <2>1. CASE z.moving
    <3>1. y = Run(z, z.timebase) /\ z.timebase \in Nat /\ z.time \in Nat /\ z.total \in Nat
      BY <1>2, <1>3, <2>1 DEF Advance, Axis, AxisStates
    <3>2. /\ y.time = z.time + z.timebase
          /\ y.completed <=> z.time + z.timebase >= z.total
          /\ y.total = z.total /\ y.timebase = z.timebase
      BY <1>2, <3>1, RunFields
    <3>3. z.time < z.total \/ z.time = 0
      BY <1>2, <2>1 DEF GoesOn
    <3>4. z.timebase <= 20 * Scale
      BY <1>2 DEF GoesOn
    <3>5. y.time <= y.total + 20 * Scale
      BY <1>0, <3>1, <3>2, <3>3, <3>4
    <3>6. y.completed \/ y.time < y.total
      BY <3>1, <3>2
    <3> QED
      BY <1>2, <3>2, <3>5, <3>6 DEF GoesOn
  <2>2. CASE ~z.moving /\ z.settling /\ z.settle_time > 0
    <3>1. PICK w : w = [z EXCEPT !.settle_time = @ - 1]
      OBVIOUS
    <3>2. Axis(w) /\ ~w.moving /\ w.timebase = z.timebase
      BY <1>2, <2>2, <3>1 DEF Axis, AxisStates
    <3>3. y = Run(w, Scale)
      BY <1>3, <2>2, <3>1 DEF Advance
    <3>4. ~y.moving /\ y.timebase = z.timebase
      BY <1>0, <3>2, <3>3, RunIs, RunFields
    <3> QED
      BY <1>2, <3>4 DEF GoesOn
  <2>3. CASE ~z.moving /\ ~(z.settling /\ z.settle_time > 0)
    <3>1. y = Still(z)
      BY <1>3, <2>3 DEF Advance
    <3>2. ~y.moving /\ y.timebase = Scale
      BY <1>2, <2>3, <3>1 DEF Still, Axis, AxisStates
    <3> QED
      BY <1>0, <3>2 DEF GoesOn
  <2> QED
    BY <2>1, <2>2, <2>3
<1>6. Clock(x, a, d) = IF ~y.moving /\ ~y.settling /\ y.start THEN Plan(y, d) ELSE y
  BY <1>1, <1>3 DEF Clock
<1> QED
  BY <1>4, <1>5, <1>6, PlanGoesOn

LEMMA TargetGoesOn ==
  ASSUME NEW x, Axis(x), GoesOn(x), NEW id \in LoadIds
  PROVE  GoesOn(SetTarget(x, id)) /\ GoesOn(SetLimits(x, id))
<1>1. ~SetTarget(x, id).moving /\ SetTarget(x, id).timebase = x.timebase
  BY DEF Axis, AxisStates, SetTarget
<1>2. PICK y : y = SetLimits(x, id)
  OBVIOUS
<1>3. /\ y.timebase = x.timebase /\ y.moving = x.moving /\ y.completed = x.completed
      /\ y.time = x.time /\ y.total = x.total
  BY <1>2 DEF Axis, AxisStates, SetLimits
<1> QED
  BY <1>1, <1>2, <1>3 DEF GoesOn

AllGoOn(ax) == \A a \in Axes : GoesOn(ax[a])

LEMMA RescaleGoesOn ==
  ASSUME NEW ax, Typed(ax), AllGoOn(ax)
  PROVE  AllGoOn(Rescale(ax))
<1>1. \A a \in Axes : Remaining(ax[a]) \in Int
  BY DEF Typed, Axis, AxisStates, Remaining
<1>2. PICK p \in Int, y \in Int : p = Remaining(ax["pitch"]) /\ y = Remaining(ax["yaw"])
  BY <1>1 DEF Axes
<1>3. {Remaining(ax[a]) : a \in Axes} = {p, y}
  BY <1>2 DEF Axes
<1>4. Min({p, y}) \in Int /\ Max({p, y}) \in Int
  <2>1. \E x \in {p, y} : \A z \in {p, y} : x <= z
    OBVIOUS
  <2>2. \E x \in {p, y} : \A z \in {p, y} : x >= z
    OBVIOUS
  <2>3. Min({p, y}) \in {p, y}
    BY <2>1 DEF Min
  <2>4. Max({p, y}) \in {p, y}
    BY <2>2 DEF Max
  <2> QED
    BY <2>3, <2>4
<1>5. PICK n \in 1 .. 20 * Scale : n = Ratio(Min({p, y}), Max({p, y}))
  BY <1>4, RatioBounds
<1>6. \A a \in Axes : Rescale(ax)[a] = [ax[a] EXCEPT !.timebase = IF a # Slower(ax) THEN n ELSE Scale]
  BY <1>3, <1>5, Zenon DEF Rescale
<1> SUFFICES ASSUME NEW a \in Axes PROVE GoesOn(Rescale(ax)[a])
  BY DEF AllGoOn
<1>7. PICK t \in 1 .. 20 * Scale : t = IF a # Slower(ax) THEN n ELSE Scale
  BY <1>5, ControlAssumption
<1>8. PICK v : v = [ax[a] EXCEPT !.timebase = t]
  OBVIOUS
<1>9. Rescale(ax)[a] = v
  BY <1>6, <1>7, <1>8, Zenon
<1>10. Axis(ax[a]) /\ GoesOn(ax[a])
  BY DEF Typed, AllGoOn
<1>11. /\ v.timebase = t /\ v.moving = ax[a].moving /\ v.completed = ax[a].completed
       /\ v.time = ax[a].time /\ v.total = ax[a].total
  BY <1>8, <1>10 DEF Axis, AxisStates
<1> QED
  BY <1>7, <1>9, <1>10, <1>11 DEF GoesOn

LEMMA ClockedGoesOn ==
  ASSUME NEW ax, Typed(ax), AllGoOn(ax), NEW d \in Times
  PROVE  AllGoOn(Clocked(ax, d))
BY ClockGoesOn DEF Typed, AllGoOn, Clocked, Times

LEMMA LoadedGoesOn ==
  ASSUME NEW ax, Typed(ax), AllGoOn(ax), NEW id \in LoadIds, NEW home \in BOOLEAN, NEW d \in Times
  PROVE  AllGoOn(Loaded(ax, id, home, d))
<1>1. PICK y : y = Limited(Targeted(ax, id), id)
  OBVIOUS
<1>2. Typed(y)
  BY <1>1, TargetedAndLimited
<1>3. AllGoOn(y)
  <2> SUFFICES ASSUME NEW a \in Axes PROVE GoesOn(y[a])
    BY DEF AllGoOn
  <2>1. Axis(ax[a]) /\ GoesOn(ax[a])
    BY DEF Typed, AllGoOn
  <2>2. PICK x : x = SetTarget(ax[a], id)
    OBVIOUS
  <2>3. Axis(x) /\ GoesOn(x)
    BY <2>1, <2>2, SetTargetIs, TargetGoesOn
  <2>4. y[a] = SetLimits(x, id)
    BY <1>1, <2>2 DEF Limited, Targeted
  <2> QED
    BY <2>3, <2>4, TargetGoesOn
<1>4. PICK z : z = Clocked(y, d)
  OBVIOUS
<1>5. Typed(z) /\ AllGoOn(z)
  BY <1>2, <1>3, <1>4, ClockedIs, ClockedGoesOn
<1>6. Loaded(ax, id, home, d) = IF home THEN y ELSE Rescale(z)
  BY <1>1, <1>4 DEF Loaded
<1> QED
  BY <1>3, <1>5, <1>6, RescaleGoesOn

LEMMA ConsoleGoesOn ==
  ASSUME ControlInv, AllGoOn(axis), Console
  PROVE  AllGoOn(axis')
<1>1. command.id \in LoadIds /\ "pitch" \in Axes /\ "yaw" \in Axes
  BY DEF ControlInv, ConsoleOK, Axes
<1>2. Typed(axis) /\ \A a \in Axes : Axis(axis[a]) /\ GoesOn(axis[a])
  BY DEF ControlInv, Typed, AllGoOn
<1>3. \/ UNCHANGED axis \/ axis' = Rescale(axis)
      \/ \E a \in Axes : \/ axis' = [axis EXCEPT ![a] = SetTarget(axis[a], command.id)]
                        \/ axis' = [axis EXCEPT ![a] = SetLimits(axis[a], command.id)]
                        \/ \E d \in Durations : axis' = [axis EXCEPT ![a] = Clock(axis[a], a, d)]
  <2>1. CASE ConsoleTargets
    BY <1>1, <1>2, <2>1 DEF ConsoleTargets, Typed
  <2>2. CASE ConsoleLimits
    BY <1>1, <1>2, <2>2 DEF ConsoleLimits, Typed
  <2>3. CASE ConsoleClocks
    <3>1. PICK d \in Durations :
            \/ axis' = [axis EXCEPT !["pitch"] = Clock(axis["pitch"], "pitch", d)]
            \/ axis' = [axis EXCEPT !["yaw"] = Clock(axis["yaw"], "yaw", d)]
      BY <2>3, <1>1, <1>2 DEF ConsoleClocks, Typed
    <3> QED
      BY <1>1, <3>1
  <2>4. CASE ConsoleRescales \/ ConsoleSetsMode
    BY <2>4 DEF ConsoleRescales, ConsoleSetsMode
  <2> QED
    BY <2>1, <2>2, <2>3, <2>4 DEF Console
<1>4. ASSUME NEW a \in Axes, NEW x, GoesOn(x), axis' = [axis EXCEPT ![a] = x]
      PROVE  AllGoOn(axis')
  BY <1>2, <1>4 DEF AllGoOn, Typed
<1> QED
  BY <1>1, <1>2, <1>3, <1>4, RescaleGoesOn, TargetGoesOn, ClockGoesOn

LEMMA ResetGoesOn == AllGoOn([a \in Axes |-> ResetAxis])
BY ControlAssumption DEF AllGoOn, GoesOn, ResetAxis

LEMMA StaysGoing == ControlInv /\ AllGoOn(axis) /\ [Next]_vars => AllGoOn(axis)'
<1> SUFFICES ASSUME ControlInv, AllGoOn(axis), [Next]_vars PROVE AllGoOn(axis')
  OBVIOUS
<1>1. Typed(axis)
  BY DEF ControlInv
<1>2. CASE Pass
  <2>1. \/ axis' = axis \/ axis' = [a \in Axes |-> ResetAxis]
        \/ \E d \in Times : axis' = Clocked(axis, d)
    BY <1>2 DEF Pass, Control
  <2> QED
    BY <1>1, <2>1, ClockedGoesOn, ResetGoesOn
<1>3. ASSUME NEW home \in BOOLEAN, PassLoads(home) PROVE AllGoOn(axis')
  <2>1. loads' \in LoadIds
    BY <1>3, OneMoreLoad DEF PassLoads, ControlInv, ConsoleOK
  <2>2. PICK d \in Times : Control(Loaded(axis, loads', home, d), "AUTO", {d})
    BY <1>3 DEF PassLoads
  <2>3. PICK id \in LoadIds : id = loads'
    BY <2>1
  <2>4. Control(Loaded(axis, id, home, d), "AUTO", {d})
    BY <2>2, <2>3, Zenon
  <2>5. PICK y : y = Loaded(axis, id, home, d)
    OBVIOUS
  <2>6. axis' = Clocked(y, d) \/ axis' = [a \in Axes |-> ResetAxis]
    BY <2>4, <2>5 DEF Control
  <2>7. Typed(y) /\ AllGoOn(y)
    BY <1>1, <2>5, LoadedIs, LoadedGoesOn
  <2> QED
    BY <2>6, <2>7, ClockedGoesOn, ResetGoesOn
<1>4. CASE Console
  BY <1>4, ConsoleGoesOn
<1>5. CASE (\E home \in BOOLEAN : ConsoleStarts(home)) \/ ManualCommand \/ UNCHANGED vars
  BY <1>5 DEF ConsoleStarts, ManualCommand, vars
<1> QED
  BY <1>2, <1>3, <1>4, <1>5 DEF Next, Loop

(* Each clock of a move counts: it takes the move forward, or, once its    *)
(* profile is completed, ends it.                                          *)
EveryClockCounts ==
  \A a \in Axes, d \in Durations :
    Moving(a) =>
      /\ axis[a].time <= axis[a].total + 20 * Scale
      /\ ~axis[a].completed => /\ Clock(axis[a], a, d).moving
                               /\ Clock(axis[a], a, d).time > axis[a].time
      /\ axis[a].completed /\ Clock(axis[a], a, d).moving => Planned(Clock(axis[a], a, d))

LEMMA ClockCounts ==
  ASSUME NEW x, Axis(x), GoesOn(x), x.moving, NEW a \in Axes, NEW d \in Durations
  PROVE  /\ ~x.completed => Clock(x, a, d).moving /\ Clock(x, a, d).time > x.time
         /\ x.completed /\ Clock(x, a, d).moving => Planned(Clock(x, a, d))
<1>1. CASE ~x.completed
  <2>1. x.timebase \in Nat \ {0} /\ x.time \in Nat
    BY ControlAssumption DEF GoesOn, Axis, AxisStates
  <2>2. PICK y : y = Run(x, x.timebase)
    OBVIOUS
  <2>3. y.moving /\ y.time > x.time
    <3>1. PICK e \in Nat \ {0} : e = x.timebase
      BY <2>1
    <3>2. y.moving = x.moving /\ y.time = x.time + e
      BY <2>2, <3>1, RunIs, RunFields
    <3> QED
      BY <2>1, <3>2
  <2>4. Clock(x, a, d) = y
    BY <1>1, <2>2, <2>3 DEF Clock, Arrive, Advance
  <2> QED
    BY <1>1, <2>3, <2>4
<1>2. CASE x.completed
  <2>1. PICK z : z = Arrive(x, a)
    OBVIOUS
  <2>2. Axis(z) /\ ~z.moving
    <3>1. z = [x EXCEPT !.moving = FALSE, !.settling = TRUE, !.settle_time = Settle[a]]
      BY <1>2, <2>1 DEF Arrive
    <3>2. ~z.moving
      BY <3>1 DEF Axis, AxisStates
    <3>3. Axis(z)
      BY <2>1, ArriveIs
    <3> QED
      BY <3>2, <3>3
  <2>3. PICK y : y = Advance(z)
    OBVIOUS
  <2>4. Axis(y) /\ ~y.moving
    BY <2>2, <2>3, AdvanceIs
  <2>5. Clock(x, a, d) = IF ~y.moving /\ ~y.settling /\ y.start THEN Plan(y, d) ELSE y
    BY <2>1, <2>3 DEF Clock
  <2> QED
    BY <1>2, <2>4, <2>5, PlanBegins
<1> QED
  BY <1>1, <1>2

(* No move stalls or runs on for ever, whatever was rescaled against what, *)
(* a console load that rescales against a move past its time included: in  *)
(* every state the next clock counts, and the time it may reach is bounded. *)
THEOREM MovesNeverStall == Spec => []EveryClockCounts
<1>1. Init => AllGoOn(axis)
  BY ResetGoesOn DEF Init
<1>2. ControlInv /\ AllGoOn(axis) => EveryClockCounts
  <2> SUFFICES ASSUME ControlInv, AllGoOn(axis), NEW a \in Axes, axis[a].moving, NEW d \in Durations
               PROVE  /\ axis[a].time <= axis[a].total + 20 * Scale
                      /\ ~axis[a].completed => /\ Clock(axis[a], a, d).moving
                                               /\ Clock(axis[a], a, d).time > axis[a].time
                      /\ axis[a].completed /\ Clock(axis[a], a, d).moving
                           => Planned(Clock(axis[a], a, d))
    BY Zenon DEF EveryClockCounts, Moving
  <2>1. Axis(axis[a]) /\ GoesOn(axis[a])
    BY DEF ControlInv, Typed, AllGoOn
  <2>2. axis[a].time <= axis[a].total + 20 * Scale
    BY <2>1 DEF GoesOn
  <2> QED
    BY <2>1, <2>2, ClockCounts
<1> QED
  BY <1>1, <1>2, StaysGoing, ControlInductive, PTL DEF Spec
=============================================================================
