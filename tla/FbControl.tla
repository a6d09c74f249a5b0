----------------------------- MODULE FbControl ------------------------------
(***************************************************************************)
(* Automatic moves: the two axis controllers (src/src/fb_control.c), the   *)
(* progress of their motion profiles (motion_profile.c) and the loading of *)
(* a preset (fb_preset.c).                                                 *)
(*                                                                         *)
(* The control loop loads presets and clocks the controllers in one pass,  *)
(* which no other thread of interest interrupts.  The console, of lower    *)
(* priority, calls fb_try_load_preset too, without any lock: a pass may    *)
(* come between any two of its statements.                                 *)
(*                                                                         *)
(* Each load has a number, and a target, a set of limits or a plan is      *)
(* known by the load that it came from; load 0 is none, and stands for the *)
(* zeros that fb_control_reset leaves.  A plan is known by the time that   *)
(* it takes.  Time is counted in 1/Scale of a tick, so that a slowed down  *)
(* timebase is a whole number.                                             *)
(***************************************************************************)
EXTENDS Integers, FiniteSetsExt

CONSTANTS
  Scale,      \* units of time in a tick
  Durations,  \* how many ticks a planned move may take
  Settle,     \* settling_time of each axis, in ticks
  MinTime,    \* the shortest move to be rescaled: 0.05 s, in ticks
  MaxLoads    \* bound on the number of loads

Axes == {"pitch", "yaw"}

ASSUME ControlAssumption ==
  /\ Scale \in Nat \ {0}
  /\ Durations \subseteq Nat
  /\ Settle \in [Axes -> Nat]
  /\ MinTime \in Nat
  /\ MaxLoads \in Nat

(* A move is slowed down for another that takes e ticks by d in e: units   *)
(* of time are so small that rounding this up does not make it arrive one  *)
(* tick early.  (The code's timebase is a float.)                          *)
ASSUME ResolutionAssumption ==
  \A d, e \in Durations : 0 < d /\ d <= e => (e - 1) * (e - 1) < d * Scale

VARIABLES
  axis,          \* self->axis
  control_mode,  \* self->control_mode
  loads,         \* the number of loads so far
  command,       \* the load that the console is in the middle of
  torn           \* history: a pass drove the axes or loaded in the middle of a
                 \* console load, and no button has loaded in one go since

vars == <<axis, control_mode, loads, command, torn>>

Idle == [step |-> "none", id |-> 0, home |-> FALSE]

(* fb_control_init: all zero but the timebase.                             *)
ResetAxis ==
  [new_target |-> 0, limits |-> 0, start |-> FALSE, moving |-> FALSE, settling |-> FALSE,
   settle_time |-> 0, time |-> 0, timebase |-> Scale, total |-> 0, completed |-> FALSE,
   plan |-> [target |-> 0, limits |-> 0], driven |-> FALSE]

Init ==
  /\ axis = [a \in Axes |-> ResetAxis]
  /\ control_mode = "MANUAL"
  /\ loads = 0
  /\ command = Idle
  /\ torn = FALSE

-----------------------------------------------------------------------------
(* One axis controller.                                                    *)

(* Mutant: a new target leaves the move in progress alone.                 *)
SetTargetKeepsMoving(x, id) == [x EXCEPT !.new_target = id, !.start = TRUE]

SetTarget(x, id) ==
  [x EXCEPT !.new_target = id, !.start = TRUE, !.moving = FALSE, !.settling = FALSE]

SetLimits(x, id) == [x EXCEPT !.limits = id]

(* Mutant: the start of a move is not acknowledged.                        *)
PlanKeepsStart(x, d) ==
  [x EXCEPT !.plan = [target |-> x.new_target, limits |-> x.limits],
            !.total = IF x.limits = 0 THEN 0 ELSE d * Scale,
            !.completed = FALSE, !.moving = TRUE,
            !.time = 0, !.timebase = Scale]

(* A new move, which takes d ticks; without limits it is over at once,     *)
(* since its time is not a number.                                         *)
Plan(x, d) ==
  [x EXCEPT !.plan = [target |-> x.new_target, limits |-> x.limits],
            !.total = IF x.limits = 0 THEN 0 ELSE d * Scale,
            !.completed = FALSE, !.start = FALSE, !.moving = TRUE,
            !.time = 0, !.timebase = Scale]

(* The profile is evaluated at the new time, which tells whether it is     *)
(* completed, and the axis is driven towards it.                           *)
Run(x, elapsed) ==
  [x EXCEPT !.time = @ + elapsed, !.completed = x.time + elapsed >= x.total, !.driven = TRUE]

Still(x) == [x EXCEPT !.settling = FALSE, !.driven = FALSE, !.time = 0, !.timebase = Scale]

(* Mutant: a move that has arrived counts as moving while it settles.      *)
ArriveKeepsMoving(x, a) ==
  IF x.moving /\ x.completed
  THEN [x EXCEPT !.settling = TRUE, !.settle_time = Settle[a]] ELSE x

(* The end of a move is noticed one clock after its profile completed.     *)
Arrive(x, a) ==
  IF x.moving /\ x.completed
  THEN [x EXCEPT !.moving = FALSE, !.settling = TRUE, !.settle_time = Settle[a]] ELSE x

Advance(x) ==
  IF x.moving THEN Run(x, x.timebase)
  ELSE IF x.settling /\ x.settle_time > 0
       THEN Run([x EXCEPT !.settle_time = @ - 1], Scale)
       ELSE Still(x)

(* fb_control_clock, where a move planned by it takes d ticks.             *)
Clock(x, a, d) ==
  LET y == Advance(Arrive(x, a))
  IN  IF ~y.moving /\ ~y.settling /\ y.start THEN Plan(y, d) ELSE y

Remaining(x) == x.total - x.time
Abs(n) == IF n < 0 THEN -n ELSE n

-----------------------------------------------------------------------------
(* Loading a preset.                                                       *)

(* t_min / t_max in 1/Scale, rounded up, if both times are far from zero:   *)
(* a console load may find that a move has passed its time.                *)
Ratio(t_min, t_max) ==
  IF Abs(t_min) > MinTime * Scale /\ 20 * Abs(t_max) > Abs(t_min)
  THEN (Abs(t_min) * Scale + Abs(t_max) - 1) \div Abs(t_max) ELSE Scale

Slower(ax) == IF Remaining(ax["pitch"]) >= Remaining(ax["yaw"]) THEN "pitch" ELSE "yaw"

(* Mutant: the axis that takes longer is slowed down.                      *)
RescaleSwapped(ax) ==
  LET t == {Remaining(ax[a]) : a \in Axes}
  IN  [a \in Axes |-> [ax[a] EXCEPT !.timebase =
         IF a = Slower(ax) THEN Ratio(Min(t), Max(t)) ELSE Scale]]

(* The axis that would be done first is slowed down, so that both finish   *)
(* together.                                                               *)
Rescale(ax) ==
  LET t == {Remaining(ax[a]) : a \in Axes}
  IN  [a \in Axes |-> [ax[a] EXCEPT !.timebase =
         IF a # Slower(ax) THEN Ratio(Min(t), Max(t)) ELSE Scale]]

Targeted(ax, id) == [a \in Axes |-> SetTarget(ax[a], id)]
Limited(ax, id) == [a \in Axes |-> SetLimits(ax[a], id)]
Clocked(ax, d) == [a \in Axes |-> Clock(ax[a], a, d[a])]

(* Mutant: the limits are set after the move has been planned.             *)
LoadedLimitsLate(ax, id, home, d) ==
  IF home THEN Limited(Targeted(ax, id), id)
  ELSE Rescale(Limited(Clocked(Targeted(ax, id), d), id))

(* fb_try_load_preset from a button, in one go.  Home is left to the next  *)
(* clock to plan and is not rescaled.                                      *)
Loaded(ax, id, home, d) ==
  IF home THEN Limited(Targeted(ax, id), id)
  ELSE Rescale(Clocked(Limited(Targeted(ax, id), id), d))

(* The console's load, a statement at a time.                              *)
ConsoleStarts(home) ==
  /\ command = Idle
  /\ loads < MaxLoads /\ loads' = loads + 1
  /\ command' = [step |-> "target pitch", id |-> loads', home |-> home]
  /\ UNCHANGED <<axis, control_mode, torn>>

Statement(from, to) == command.step = from /\ command' = [command EXCEPT !.step = to]

ConsoleTargets ==
  /\ \/ /\ Statement("target pitch", "target yaw")
        /\ axis' = [axis EXCEPT !["pitch"] = SetTarget(@, command.id)]
     \/ /\ Statement("target yaw", "limits pitch")
        /\ axis' = [axis EXCEPT !["yaw"] = SetTarget(@, command.id)]
  /\ UNCHANGED <<control_mode, loads, torn>>

ConsoleLimits ==
  /\ \/ /\ Statement("limits pitch", "limits yaw")
        /\ axis' = [axis EXCEPT !["pitch"] = SetLimits(@, command.id)]
     \/ /\ Statement("limits yaw", IF command.home THEN "mode" ELSE "clock pitch")
        /\ axis' = [axis EXCEPT !["yaw"] = SetLimits(@, command.id)]
  /\ UNCHANGED <<control_mode, loads, torn>>

ConsoleClocks ==
  /\ \E d \in Durations :
       \/ /\ Statement("clock pitch", "clock yaw")
          /\ axis' = [axis EXCEPT !["pitch"] = Clock(@, "pitch", d)]
       \/ /\ Statement("clock yaw", "rescale")
          /\ axis' = [axis EXCEPT !["yaw"] = Clock(@, "yaw", d)]
  /\ UNCHANGED <<control_mode, loads, torn>>

ConsoleRescales ==
  /\ Statement("rescale", "mode")
  /\ axis' = Rescale(axis)
  /\ UNCHANGED <<control_mode, loads, torn>>

ConsoleSetsMode ==
  /\ command.step = "mode" /\ command' = Idle
  /\ control_mode' = "AUTO"
  /\ UNCHANGED <<axis, loads, torn>>

(* fb set manual 1: the axis controllers stay as they are.                 *)
ManualCommand ==
  /\ command = Idle
  /\ control_mode' = "MANUAL"
  /\ UNCHANGED <<axis, loads, command, torn>>

Console ==
  ConsoleTargets \/ ConsoleLimits \/ ConsoleClocks \/ ConsoleRescales \/ ConsoleSetsMode

-----------------------------------------------------------------------------
(* The rest of a pass, _fb_update_control: in automatic mode the           *)
(* controllers are clocked, and the joystick ends the move and resets them. *)

Times == [Axes -> Durations]

Control(ax, mode, times) ==
  \/ /\ mode # "AUTO"
     /\ axis' = ax /\ control_mode' = mode
  \/ /\ mode = "AUTO"
     /\ \E d \in times : axis' = Clocked(ax, d)
     /\ control_mode' = mode
  \/ /\ mode = "AUTO"
     /\ axis' = [a \in Axes |-> ResetAxis] /\ control_mode' = "MANUAL"

Pass ==
  /\ Control(axis, control_mode, Times)
  /\ torn' = (torn \/ (control_mode = "AUTO" /\ command # Idle))
  /\ UNCHANGED <<loads, command>>

(* A pass in which a button loads a preset, and which plans at most once.  *)
PassLoads(home) ==
  /\ loads < MaxLoads /\ loads' = loads + 1
  /\ \E d \in Times : Control(Loaded(axis, loads', home, d), "AUTO", {d})
  /\ torn' = (command # Idle)
  /\ UNCHANGED command

-----------------------------------------------------------------------------
Loop == Pass \/ \E home \in BOOLEAN : PassLoads(home)

Next == Loop \/ (\E home \in BOOLEAN : ConsoleStarts(home)) \/ ManualCommand \/ Console

Spec == Init /\ [][Next]_vars

(* The control loop is a periodic thread, whose passes do not all load a   *)
(* preset, and the console gets the time that it leaves.                   *)
FairSpec == Spec /\ WF_vars(Pass) /\ WF_vars(Console)

-----------------------------------------------------------------------------
(* Properties.                                                             *)

LoadIds == 0 .. MaxLoads

TypeOK ==
  /\ axis \in [Axes ->
       [new_target : LoadIds, limits : LoadIds, start : BOOLEAN, moving : BOOLEAN,
        settling : BOOLEAN, settle_time : Nat, time : Nat, timebase : Nat, total : Nat,
        completed : BOOLEAN, plan : [target : LoadIds, limits : LoadIds], driven : BOOLEAN]]
  /\ \A a \in Axes : ~(axis[a].moving /\ axis[a].settling)
  /\ control_mode \in {"MANUAL", "AUTO"}
  /\ loads \in LoadIds
  /\ command \in [step : {"none", "target pitch", "target yaw", "limits pitch", "limits yaw",
                          "clock pitch", "clock yaw", "rescale", "mode"},
                  id : LoadIds, home : BOOLEAN]
  /\ torn \in BOOLEAN

Moving(a) == axis[a].moving
AtRest(a) == ~axis[a].moving /\ ~axis[a].settling /\ ~axis[a].start

(* The quick start: the crane moves to the preset position with the speed  *)
(* and the intensity that are set now.  Every move takes its target and    *)
(* its limits from one load, and the two axes never move for different     *)
(* loads.                                                                  *)
MovesAreWhole ==
  /\ \A a \in Axes : Moving(a) => axis[a].plan.target = axis[a].plan.limits
  /\ (\A a \in Axes : Moving(a)) => axis["pitch"].plan = axis["yaw"].plan

(* Every move is whole, whether a button or the console loaded it, at      *)
(* whatever time of an earlier move, and whatever passes outside of        *)
(* automatic mode came between the console's statements; only a pass that  *)
(* drives or loads in the middle of them can tear it apart, and a later    *)
(* button mends it (_fb_state_operational, fb_try_load_preset).            *)
UntornMovesAreWhole == ~torn => MovesAreWhole

(* "Rescale the controller time so that both controllers finish at the     *)
(* same time" (fb_preset.c): on the way to a preset other than home whose  *)
(* load was not torn, if neither move is too short, the axes arrive in the *)
(* same pass.                                                              *)
BothArriveTogether ==
  [][\A a, b \in Axes :
       /\ ~torn' /\ control_mode = "AUTO" /\ control_mode' = "AUTO"
       /\ UNCHANGED <<loads, command>>
       /\ Moving(a) /\ ~Moving(a)' /\ Moving(b)
       /\ \E c \in Axes : axis[c].timebase < Scale
       => ~Moving(b)']_vars

(* An automatic move ends, with both axes at rest, or is aborted, once no  *)
(* more loads come.                                                        *)
MoveEnds == (control_mode = "AUTO") ~> (control_mode # "AUTO" \/ \A a \in Axes : AtRest(a))

(* A move that was aborted is not resumed: whenever the board enters       *)
(* automatic mode, an axis that moves has only just been planned.          *)
NeverResumes ==
  [][control_mode # "AUTO" /\ control_mode' = "AUTO"
       => \A a \in Axes : Moving(a)' => axis'[a].time <= Scale]_vars
=============================================================================
