------------------------------ MODULE FbPanel -------------------------------
(***************************************************************************)
(* The control panel of the master board: the buttons (src/src/fb_inputs.c), *)
(* the presets that they save and load (fb_state_operational.c,            *)
(* fb_config.c, fb_preset.c) and the joystick that aborts a move (fb.c).   *)
(*                                                                         *)
(* One pass of the control loop is one step: it reads the switches, runs   *)
(* _fb_state_operational and then the part of _fb_update_control that      *)
(* changes the control mode.  The console runs between two passes.         *)
(* Yaw is counted in steps of a full circle, pitch in steps of its travel. *)
(***************************************************************************)
EXTENDS Integers, FiniteSetsExt

CONSTANTS
  LastPreset,  \* FB_PRESET_COUNT - 1
  Hold,        \* FB_BTN_LONG_PRESS_TIME_US, in passes
  Circle,      \* yaw steps of a full circle
  Positions,   \* measured positions of the crane
  Entered,     \* places that are typed at the console, by any number of turns
  Joys,        \* sets of axes on which the joystick may be out of its dead band
  Commands     \* console commands in use

Axes == {"pitch", "yaw"}

ASSUME PanelAssumption ==
  /\ LastPreset \in Nat \ {0}
  /\ Hold \in Nat \ {0}
  /\ Circle \in Nat \ {0} /\ Circle % 4 = 0
  /\ Positions \subseteq [pitch : Int, yaw : 0 .. Circle - 1]
  /\ Entered \subseteq [pitch : Int, yaw : Int]
  /\ Joys \subseteq SUBSET Axes
  /\ Commands \subseteq {"p", "p0", "local1", "manual", "operational"}

Presets == 0 .. LastPreset
Home == 0
NoPreset == -1
Nowhere == [pitch |-> 0, yaw |-> 0]

VARIABLES
  sw,            \* the switch behind each preset button
  presets,       \* config.presets
  pos,           \* measured.pitch, measured.yaw
  joy,           \* the axes on which it is
  control_mode,  \* self->control_mode
  target,        \* the targets that this step gives to the axis controllers
  load,          \* history: the preset that this step loaded
  streak,        \* history: for how many readings in a row a button was down
  saved          \* history: where the crane, and its home, was when a preset was saved

history == <<load, streak, saved>>
vars == <<sw, presets, pos, joy, control_mode, target, history>>

Init ==
  /\ sw = [b \in Presets |-> [pressed |-> FALSE, toggled |-> FALSE, long |-> FALSE, held |-> 0]]
  /\ presets = [b \in Presets |-> [valid |-> FALSE, at |-> Nowhere]]
  /\ pos \in Positions
  /\ joy = {}
  /\ control_mode = "MANUAL"
  /\ target = Nowhere
  /\ load = NoPreset
  /\ streak = [b \in Presets |-> 0]
  /\ saved = [b \in Presets |-> [at |-> Nowhere, home |-> presets[Home]]]

-----------------------------------------------------------------------------
(* Angles.                                                                 *)

(* normalize_angle, onto 0 .. Circle - 1.                                  *)
Normalize(a) == a % Circle

(* The length of the shorter way round.                                    *)
Turn(a) == Min({Normalize(a), Normalize(-a)})

-----------------------------------------------------------------------------
(* One reading of a switch, in _fb_read_inputs.                            *)

(* Mutant: a new press does not set the time of the press.                 *)
ReadSwitchKeepsTime(s, on) ==
  LET toggled == on # s.pressed
      held == IF on /\ s.held <= Hold THEN s.held + 1 ELSE s.held
  IN  [pressed |-> on, toggled |-> toggled, held |-> held,
       long |-> IF toggled THEN on /\ s.long ELSE on /\ held > Hold]

(* A press notes the time, a release ends the long press, and a button     *)
(* that stays down is long pressed when the time is over.  The time of the *)
(* press means nothing while the button is up.                             *)
ReadSwitch(s, on) ==
  LET toggled == on # s.pressed
      held == IF toggled \/ ~on THEN 0
              ELSE IF s.held <= Hold THEN s.held + 1 ELSE s.held
  IN  [pressed |-> on, toggled |-> toggled, held |-> held,
       long |-> IF toggled THEN on /\ s.long ELSE on /\ held > Hold]

-----------------------------------------------------------------------------
(* Presets.                                                                *)

(* Mutant: a preset is stored where the crane is, not relative to home.    *)
PresetAbsolute(p, home) == [valid |-> TRUE, at |-> p]

(* Home is stored where the crane is, another preset relative to home,     *)
(* whether or not home has been set.                                       *)
PresetAt(p, home) ==
  [valid |-> TRUE, at |-> [pitch |-> p.pitch - home.at.pitch, yaw |-> p.yaw - home.at.yaw]]

(* The presets after the long presses among s; home comes first, so that   *)
(* the others see it.                                                      *)
SavePresets(s, p) ==
  LET home == IF s[Home].long THEN [valid |-> TRUE, at |-> p] ELSE presets[Home]
  IN  [b \in Presets |-> CASE b = Home -> home
                           [] b # Home /\ s[b].long -> PresetAt(p, home)
                           [] OTHER -> presets[b]]

(* Mutant: home is always approached in the direction it was saved.        *)
DestinationNoFlip(ps, b, p) ==
  IF b = Home THEN ps[Home].at
  ELSE [pitch |-> ps[b].at.pitch + ps[Home].at.pitch,
        yaw |-> Normalize(ps[b].at.yaw + ps[Home].at.yaw)]

(* Mutant: the sum of home and preset is not wrapped.                      *)
DestinationNoWrap(ps, b, p) ==
  [pitch |-> ps[b].at.pitch + IF b = Home THEN 0 ELSE ps[Home].at.pitch,
   yaw |-> ps[b].at.yaw + IF b = Home THEN 0 ELSE ps[Home].at.yaw]

(* fb_try_load_preset: where preset b sends the crane from p.  For home,   *)
(* yaw turns to the nearer of two opposite directions; the nearer one is   *)
(* taken as it was stored, the other one is put onto the circle.           *)
Destination(ps, b, p) ==
  LET home == ps[Home].at
      far == Turn(home.yaw - p.yaw) > Circle \div 4
  IN  IF b = Home
      THEN [home EXCEPT !.yaw = IF far THEN Normalize(@ + Circle \div 2) ELSE @]
      ELSE [pitch |-> ps[b].at.pitch + home.pitch, yaw |-> Normalize(ps[b].at.yaw + home.yaw)]

CanLoad(ps, b) == ps[b].valid /\ ps[Home].valid

-----------------------------------------------------------------------------
(* Mutant: the joystick aborts a move only if both axes are deflected.     *)
AbortBothAxes(cm, j) == IF cm = "AUTO" /\ j = Axes THEN "MANUAL" ELSE cm

Abort(cm, j) == IF cm = "AUTO" /\ j # {} THEN "MANUAL" ELSE cm

(* A pass of the control loop: on are the buttons that are down, p and j   *)
(* what is measured.  A button that is released loads its preset; of       *)
(* several, the last one prevails.                                         *)
Pass(on, p, j) ==
  /\ pos' = p /\ joy' = j
  /\ sw' = [b \in Presets |-> ReadSwitch(sw[b], b \in on)]
  /\ presets' = SavePresets(sw', p)
  /\ LET loads == {b \in Presets : sw'[b].toggled /\ ~sw'[b].pressed /\ CanLoad(presets', b)}
     IN  /\ load' = IF loads = {} THEN NoPreset ELSE Max(loads)
         /\ target' = IF loads = {} THEN Nowhere ELSE Destination(presets', load', p)
         /\ control_mode' = Abort(IF loads = {} THEN control_mode ELSE "AUTO", j)
  /\ streak' = [b \in Presets |->
                  IF b \notin on THEN 0 ELSE IF streak[b] > 3 * Hold THEN streak[b] ELSE streak[b] + 1]
  /\ saved' = [b \in Presets |->
                 IF sw'[b].long THEN [at |-> p, home |-> presets'[Home]] ELSE saved[b]]

-----------------------------------------------------------------------------
(* The console, in _fb_cmd.                                                *)

(* fb p <preset>                                                           *)
LoadCommand(b) ==
  /\ CanLoad(presets, b)
  /\ load' = b
  /\ target' = Destination(presets, b, pos)
  /\ control_mode' = "AUTO"
  /\ UNCHANGED <<sw, presets, pos, joy, streak, saved>>

(* fb set p0 <pitch> <yaw>, which takes any angle as it is.                *)
SetHomeCommand(p) ==
  /\ presets' = [presets EXCEPT ![Home] = [valid |-> TRUE, at |-> p]]
  /\ saved' = [saved EXCEPT ![Home] = [at |-> p, home |-> presets'[Home]]]
  /\ load' = NoPreset /\ target' = Nowhere
  /\ UNCHANGED <<sw, pos, joy, control_mode, streak>>

(* fb set local 1, which puts preset 1 beside home.                        *)
SetLocalCommand ==
  LET aside == [pitch |-> 0, yaw |-> 1]
  IN  /\ presets' = [presets EXCEPT ![1] = [valid |-> TRUE, at |-> aside]]
      /\ saved' = [saved EXCEPT ![1] =
                     [at |-> [pitch |-> presets[Home].at.pitch,
                              yaw |-> Normalize(presets[Home].at.yaw + aside.yaw)],
                      home |-> presets[Home]]]
      /\ load' = NoPreset /\ target' = Nowhere
      /\ UNCHANGED <<sw, pos, joy, control_mode, streak>>

(* fb set manual 1, fb set state operational.                              *)
ManualCommand ==
  /\ control_mode' = "MANUAL"
  /\ load' = NoPreset /\ target' = Nowhere
  /\ UNCHANGED <<sw, presets, pos, joy, streak, saved>>

Console ==
  \/ "p" \in Commands /\ \E b \in Presets : LoadCommand(b)
  \/ "p0" \in Commands /\ \E p \in Entered : SetHomeCommand(p)
  \/ "local1" \in Commands /\ SetLocalCommand
  \/ Commands \cap {"manual", "operational"} # {} /\ ManualCommand

Loop == \E on \in SUBSET Presets, p \in Positions, j \in Joys : Pass(on, p, j)

Next == Loop \/ Console

Spec == Init /\ [][Next]_vars

(* The control loop is a periodic thread that never ends.                  *)
FairSpec == Spec /\ WF_vars(Loop)

-----------------------------------------------------------------------------
(* Properties.                                                             *)

Places == [pitch : Int, yaw : Int]
OnCircle == [pitch : Int, yaw : 0 .. Circle - 1]

PresetRecords == [valid : BOOLEAN, at : Places]

TypeOK ==
  /\ sw \in [Presets -> [pressed : BOOLEAN, toggled : BOOLEAN, long : BOOLEAN, held : 0 .. Hold + 1]]
  /\ presets \in [Presets -> PresetRecords]
  /\ pos \in Positions
  /\ joy \subseteq Axes
  /\ control_mode \in {"MANUAL", "AUTO"}
  /\ target \in IF load = Home THEN Places ELSE OnCircle
  /\ load \in Presets \cup {NoPreset}
  /\ streak \in [Presets -> 0 .. 3 * Hold + 1]
  /\ saved \in [Presets -> [at : Places, home : PresetRecords]]
  /\ \A b \in Presets \ {Home} : saved[b].at \in OnCircle

(* The buttons overwrite a preset only after that very button has been     *)
(* read as down for longer than the long-press time without a break: a     *)
(* bouncing contact or a run of short presses never does (_fb_read_inputs  *)
(* and _fb_state_operational).                                             *)
SavesOnlyAfterHold ==
  [][Loop => \A b \in Presets : presets'[b] # presets[b] => streak'[b] > Hold + 1]_vars

(* As long as home has not been moved since, a preset sends the crane to   *)
(* the very position where it was saved, whatever turns it made between    *)
(* (relative storage, and the wrap of yaw in fb_try_load_preset).          *)
LoadsWhatWasSaved ==
  [][load' \in Presets \ {Home} /\ saved'[load'].home = presets'[Home]
       => target' = saved'[load'].at]_vars

(* "For home we want to rotate to closest halv circle" (fb_preset.c): a    *)
(* load of home never turns the crane by more than a quarter circle,       *)
(* wherever home was entered or saved and in whichever direction it is.    *)
HomeTurnsAtMostQuarter ==
  [][load' = Home => Turn(target'.yaw - pos'.yaw) <= Circle \div 4]_vars

(* A joystick that is held out of its centre ends every automatic move,    *)
(* however often buttons or the console start a new one.                   *)
JoystickAborts == <>[](joy # {}) => []<>(control_mode # "AUTO")
=============================================================================
