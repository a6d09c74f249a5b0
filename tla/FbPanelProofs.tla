---------------------------- MODULE FbPanelProofs ----------------------------
(***************************************************************************)
(* Theorems about module FbPanel, for every number of presets, time of a   *)
(* long press, division of the circle, and set of positions.               *)
(***************************************************************************)
EXTENDS FbPanel, WellFoundedInduction, TLAPS

-----------------------------------------------------------------------------
(* The latest of several buttons.                                          *)

LEMMA MaxOfPresets ==
  ASSUME NEW S, S \subseteq Presets, S # {}
  PROVE  Max(S) \in S
<1>1. LastPreset \in Nat /\ \A b \in S : b \in 0 .. LastPreset
  BY PanelAssumption DEF Presets
<1>2. PICK T : T = {LastPreset - b : b \in S}
  OBVIOUS
<1>3. T \subseteq Nat /\ T # {}
  BY <1>1, <1>2
<1>4. PICK x \in T : \A y \in T : ~(<<y, x>> \in OpToRel(<, Nat))
  BY <1>3, NatLessThanWellFounded, WFMin
<1>5. \A y \in T : ~(y < x)
  BY <1>3, <1>4 DEF OpToRel
<1>6. PICK b \in S : x = LastPreset - b
  BY <1>2
<1>7. \A c \in S : b >= c
  <2> TAKE c \in S
  <2>1. LastPreset - c \in T
    BY <1>2
  <2>2. ~(LastPreset - c < LastPreset - b)
    BY <1>5, <1>6, <2>1
  <2> QED
    BY <1>1, <2>2
<1> QED
  BY <1>7 DEF Max

-----------------------------------------------------------------------------
(* The circle.                                                             *)

LEMMA CircleIs ==
  \E q \in Nat \ {0} : Circle = 4 * q /\ Circle \div 4 = q /\ Circle \div 2 = 2 * q
<1>1. Circle \in Nat \ {0} /\ Circle % 4 = 0
  BY PanelAssumption
<1>2. PICK q \in Int : q = Circle \div 4
  BY <1>1
<1>3. Circle = 4 * q
  BY <1>1, <1>2
<1>4. q \in Nat \ {0}
  BY <1>1, <1>3
<1>5. Circle \div 2 = 2 * q
  BY <1>3, <1>4
<1> QED
  BY <1>2, <1>3, <1>4, <1>5

LEMMA Around ==
  ASSUME NEW a \in Int
  PROVE  \E k \in Int, r \in 0 .. Circle - 1 : Normalize(a) = r /\ a = k * Circle + r
<1>1. Circle \in Nat \ {0}
  BY PanelAssumption
<1>2. a \div Circle \in Int /\ a % Circle \in 0 .. Circle - 1
  BY <1>1
<1>3. PICK k \in Int : k = a \div Circle
  BY <1>2
<1>4. PICK r \in 0 .. Circle - 1 : r = a % Circle
  BY <1>2
<1>5. a = k * Circle + r
  BY <1>1, <1>3, <1>4
<1> QED
  BY <1>4, <1>5, Zenon DEF Normalize

LEMMA OnlyOnce ==
  ASSUME NEW a \in Int, NEW k \in Int, NEW r \in 0 .. Circle - 1, a = k * Circle + r
  PROVE  Normalize(a) = r
<1>1. Circle \in Nat \ {0}
  BY PanelAssumption
<1>2. PICK j \in Int, s \in 0 .. Circle - 1 : Normalize(a) = s /\ a = j * Circle + s
  BY Around
<1>3. (j - k) * Circle = r - s
  BY <1>1, <1>2
<1>4. PICK d \in Int : d = j - k
  BY <1>2
<1>5. d * Circle < Circle /\ d * Circle > -Circle
  BY <1>1, <1>2, <1>3, <1>4
<1>6. CASE d >= 1
  BY <1>1, <1>5, <1>6
<1>7. CASE d <= -1
  BY <1>1, <1>5, <1>7
<1>8. CASE d = 0
  BY <1>1, <1>2, <1>3, <1>4, <1>8
<1> QED
  BY <1>6, <1>7, <1>8

(* Turning by whole circles changes nothing.                               *)
LEMMA WholeCircles ==
  ASSUME NEW a \in Int, NEW k \in Int
  PROVE  Normalize(a + k * Circle) = Normalize(a)
<1>1. Circle \in Nat \ {0} /\ k * Circle \in Int
  BY PanelAssumption
<1>2. PICK j \in Int, r \in 0 .. Circle - 1 : Normalize(a) = r /\ a = j * Circle + r
  BY Around
<1>3. (j + k) * Circle = j * Circle + k * Circle
  BY <1>1
<1>4. a + k * Circle = (j + k) * Circle + r
  BY <1>1, <1>2, <1>3
<1>5. a + k * Circle \in Int /\ j + k \in Int
  BY <1>1
<1> QED
  BY <1>2, <1>4, <1>5, OnlyOnce

LEMMA NormalizeTyped ==
  ASSUME NEW a \in Int
  PROVE  Normalize(a) \in 0 .. Circle - 1
BY Around

(* The shorter way round, by the remainder of the angle.                   *)
LEMMA TurnIs ==
  ASSUME NEW a \in Int, NEW k \in Int, NEW r \in 0 .. Circle - 1, a = k * Circle + r
  PROVE  Turn(a) = IF 2 * r <= Circle THEN r ELSE Circle - r
<1>1. Circle \in Nat \ {0} /\ k * Circle \in Int
  BY PanelAssumption
<1>2. Normalize(a) = r
  BY OnlyOnce
<1>3. PICK s \in 0 .. Circle - 1 : s = IF r = 0 THEN 0 ELSE Circle - r
  BY <1>1
<1>4. Normalize(-a) = s
  <2>1. CASE r = 0
    <3>1. -a = (-k) * Circle + s
      BY <1>1, <1>3, <2>1
    <3> QED
      BY <3>1, OnlyOnce
  <2>2. CASE r # 0
    <3>1. (-k - 1) * Circle = -(k * Circle) - Circle
      BY <1>1
    <3>2. -a = (-k - 1) * Circle + s
      BY <1>1, <1>3, <2>2, <3>1
    <3> QED
      BY <3>2, OnlyOnce
  <2> QED
    BY <2>1, <2>2
<1>5. Turn(a) = Min({r, s})
  BY <1>2, <1>4 DEF Turn
<1>6. PICK n \in Nat : n = IF 2 * r <= Circle THEN r ELSE Circle - r
  <2>1. r \in Nat /\ Circle - r \in Nat
    BY <1>1
  <2> QED
    BY <2>1
<1>7. n \in {r, s} /\ \A z \in {r, s} : n <= z
  BY <1>1, <1>3, <1>6
<1>8. \A x \in {r, s} : (\A z \in {r, s} : x <= z) => x = n
  BY <1>1, <1>3, <1>6, <1>7
<1>9. Min({r, s}) = n
  BY <1>7, <1>8 DEF Min
<1> QED
  BY <1>5, <1>6, <1>9

(* The nearer of two opposite directions is at most a quarter away.        *)
LEMMA NearerIsQuarter ==
  ASSUME NEW a \in Int
  PROVE  Turn(a) > Circle \div 4 => Turn(a + Circle \div 2) <= Circle \div 4
<1>1. PICK q \in Nat \ {0} : Circle = 4 * q /\ Circle \div 4 = q /\ Circle \div 2 = 2 * q
  BY CircleIs
<1>2. PICK k \in Int, r \in 0 .. Circle - 1 : Normalize(a) = r /\ a = k * Circle + r
  BY Around
<1>3. Turn(a) = IF 2 * r <= Circle THEN r ELSE Circle - r
  BY <1>2, TurnIs
<1>4. ASSUME Turn(a) > q PROVE Turn(a + 2 * q) <= q
  <2>1. q < r /\ r < 3 * q
    BY <1>1, <1>3, <1>4
  <2>2. CASE r < 2 * q
    <3>1. a + 2 * q = k * Circle + (r + 2 * q) /\ r + 2 * q \in 0 .. Circle - 1
      BY <1>1, <1>2, <2>1, <2>2
    <3>2. Turn(a + 2 * q) = IF 2 * (r + 2 * q) <= Circle THEN r + 2 * q ELSE Circle - (r + 2 * q)
      BY <3>1, TurnIs
    <3> QED
      BY <1>1, <1>4, <2>1, <2>2, <3>2
  <2>3. CASE r >= 2 * q
    <3>1. (k + 1) * Circle = k * Circle + Circle
      BY <1>1
    <3>2. a + 2 * q = (k + 1) * Circle + (r - 2 * q) /\ r - 2 * q \in 0 .. Circle - 1
      BY <1>1, <1>2, <2>1, <2>3, <3>1
    <3>3. Turn(a + 2 * q) = IF 2 * (r - 2 * q) <= Circle THEN r - 2 * q ELSE Circle - (r - 2 * q)
      BY <3>2, TurnIs
    <3> QED
      BY <1>1, <1>4, <2>1, <2>3, <3>3
  <2> QED
    BY <1>1, <2>2, <2>3
<1> QED
  BY <1>1, <1>4, Zenon

(* The way to a direction is the way to its place on the circle.           *)
LEMMA TurnOnCircle ==
  ASSUME NEW a \in Int, NEW p \in Int
  PROVE  Turn(Normalize(a) - p) = Turn(a - p)
<1>1. PICK k \in Int, r \in 0 .. Circle - 1 : Normalize(a) = r /\ a = k * Circle + r
  BY Around
<1>2. PICK j \in Int, s \in 0 .. Circle - 1 : Normalize(r - p) = s /\ r - p = j * Circle + s
  <2>1. r - p \in Int
    BY PanelAssumption
  <2> QED
    BY <2>1, Around
<1>3. (k + j) * Circle = k * Circle + j * Circle /\ k * Circle \in Int /\ j * Circle \in Int
  BY PanelAssumption
<1>4. a - p = (k + j) * Circle + s
  BY <1>1, <1>2, <1>3
<1> QED
  BY <1>1, <1>2, <1>4, TurnIs

LEMMA HomeIsNear ==
  ASSUME NEW h \in Int, NEW p \in Int
  PROVE  LET far == Turn(h - p) > Circle \div 4
         IN  Turn((IF far THEN Normalize(h + Circle \div 2) ELSE h) - p) <= Circle \div 4
<1>1. PICK c \in Int : c = Circle \div 2
  BY CircleIs
<1>2. CASE Turn(h - p) > Circle \div 4
  <2>1. (h - p) + c = (h + c) - p
    OBVIOUS
  <2>2. Turn((h + c) - p) <= Circle \div 4
    BY <1>1, <1>2, <2>1, NearerIsQuarter
  <2> QED
    BY <1>1, <1>2, <2>2, TurnOnCircle
<1>3. CASE ~(Turn(h - p) > Circle \div 4)
  <2>1. PICK q \in Nat : q = Circle \div 4
    BY CircleIs
  <2>2. Turn(h - p) \in Int
    <3>1. PICK k \in Int, r \in 0 .. Circle - 1 : Normalize(h - p) = r /\ h - p = k * Circle + r
      <4>1. h - p \in Int
        OBVIOUS
      <4> QED
        BY <4>1, Around
    <3>2. Turn(h - p) = IF 2 * r <= Circle THEN r ELSE Circle - r
      BY <3>1, TurnIs
    <3> QED
      BY <3>2, PanelAssumption
  <2>3. Turn(h - p) <= Circle \div 4
    BY <1>3, <2>1, <2>2
  <2> QED
    BY <1>3, <2>3
<1> QED
  BY <1>2, <1>3

(* Relative to home and back is where it was.                              *)
LEMMA ThereAndBack ==
  ASSUME NEW y \in 0 .. Circle - 1, NEW h \in Int
  PROVE  Normalize((y - h) + h) = y
<1>1. (y - h) + h = 0 * Circle + y /\ (y - h) + h \in Int
  BY PanelAssumption
<1> QED
  BY <1>1, OnlyOnce

-----------------------------------------------------------------------------
(* The panel.                                                              *)

SavedRecords == [at : Places, home : PresetRecords]

(* A button counts as long pressed only while it is down and has been for  *)
(* the time of a long press; the readings counted are no fewer.            *)
ButtonsOK ==
  /\ sw \in [Presets -> [pressed : BOOLEAN, toggled : BOOLEAN, long : BOOLEAN, held : 0 .. Hold + 1]]
  /\ streak \in [Presets -> 0 .. 3 * Hold + 1]
  /\ \A b \in Presets : /\ sw[b].long => sw[b].pressed
                        /\ sw[b].pressed => sw[b].held + 1 <= streak[b]

(* A preset that was saved is the way from its home to its place.          *)
Relative(preset, was) ==
  preset.valid =>
    /\ preset.at.pitch + was.home.at.pitch = was.at.pitch
    /\ Normalize(preset.at.yaw + was.home.at.yaw) = was.at.yaw

PresetsOK ==
  /\ presets \in [Presets -> PresetRecords]
  /\ saved \in [Presets -> SavedRecords]
  /\ \A b \in Presets \ {Home} : saved[b].at \in OnCircle /\ Relative(presets[b], saved[b])

TargetOK == target \in IF load = Home THEN Places ELSE OnCircle

RestOK ==
  /\ pos \in Positions
  /\ joy \subseteq Axes
  /\ control_mode \in {"MANUAL", "AUTO"}
  /\ TargetOK
  /\ load \in Presets \cup {NoPreset}

PanelInv == ButtonsOK /\ PresetsOK /\ RestOK

LEMMA PanelConstants ==
  /\ Hold \in Nat \ {0} /\ Circle \in Nat \ {0} /\ 0 \in 0 .. Circle - 1
  /\ Home \in Presets /\ 1 \in Presets \ {Home}
  /\ \A p \in Positions : p \in OnCircle /\ p \in Places
  /\ \A p \in Entered : p \in Places
<1>1. LastPreset \in Nat \ {0} /\ Hold \in Nat \ {0} /\ Circle \in Nat \ {0}
  BY PanelAssumption
<1>2. Positions \subseteq OnCircle
  BY PanelAssumption DEF OnCircle
<1>3. OnCircle \subseteq Places
  BY <1>1 DEF OnCircle, Places
<1>4. Entered \subseteq Places
  BY PanelAssumption DEF Places
<1> QED
  BY <1>1, <1>2, <1>3, <1>4 DEF Home, Presets

LEMMA PanelInit == Init => PanelInv
<1> SUFFICES ASSUME Init PROVE PanelInv
  OBVIOUS
<1>1. ButtonsOK
  BY PanelConstants DEF Init, ButtonsOK
<1>2. Nowhere \in OnCircle /\ Nowhere \in Places
  BY PanelConstants DEF Nowhere, OnCircle, Places
<1>3. presets \in [Presets -> PresetRecords] /\ \A b \in Presets : ~presets[b].valid
  BY <1>2 DEF Init, PresetRecords, Places
<1>4. saved \in [Presets -> SavedRecords] /\ \A b \in Presets : saved[b].at \in OnCircle
  BY <1>2, <1>3, PanelConstants DEF Init, SavedRecords
<1>5. PresetsOK
  BY <1>3, <1>4 DEF PresetsOK, Relative
<1>6. NoPreset # Home
  BY DEF NoPreset, Home
<1>7. RestOK
  BY <1>2, <1>6 DEF Init, RestOK, TargetOK
<1> QED
  BY <1>1, <1>5, <1>7 DEF PanelInv

(* One reading of a button.                                                *)
LEMMA ReadSwitchIs ==
  ASSUME NEW s \in [pressed : BOOLEAN, toggled : BOOLEAN, long : BOOLEAN, held : 0 .. Hold + 1],
         NEW on \in BOOLEAN, s.long => s.pressed,
         NEW n \in 0 .. 3 * Hold + 1, s.pressed => s.held + 1 <= n
  PROVE  LET t == ReadSwitch(s, on)
             m == IF ~on THEN 0 ELSE IF n > 3 * Hold THEN n ELSE n + 1
         IN  /\ t \in [pressed : BOOLEAN, toggled : BOOLEAN, long : BOOLEAN, held : 0 .. Hold + 1]
             /\ m \in 0 .. 3 * Hold + 1
             /\ t.pressed = on /\ (t.long => on /\ m > Hold + 1)
             /\ t.pressed => t.held + 1 <= m
<1>1. Hold \in Nat \ {0}
  BY PanelConstants
<1>2. PICK held \in 0 .. Hold + 1 :
        held = IF (on # s.pressed) \/ ~on THEN 0 ELSE IF s.held <= Hold THEN s.held + 1 ELSE s.held
  BY <1>1
<1>3. PICK m \in 0 .. 3 * Hold + 1 : m = IF ~on THEN 0 ELSE IF n > 3 * Hold THEN n ELSE n + 1
  BY <1>1
<1>4. PICK toggled \in BOOLEAN : toggled = (on # s.pressed)
  OBVIOUS
<1>5. PICK long \in BOOLEAN : long = IF toggled THEN on /\ s.long ELSE on /\ held > Hold
  OBVIOUS
<1>6. ReadSwitch(s, on) = [pressed |-> on, toggled |-> toggled, held |-> held, long |-> long]
  BY <1>2, <1>4, <1>5 DEF ReadSwitch
<1>7. ASSUME on PROVE held + 1 <= m
  <2>1. m = IF n > 3 * Hold THEN n ELSE n + 1
    BY <1>3, <1>7
  <2>2. CASE s.pressed
    <3>1. held = IF s.held <= Hold THEN s.held + 1 ELSE s.held
      <4>1. on = s.pressed
        BY <1>7, <2>2
      <4> QED
        BY <1>2, <1>7, <4>1, Zenon
    <3>2. s.held \in 0 .. Hold + 1 /\ s.held + 1 <= n
      BY <2>2
    <3> QED
      BY <1>1, <2>1, <3>1, <3>2
  <2>3. CASE ~s.pressed
    <3>1. held = 0
      BY <1>2, <1>7, <2>3
    <3> QED
      BY <1>1, <2>1, <3>1
  <2> QED
    BY <2>2, <2>3
<1>8. long => on /\ held > Hold
  BY <1>4, <1>5
<1>9. long => m > Hold + 1
  BY <1>1, <1>7, <1>8
<1> QED
  BY <1>3, <1>6, <1>7, <1>8, <1>9

(* Where a load sends the crane.                                           *)
LEMMA HomeIsReached ==
  ASSUME NEW ps \in [Presets -> PresetRecords], NEW p \in OnCircle
  PROVE  /\ Destination(ps, Home, p) \in Places
         /\ Turn(Destination(ps, Home, p).yaw - p.yaw) <= Circle \div 4
<1>1. PICK h \in Int, hp \in Int : h = ps[Home].at.yaw /\ hp = ps[Home].at.pitch
  BY PanelConstants DEF PresetRecords, Places
<1>2. PICK y \in Int : y = p.yaw
  BY PanelConstants DEF OnCircle
<1>3. PICK x : x = IF Turn(h - y) > Circle \div 4 THEN Normalize(h + Circle \div 2) ELSE h
  OBVIOUS
<1>4. x \in Int
  <2>1. PICK c \in Int : c = Circle \div 2
    BY CircleIs
  <2>2. Normalize(h + c) \in Int
    BY NormalizeTyped
  <2> QED
    BY <1>3, <2>1, <2>2
<1>5. ps[Home].at = [pitch |-> hp, yaw |-> h]
  BY <1>1, PanelConstants DEF PresetRecords, Places
<1>6. Destination(ps, Home, p) = [pitch |-> hp, yaw |-> x]
  BY <1>2, <1>3, <1>5 DEF Destination
<1>7. Turn(x - y) <= Circle \div 4
  BY <1>3, HomeIsNear
<1> QED
  BY <1>2, <1>4, <1>6, <1>7 DEF Places

LEMMA PresetIsReached ==
  ASSUME NEW ps \in [Presets -> PresetRecords], NEW p, NEW b \in Presets \ {Home}
  PROVE  /\ Destination(ps, b, p) \in OnCircle
         /\ \A w \in SavedRecords :
              Relative(ps[b], w) /\ ps[b].valid /\ w.home = ps[Home]
                => Destination(ps, b, p) = w.at
<1>1. PICK h \in Int, hp \in Int : h = ps[Home].at.yaw /\ hp = ps[Home].at.pitch
  BY PanelConstants DEF PresetRecords, Places
<1>2. PICK a \in Int, ap \in Int : a = ps[b].at.yaw /\ ap = ps[b].at.pitch
  BY DEF PresetRecords, Places
<1>3. Destination(ps, b, p) = [pitch |-> ap + hp, yaw |-> Normalize(a + h)]
  BY <1>1, <1>2, Zenon DEF Destination
<1>4. Normalize(a + h) \in 0 .. Circle - 1
  BY NormalizeTyped
<1>5. Destination(ps, b, p) \in OnCircle
  BY <1>3, <1>4 DEF OnCircle
<1>6. ASSUME NEW w \in SavedRecords,
             Relative(ps[b], w), ps[b].valid, w.home = ps[Home]
      PROVE  Destination(ps, b, p) = w.at
  <2>1. ap + hp = w.at.pitch /\ Normalize(a + h) = w.at.yaw
    BY <1>1, <1>2, <1>6, Zenon DEF Relative
  <2> QED
    BY <1>3, <2>1 DEF SavedRecords, Places
<1> QED
  BY <1>5, <1>6

(* Saving a preset makes it relative to home, and home itself is stored as *)
(* it is.                                                                  *)
LEMMA SavedIs ==
  ASSUME NEW s, NEW p \in OnCircle, presets \in [Presets -> PresetRecords]
  PROVE  LET ps == SavePresets(s, p)
         IN  /\ ps \in [Presets -> PresetRecords]
             /\ \A b \in Presets : ~s[b].long => ps[b] = presets[b]
             /\ \A b \in Presets \ {Home} : s[b].long => Relative(ps[b], [at |-> p, home |-> ps[Home]])
<1>1. PICK ps : ps = SavePresets(s, p)
  OBVIOUS
<1>2. PICK home : home = IF s[Home].long THEN [valid |-> TRUE, at |-> p] ELSE presets[Home]
  OBVIOUS
<1>3. p \in Places /\ p.yaw \in 0 .. Circle - 1 /\ p.yaw \in Int /\ p.pitch \in Int
  BY PanelConstants DEF Places, OnCircle
<1>4. home \in PresetRecords
  BY <1>2, <1>3, PanelConstants DEF PresetRecords, Places
<1>5. ps = [b \in Presets |-> CASE b = Home -> home
                                 [] b # Home /\ s[b].long -> PresetAt(p, home)
                                 [] OTHER -> presets[b]]
  BY <1>1, <1>2, Zenon DEF SavePresets
<1>6. ps[Home] = home
  BY <1>5, PanelConstants
<1>7. \A b \in Presets \ {Home} : ps[b] = IF s[b].long THEN PresetAt(p, home) ELSE presets[b]
  BY <1>5
<1>8. PresetAt(p, home) \in PresetRecords
  BY <1>3, <1>4 DEF PresetAt, PresetRecords, Places
<1>9. ps \in [Presets -> PresetRecords]
  <2>1. \A b \in Presets : ps[b] \in PresetRecords
    BY <1>4, <1>6, <1>7, <1>8
  <2> QED
    BY <1>5, <2>1
<1>10. Relative(PresetAt(p, home), [at |-> p, home |-> home])
  <2>1. PICK h \in Int, hp \in Int : h = home.at.yaw /\ hp = home.at.pitch
    BY <1>4 DEF PresetRecords, Places
  <2>2. PresetAt(p, home).at = [pitch |-> p.pitch - hp, yaw |-> p.yaw - h]
    BY <2>1 DEF PresetAt
  <2>3. Normalize((p.yaw - h) + h) = p.yaw /\ (p.pitch - hp) + hp = p.pitch
    BY <1>3, ThereAndBack
  <2> QED
    BY <2>1, <2>2, <2>3 DEF Relative
<1>11. \A b \in Presets : ~s[b].long => ps[b] = presets[b]
  BY <1>2, <1>6, <1>7
<1> QED
  BY <1>1, <1>6, <1>7, <1>9, <1>10, <1>11

-----------------------------------------------------------------------------
(* What a step does: it keeps the invariant, a load goes where it should,  *)
(* and the loop saves a preset only after a long press.                    *)

GoodLoad ==
  /\ load' \in Presets \cup {NoPreset}
  /\ load' = Home => Turn(target'.yaw - pos'.yaw) <= Circle \div 4
  /\ load' \in Presets \ {Home} /\ saved'[load'].home = presets'[Home] => target' = saved'[load'].at

(* A load, of whichever preset.                                            *)
LEMMA LoadIsGood ==
  ASSUME PresetsOK', NEW b \in Presets, CanLoad(presets', b), pos' \in Positions,
         load' = b, target' = Destination(presets', b, pos')
  PROVE  GoodLoad /\ TargetOK'
<1>1. pos' \in OnCircle /\ presets' \in [Presets -> PresetRecords]
  BY PanelConstants DEF PresetsOK
<1>2. CASE b = Home
  <2>1. target' \in Places /\ Turn(target'.yaw - pos'.yaw) <= Circle \div 4
    BY <1>1, <1>2, HomeIsReached
  <2> QED
    BY <1>2, <2>1 DEF GoodLoad, TargetOK
<1>3. CASE b # Home
  <2>1. b \in Presets \ {Home}
    BY <1>3
  <2>2. Relative(presets'[b], saved'[b]) /\ saved'[b] \in SavedRecords
    BY <2>1 DEF PresetsOK, Relative
  <2>3. presets'[b].valid
    BY DEF CanLoad
  <2>4. target' \in OnCircle
    BY <1>1, <2>1, PresetIsReached
  <2>5. saved'[b].home = presets'[Home] => target' = saved'[b].at
    BY <1>1, <2>1, <2>2, <2>3, PresetIsReached
  <2> QED
    BY <1>3, <2>4, <2>5 DEF GoodLoad, TargetOK
<1> QED
  BY <1>2, <1>3

LEMMA NoLoadIsGood ==
  ASSUME load' = NoPreset, target' = Nowhere
  PROVE  GoodLoad /\ TargetOK'
<1>1. Nowhere \in OnCircle
  BY PanelConstants DEF Nowhere, OnCircle
<1>2. NoPreset \notin Presets
  BY PanelAssumption DEF NoPreset, Presets
<1> QED
  BY <1>1, <1>2, PanelConstants DEF GoodLoad, TargetOK

LEMMA PassStep ==
  ASSUME PanelInv, NEW on \in SUBSET Presets, NEW p \in Positions, NEW j \in Joys, Pass(on, p, j)
  PROVE  /\ PanelInv' /\ GoodLoad
         /\ \A b \in Presets : presets'[b] # presets[b] => streak'[b] > Hold + 1
<1>1. p \in OnCircle /\ p \in Places
  BY PanelConstants
<1>2. presets \in [Presets -> PresetRecords]
  BY DEF PanelInv, PresetsOK
<1>3. /\ sw' = [b \in Presets |-> ReadSwitch(sw[b], b \in on)]
      /\ streak' = [b \in Presets |->
           IF ~(b \in on) THEN 0 ELSE IF streak[b] > 3 * Hold THEN streak[b] ELSE streak[b] + 1]
  BY DEF Pass
<1>4. \A b \in Presets :
        /\ sw'[b] \in [pressed : BOOLEAN, toggled : BOOLEAN, long : BOOLEAN, held : 0 .. Hold + 1]
        /\ streak'[b] \in 0 .. 3 * Hold + 1
        /\ sw'[b].long => sw'[b].pressed /\ streak'[b] > Hold + 1
        /\ sw'[b].pressed => sw'[b].held + 1 <= streak'[b]
  <2> TAKE b \in Presets
  <2>1. /\ sw[b] \in [pressed : BOOLEAN, toggled : BOOLEAN, long : BOOLEAN, held : 0 .. Hold + 1]
        /\ streak[b] \in 0 .. 3 * Hold + 1
        /\ sw[b].long => sw[b].pressed
        /\ sw[b].pressed => sw[b].held + 1 <= streak[b]
    BY DEF PanelInv, ButtonsOK
  <2>2. sw'[b] = ReadSwitch(sw[b], b \in on)
    BY <1>3
  <2>3. streak'[b] = IF ~(b \in on) THEN 0 ELSE IF streak[b] > 3 * Hold THEN streak[b] ELSE streak[b] + 1
    BY <1>3
  <2>4. (b \in on) \in BOOLEAN
    OBVIOUS
  <2>5. PICK down : down = (b \in on)
    OBVIOUS
  <2>6. down \in BOOLEAN
    BY <2>4, <2>5, Zenon
  <2>7. sw'[b] = ReadSwitch(sw[b], down)
    BY <2>2, <2>5, Zenon
  <2>8. streak'[b] = IF ~down THEN 0 ELSE IF streak[b] > 3 * Hold THEN streak[b] ELSE streak[b] + 1
    BY <2>3, <2>5, Zenon
  <2>9. PICK s, n : s = sw[b] /\ n = streak[b]
    OBVIOUS
  <2>10. LET m == IF ~down THEN 0 ELSE IF n > 3 * Hold THEN n ELSE n + 1
         IN  /\ ReadSwitch(s, down) \in
                  [pressed : BOOLEAN, toggled : BOOLEAN, long : BOOLEAN, held : 0 .. Hold + 1]
             /\ m \in 0 .. 3 * Hold + 1
             /\ ReadSwitch(s, down).pressed = down
             /\ ReadSwitch(s, down).long => down /\ m > Hold + 1
             /\ ReadSwitch(s, down).pressed => ReadSwitch(s, down).held + 1 <= m
    BY <2>1, <2>6, <2>9, ReadSwitchIs
  <2> QED
    BY <2>7, <2>8, <2>9, <2>10
<1>5. ButtonsOK'
  <2>1. sw' \in [Presets -> [pressed : BOOLEAN, toggled : BOOLEAN, long : BOOLEAN, held : 0 .. Hold + 1]]
    BY <1>3, <1>4
  <2>2. streak' \in [Presets -> 0 .. 3 * Hold + 1]
    BY <1>3, <1>4
  <2> QED
    BY <1>4, <2>1, <2>2 DEF ButtonsOK
<1>6. presets' = SavePresets(sw', p)
  BY DEF Pass
<1>7. /\ presets' \in [Presets -> PresetRecords]
      /\ \A b \in Presets : ~sw'[b].long => presets'[b] = presets[b]
      /\ \A b \in Presets \ {Home} :
           sw'[b].long => Relative(presets'[b], [at |-> p, home |-> presets'[Home]])
  BY <1>1, <1>2, <1>6, SavedIs
<1>8. saved' = [b \in Presets |->
                  IF sw'[b].long THEN [at |-> p, home |-> presets'[Home]] ELSE saved[b]]
  BY DEF Pass
<1>9. PresetsOK'
  <2>1. saved \in [Presets -> SavedRecords]
    BY DEF PanelInv, PresetsOK
  <2>2. presets'[Home] \in PresetRecords
    BY <1>7, PanelConstants
  <2>3. saved' \in [Presets -> SavedRecords]
    <3>1. [at |-> p, home |-> presets'[Home]] \in SavedRecords
      BY <1>1, <2>2 DEF SavedRecords
    <3> QED
      BY <1>8, <2>1, <3>1
  <2>4. \A b \in Presets \ {Home} : saved'[b].at \in OnCircle /\ Relative(presets'[b], saved'[b])
    <3> TAKE b \in Presets \ {Home}
    <3>1. CASE sw'[b].long
      BY <1>1, <1>7, <1>8, <3>1
    <3>2. CASE ~sw'[b].long
      <4>1. saved[b].at \in OnCircle /\ Relative(presets[b], saved[b])
        BY DEF PanelInv, PresetsOK
      <4> QED
        BY <1>7, <1>8, <3>2, <4>1
    <3> QED
      BY <3>1, <3>2
  <2> QED
    BY <1>7, <2>3, <2>4 DEF PresetsOK, Relative
<1>10. \A b \in Presets : presets'[b] # presets[b] => streak'[b] > Hold + 1
  BY <1>4, <1>7
<1>11. pos' = p /\ joy' = j
  BY DEF Pass
<1>12. GoodLoad /\ TargetOK'
  <2>1. PICK loads : loads = {b \in Presets : sw'[b].toggled /\ ~sw'[b].pressed /\ CanLoad(presets', b)}
    OBVIOUS
  <2>2. /\ load' = IF loads = {} THEN NoPreset ELSE Max(loads)
        /\ target' = IF loads = {} THEN Nowhere ELSE Destination(presets', load', p)
    BY <2>1, Zenon DEF Pass
  <2>3. CASE loads = {}
    BY <2>2, <2>3, NoLoadIsGood
  <2>4. CASE loads # {}
    <3>1. Max(loads) \in loads
      BY <2>1, <2>4, MaxOfPresets
    <3>2. load' \in Presets /\ CanLoad(presets', load')
      BY <2>1, <2>2, <2>4, <3>1
    <3>3. target' = Destination(presets', load', pos') /\ pos' \in Positions
      BY <1>11, <2>2, <2>4
    <3>4. PICK b \in Presets : b = load'
      BY <3>2
    <3> QED
      BY <1>9, <3>2, <3>3, <3>4, LoadIsGood
  <2> QED
    BY <2>3, <2>4
<1>13. control_mode' \in {"MANUAL", "AUTO"}
  BY DEF Pass, Abort, PanelInv, RestOK, TargetOK
<1>14. joy' \subseteq Axes
  BY <1>11, PanelAssumption
<1>15. RestOK'
  BY <1>11, <1>12, <1>13, <1>14 DEF RestOK, GoodLoad, TargetOK
<1> QED
  BY <1>5, <1>9, <1>10, <1>12, <1>15 DEF PanelInv

(* The console.                                                            *)
LEMMA LoadCommandStep ==
  ASSUME PanelInv, NEW b \in Presets, LoadCommand(b)
  PROVE  PanelInv' /\ GoodLoad
<1>1. UNCHANGED <<sw, presets, pos, joy, streak, saved>>
  BY DEF LoadCommand
<1>2. ButtonsOK' /\ PresetsOK'
  BY <1>1 DEF PanelInv, ButtonsOK, PresetsOK, Relative
<1>3. pos' \in Positions
  BY <1>1 DEF PanelInv, RestOK, TargetOK
<1>4. CanLoad(presets', b) /\ load' = b /\ target' = Destination(presets', b, pos')
  BY <1>1 DEF LoadCommand
<1>5. GoodLoad /\ TargetOK'
  BY <1>2, <1>3, <1>4, LoadIsGood
<1>6. RestOK'
  BY <1>1, <1>5 DEF PanelInv, RestOK, LoadCommand, GoodLoad, TargetOK
<1> QED
  BY <1>2, <1>5, <1>6 DEF PanelInv

LEMMA SetHomeStep ==
  ASSUME PanelInv, NEW p \in Entered, SetHomeCommand(p)
  PROVE  PanelInv' /\ GoodLoad
<1>1. PICK home : home = [valid |-> TRUE, at |-> p]
  OBVIOUS
<1>2. p \in Places /\ home \in PresetRecords
  BY <1>1, PanelConstants DEF PresetRecords, Places
<1>3. presets \in [Presets -> PresetRecords] /\ saved \in [Presets -> SavedRecords]
  BY DEF PanelInv, PresetsOK
<1>4. presets' = [presets EXCEPT ![Home] = home]
  BY <1>1 DEF SetHomeCommand
<1>5. saved' = [saved EXCEPT ![Home] = [at |-> p, home |-> presets'[Home]]]
  BY DEF SetHomeCommand
<1>6. presets' \in [Presets -> PresetRecords] /\ presets'[Home] \in PresetRecords
  BY <1>2, <1>3, <1>4, PanelConstants
<1>7. saved' \in [Presets -> SavedRecords]
  <2>1. [at |-> p, home |-> presets'[Home]] \in SavedRecords
    BY <1>2, <1>6 DEF SavedRecords
  <2> QED
    BY <1>3, <1>5, <2>1
<1>8. \A b \in Presets \ {Home} : saved'[b].at \in OnCircle /\ Relative(presets'[b], saved'[b])
  <2> TAKE b \in Presets \ {Home}
  <2>1. presets'[b] = presets[b] /\ saved'[b] = saved[b]
    BY <1>3, <1>4, <1>5
  <2> QED
    BY <2>1 DEF PanelInv, PresetsOK, Relative
<1>9. PresetsOK'
  BY <1>6, <1>7, <1>8 DEF PresetsOK, Relative
<1>10. ButtonsOK'
  BY DEF SetHomeCommand, PanelInv, ButtonsOK
<1>11. GoodLoad /\ TargetOK'
  BY NoLoadIsGood DEF SetHomeCommand
<1>12. RestOK'
  BY <1>11 DEF SetHomeCommand, PanelInv, RestOK, GoodLoad, TargetOK
<1> QED
  BY <1>9, <1>10, <1>11, <1>12 DEF PanelInv

LEMMA SetLocalStep ==
  ASSUME PanelInv, SetLocalCommand
  PROVE  PanelInv' /\ GoodLoad
<1>1. presets \in [Presets -> PresetRecords] /\ saved \in [Presets -> SavedRecords]
  BY DEF PanelInv, PresetsOK
<1>2. PICK h \in Int, hp \in Int : h = presets[Home].at.yaw /\ hp = presets[Home].at.pitch
  BY <1>1, PanelConstants DEF PresetRecords, Places
<1>3. PICK beside : beside = [valid |-> TRUE, at |-> [pitch |-> 0, yaw |-> 1]]
  OBVIOUS
<1>4. PICK was : was = [at |-> [pitch |-> hp, yaw |-> Normalize(h + 1)], home |-> presets[Home]]
  OBVIOUS
<1>5. presets' = [presets EXCEPT ![1] = beside]
  BY <1>3 DEF SetLocalCommand
<1>6. saved' = [saved EXCEPT ![1] = was]
  BY <1>2, <1>4, Zenon DEF SetLocalCommand
<1>7. beside \in PresetRecords /\ beside.at.pitch = 0 /\ beside.at.yaw = 1
  BY <1>3 DEF PresetRecords, Places
<1>8. Normalize(h + 1) \in 0 .. Circle - 1 /\ 1 + h = h + 1 /\ 0 + hp = hp
  BY NormalizeTyped
<1>9. was \in SavedRecords /\ was.at \in OnCircle
  <2>1. presets[Home] \in PresetRecords
    BY <1>1, PanelConstants
  <2>2. was.at \in OnCircle /\ was.at \in Places
    BY <1>4, <1>8, PanelConstants DEF OnCircle, Places
  <2> QED
    BY <1>4, <2>1, <2>2 DEF SavedRecords
<1>10. presets' \in [Presets -> PresetRecords] /\ saved' \in [Presets -> SavedRecords]
  BY <1>1, <1>5, <1>6, <1>7, <1>9
<1>11. Relative(beside, was)
  <2>1. beside.at.yaw + was.home.at.yaw = h + 1 /\ beside.at.pitch + was.home.at.pitch = hp
    BY <1>2, <1>4, <1>7, <1>8
  <2>2. was.at.pitch = hp /\ was.at.yaw = Normalize(h + 1)
    BY <1>4
  <2>3. Normalize(beside.at.yaw + was.home.at.yaw) = was.at.yaw
    BY <2>1, <2>2, Zenon
  <2> QED
    BY <2>1, <2>2, <2>3, Zenon DEF Relative
<1>12. \A b \in Presets \ {Home} : saved'[b].at \in OnCircle /\ Relative(presets'[b], saved'[b])
  <2> TAKE b \in Presets \ {Home}
  <2>1. CASE b = 1
    BY <1>1, <1>5, <1>6, <1>9, <1>11, <2>1
  <2>2. CASE b # 1
    <3>1. presets'[b] = presets[b] /\ saved'[b] = saved[b]
      BY <1>1, <1>5, <1>6, <2>2
    <3> QED
      BY <3>1 DEF PanelInv, PresetsOK, Relative
  <2> QED
    BY <2>1, <2>2
<1>13. PresetsOK'
  BY <1>10, <1>12 DEF PresetsOK, Relative
<1>14. ButtonsOK'
  BY DEF SetLocalCommand, PanelInv, ButtonsOK
<1>15. GoodLoad /\ TargetOK'
  BY NoLoadIsGood DEF SetLocalCommand
<1>16. RestOK'
  BY <1>15 DEF SetLocalCommand, PanelInv, RestOK, GoodLoad, TargetOK
<1> QED
  BY <1>13, <1>14, <1>15, <1>16 DEF PanelInv

LEMMA ManualStep ==
  ASSUME PanelInv, ManualCommand
  PROVE  PanelInv' /\ GoodLoad
<1>1. ButtonsOK' /\ PresetsOK'
  BY DEF ManualCommand, PanelInv, ButtonsOK, PresetsOK, Relative
<1>2. GoodLoad /\ TargetOK'
  BY NoLoadIsGood DEF ManualCommand
<1>3. RestOK'
  BY <1>2 DEF ManualCommand, PanelInv, RestOK, GoodLoad, TargetOK
<1> QED
  BY <1>1, <1>2, <1>3 DEF PanelInv

LEMMA PanelStep ==
  ASSUME PanelInv, Next
  PROVE  /\ PanelInv' /\ GoodLoad
         /\ Loop => \A b \in Presets : presets'[b] # presets[b] => streak'[b] > Hold + 1
<1>1. ASSUME Loop
      PROVE  /\ PanelInv' /\ GoodLoad
             /\ \A b \in Presets : presets'[b] # presets[b] => streak'[b] > Hold + 1
  BY <1>1, PassStep DEF Loop
<1>2. ASSUME Console PROVE PanelInv' /\ GoodLoad
  BY <1>2, LoadCommandStep, SetHomeStep, SetLocalStep, ManualStep DEF Console
<1> QED
  BY <1>1, <1>2 DEF Next

LEMMA PanelInvariant == Spec => []PanelInv
<1>1. PanelInv /\ [Next]_vars => PanelInv'
  <2>1. ASSUME PanelInv, UNCHANGED vars PROVE PanelInv'
    BY <2>1 DEF vars, history, PanelInv, ButtonsOK, PresetsOK, Relative, RestOK, TargetOK
  <2> QED
    BY <2>1, PanelStep
<1> QED
  BY <1>1, PanelInit, PTL DEF Spec

-----------------------------------------------------------------------------
(* The switches, presets, control mode and targets of the panel keep their *)
(* types; a target of yaw is always on the circle.                         *)
THEOREM PanelTypeCorrect == Spec => []TypeOK
<1>1. PanelInv => TypeOK
  BY DEF PanelInv, ButtonsOK, PresetsOK, RestOK, TargetOK, TypeOK, SavedRecords
<1> QED
  BY <1>1, PanelInvariant, PTL

(* However the buttons bounce, the loop overwrites a preset only when that *)
(* button has been down for longer than the long-press time.               *)
THEOREM SavesAreHeld == Spec => SavesOnlyAfterHold
<1>1. PanelInv /\ [Next]_vars =>
        [Loop => \A b \in Presets : presets'[b] # presets[b] => streak'[b] > Hold + 1]_vars
  BY PanelStep
<1> QED
  BY <1>1, PanelInvariant, PTL DEF Spec, SavesOnlyAfterHold

(* A preset leads back to where it was saved, for every circle, number of  *)
(* presets and place, as long as home stays where it was.                  *)
THEOREM LoadsAreRight == Spec => LoadsWhatWasSaved
<1>1. PanelInv /\ [Next]_vars =>
        [load' \in Presets \ {Home} /\ saved'[load'].home = presets'[Home]
           => target' = saved'[load'].at]_vars
  BY PanelStep DEF GoodLoad
<1> QED
  BY <1>1, PanelInvariant, PTL DEF Spec, LoadsWhatWasSaved

(* A load of home never turns by more than a quarter, from every place.    *)
THEOREM HomeIsClose == Spec => HomeTurnsAtMostQuarter
<1>1. PanelInv /\ [Next]_vars => [load' = Home => Turn(target'.yaw - pos'.yaw) <= Circle \div 4]_vars
  BY PanelStep DEF GoodLoad
<1> QED
  BY <1>1, PanelInvariant, PTL DEF Spec, HomeTurnsAtMostQuarter
=============================================================================
