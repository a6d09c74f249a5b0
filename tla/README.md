# FlyingBergman crane: specifications, checks and proofs

The firmware in `src/` drives a camera crane with two identical boards on one
CAN bus. The board with CAN address 1 is the *master*: it has the control
panel (joystick, knobs, preset buttons). Any other address makes a board a
*slave*, which drives the motors. The boards speak CANopen: the master sends
demands, the slave sends positions and currents.

This directory holds TLA+ specifications of that program, the configurations
by which TLC checks them, and proofs that TLAPS checks. Paths below are
relative to the repository; line numbers of every definition are in
`PROJECT.json` under `map`.

To check a module: `tlc -config <run>.cfg MC<Module>`; to prove one:
`tlapm <Module>Proofs.tla`. There are eight modules of proofs, all of them
checked to the last leaf.

## 1. The system

### Components

| part | source | state it keeps | operations |
|---|---|---|---|
| control loop | `src/fb.c`, `fb_output.c`, `fb_state_operational.c` | mode, control mode, output | one pass each millisecond: link, measurements, state, control, motors |
| link monitor, object dictionary of the application | `src/fb_can.c` | demand deadlines, valid bits of the slave's items, timed_out | dictionary read and write, monitor, configuration of the slave |
| CANopen driver | `src/driver/can/canopen.c` | one SDO request, PDO tables, SYNC counter, LSS | SDO read and write, SDO server, PDOs, service runner each millisecond |
| control panel | `src/fb_inputs.c`, `fb_config.c`, `fb_preset.c` | switches, presets | read the inputs, save and load presets |
| automatic moves | `src/fb_control.c`, `motion_profile.c` | two axis controllers | set target and limits, clock, reset |
| console | `src/fb_cmd.c` | none of its own | changes nearly all of the above |
| measurements | `src/measured.c` | scaled inputs, the unwrapped yaw | once per pass |
| indicators, user interface | `src/fb_leds.c`, `ui.c` | LED states | presentation |
| time | `src/system/timestamp.c`, `stm32f4xx/timestamp.c` | the tick counter | lock-free reading of the clock, arithmetic and comparison of deadlines |
| CAN driver, dispatcher | `src/system/can.c`, `stm32f4xx/stm32_can.c` | two queues, the mailboxes, the interrupt enable bits | send, transmit and receive interrupt, dispatch to listeners |
| ring buffer | `src/system/cbuf.c` | head, tail, full | put, put unless full, get, clear |
| register map, events, ... | `src/system/*.c` | | library |
| vendored | FreeRTOS, ST peripheral library, libfdt, MicroPython, USB, spiffs | | not part of this work |

### Interaction and threads

| thread | priority | runs |
|---|---|---|
| `cano_tx` | 3 | service runner: SDO timeout, SYNC, PDOs of the master |
| `can_disp` | 2 | the CANopen handler, and through the register map the dictionary of `fb_can.c` |
| `fb_ctrl` | 2 | the control loop; on the master it calls SDO and blocks there |
| `fb_ind` | 1 | indicators |
| shell | 1 | the console commands |

They share `struct fb` and `struct canopen`. Some fields have a lock
(`slave.lock`, `sdo.mx`), most have none: the demands and their deadlines,
`control_mode`, `timed_out`, the presets, the axis controllers, the `running`
flag of the SDO request. Two boards interact by frames only, which may be
lost, and either board may restart alone.

### What is hard, and what makes each part correct

* The link. A slave must not follow a master that is gone, must not stop for
  one that is there, and must come back under its control. The master must
  notice a slave that is gone, must not reconfigure one that is there, and must
  get it back after any loss or restart. PDOs carry no names, so the two
  mappings must never be crossed.
* SDO. One request at a time, ended by an answer or by a timeout from another
  thread, while the caller's own wait may expire at the same moment. A call
  returns, belongs to its own request, and its success is real.
* The drive. Whatever the modes do, the motor speeds up gradually and never
  drives out of the pitch travel.
* The panel. Presets change only by a long press and lead where they were saved;
  home is approached by the shorter way; the joystick ends every move.
* Moves. A move is planned from one target and one set of limits; both axes
  arrive together; every move ends; an aborted move stays aborted.
* The CAN port. Threads and two interrupt handlers share the interrupt enable
  register and the queues. An accepted frame goes out once and does not wait
  for the next write; the dispatcher, which both receives and answers, never
  stays away.
* Time. A thread reads two counters of which one runs on in hardware and the
  other is an interrupt behind; deadlines are compared in 32 bits.
* The yaw. A 16-bit encoder is unwrapped onto a circle of a million ticks.

The hazards behind this list, each at its line, are in `PROJECT.json` under
`hazards`, with the properties that cover them or the reason why none does yet.

## 2. The modules

| module | models | instance |
|---|---|---|
| `FbOutput` | ramp and pitch limit as operators | used by `Fb` |
| `Fb` | one board: loop, monitor, control modes, demands and items arriving, console | `MCFb` |
| `FbProofs` | theorems of `Fb` | |
| `SdoExchange` | abstract: one SDO access after the other, with true outcomes | implemented by `CanopenSdo` |
| `CanopenSdo` | SDO callers, service runner, handler, the node that serves, the bus | `MCCanopenSdo` |
| `CanopenSdoProofs` | theorems of `CanopenSdo`, the refinement among them | |
| `CanopenPdo` | a PDO entry as operators: what configures, sends and receives it | used by `FbLink` |
| `FbLink` | both boards: monitor, configuration step by step, SYNC and PDOs, restarts and losses | `MCFbLink` |
| `FbLinkProofs` | theorems of `CanopenPdo` and `FbLink` | |
| `FbPanel` | buttons, presets, joystick, console | `MCFbPanel` |
| `FbPanelProofs` | theorems of `FbPanel` | |
| `FbControl` | axis controllers, loading of presets by button and console | `MCFbControl` |
| `FbControlProofs` | theorems of `FbControl` | |
| `CanChannel` | abstract: accepted frames go out, each once | implemented by `CanPort` |
| `CanPort` | the CAN driver's queues, mailboxes and interrupts, the dispatcher | `MCCanPort` |
| `CanPortProofs` | theorems of `CanPort`, the refinement among them | |
| `Timestamp`, `TimestampProofs` | the clock beside its interrupt, deadlines; theorems | `MCLibrary` |
| `YawTicks` | unwrapping the yaw encoder | `MCLibrary` |
| `OverwritingQueue` | abstract: a bounded queue that keeps the latest items | implemented by `Cbuf` |
| `Cbuf` | the ring buffer | `MCLibrary` |
| `LibraryProofs` | theorems of `YawTicks` and `Cbuf`, the refinement among them | |

Definitions named after a mutation (`MonitorKeepsBits`, `PlanKeepsStart`, ...)
stand before the definition that they mutate and are commented as mutants. Each
replaces its original in one further run of TLC, which must find the property
violated: that shows the property depends on the code.

### Fb

The loop body is a program counter: `can` (`fb_can_clock`,
`fb_check_link_state`), `reinit` (the master, blocked in `fb_can_reinit`),
`state` (`_fb_update_state` with `_fb_check_mode`), `control`
(`_fb_update_control`, `_fb_update_motors`), `sleep`. The dispatcher's
`WriteDemand` and `WriteItem`, and the console, happen between any two of these.
Deadlines count down in ticks, `-1` is expired: `timestamp_expired` is strict.
`age` and `item_age` are history variables, for the properties only. Outputs
are integers up to `Full`, the code's `1.0`. The output of the axis controllers
and what is measured are any of a small set. The loop body fits its
millisecond, except in `reinit`.

### CanopenSdo

One variable per field of `sdo` (`running`, `result`, `done`, `mx`, ...). A call
is several steps, between which every other thread may run: it begins (`Start`),
sends or fails to, takes the token or stops waiting for it, leaves. `RxCheck` and
`RxAct` are the two halves of the handler's unlocked look at `running`. Each of
these steps writes more than one field; the interleavings that matter are those
between them. `Send` is still to come after `Start`, so the runner may end a
request that its caller is still sending. The bus moves,
loses and keeps frames. Whether it is `timely` is chosen once: on a timely bus
no frame outlives the call that it belongs to, on the other one frames of
earlier calls stay about. `MaxFrames` bounds the frames that are under way.
`LateValue` is the one value that frames carry on a bus that is not timely,
where no property compares values.

`SdoExchange` is what callers may count on, in three actions: a call begins, a
write is performed, a call returns. The refinement mapping keeps `ret`, `buf`
and the nodes' dictionaries and takes the holder of `sdo.mx` for the call in
progress. A read may succeed without data: that is what the code does
(violation 3), so the abstract specification does not promise more.

### CanopenPdo and FbLink

`Written(e, m, n)` is the n-th write of `_canopen_pdo_configure`, `IsDue` and
`Frame` are what `_send_pending_pdos` makes of an entry, `Deliveries` what the
receiver makes of a frame by its own entry. In `FbLink` the master's loop calls
the monitor and, when it fails, runs through the six calls of
`_fb_can_reinit_slaves` one write at a time; a write to the slave may be lost,
or done with its answer lost, and ends the configuration. A `Tick` is a SYNC
period with the PDOs that it causes, each of which may be lost. Boards stop,
start and restart at any time, with empty tables, until `Calm`, after which
there are no more faults. A slave that restarts during a configuration loses
the request that the master makes meanwhile; the model lets it come up when
that has timed out, which differs in nothing that is observed. SDO is taken as
`CanopenSdo` on a timely bus shows it to be: a successful write is real.

### FbPanel

One pass of the loop is one step: switches, `_fb_state_operational`, the abort
in `_fb_update_control`. Yaw is an integer modulo `Circle`, so
`normalize_angle` is a remainder. Home is taken as it was stored and put onto the
circle only when it is turned by half a circle, as in the code; the console may
enter any angle for it (`Entered`). `streak` and `saved` are history.

### FbControl

A load of a preset is a number; target, limits and plan of an axis remember the
load that they came from, which is all that the properties ask of their values.
A plan is known by the ticks that it takes. Time is counted in `1/Scale` of a
tick so that a stretched timebase stays an integer. The button's load is one
step of the loop; the console's is a statement at a time, because it has the
lower priority and holds no lock. `torn` is history: a pass in automatic mode, or
one that loads, came in the middle of a console load. A pass in any other mode tears
nothing, and the next button mends it. `UntornMovesAreWhole` and
`BothArriveTogether` speak of every move, of buttons and console alike, while
nothing is torn; `MoveEnds` and `NeverResumes` of every move.

### CanPort

A thread's way through `can_send` is a program counter, from waiting for
`self->lock` to releasing it; the read-modify-write of the interrupt enable
register is two steps, because the handlers write it as well. `TxIsr` is a run
of the handler: it takes a frame only for a free mailbox, and turns the
interrupt off when there is none to take. `stir` is the interrupt made pending
by software, `rqcp` the completions by which the controller raises it. On an
error passive port a write sends `Zero` instead of its frame. `CanChannel` sees
only how many of each frame are accepted and not yet on the wire.

### Timestamp, YawTicks, Cbuf

`Timestamp` has the SysTick counter, the interrupt that is raised at its
restart and delivered a little later, and a thread in `_get_ticks` that reads
one access at a time. A time is a pair of seconds and microseconds and is
compared as `timestamp_sub` does it, modulo `Word`. `YawTicks` turns the arm
tick by tick between passes of the loop; `prev_yaw_ticks` is the encoder's 16
bits. `Cbuf` has one action per function; `OverwritingQueue` is a sequence,
and the refinement mapping reads it off the array. `MCLibrary` runs the three
one at a time: they share nothing.

## 3. The runs

| run | question | result |
|---|---|---|
| `slave_link` | deadlines, false alarms, pitch limit and ramps of a slave | holds, 665 465 states |
| `roles` | does a slave come back to remote control, do its motors stop; does a master reconfigure only after a silence | holds, 186 689 |
| `slave_lost_for_good` | do the motors stay stopped when the link is lost for good | violated |
| `link` | are mappings never crossed, does the master recover, does it notice | holds, 60 704 |
| `link_half_configured` | does the slave get the demand again after a broken configuration | violated |
| `sdo` | is the success of a call real, does each call end with its wake-up, is it all one exchange after the other | holds, 112 828 |
| `sdo_stale_token` | has a successful read data | violated |
| `panel` | presets, home, abort | holds, 47 178 |
| `moves` | untorn moves whole, arrival, end, no resumption | holds, 244 799 |
| `library` | is the time that is read current, are deadlines compared right; is the yaw true; is the ring buffer a queue | holds, 845 192 |
| `clock_wrap` | does no deadline expire before its time | violated |
| `can_port` | is every accepted frame sent once and soon, has each that waits somebody who will see to it, does the dispatcher come back | holds, 103 528 |

### Bounds, and why they are enough

* Timeouts are a few ticks: their values never meet any other length of time in
  the code but "longer than one pass", and they are large enough for the expiry
  to fall before, between and after the arrivals of both axes.
* `slave_link`: eight units of output, so that the remote ramp needs two ticks;
  demands beyond full scale on both sides; three pitch positions, beyond either
  end and in the slow zone.
* `sdo`: two callers that compete, one node, an entry that exists and one that
  does not, two values on the timely bus; two frames are enough for a late one
  beside a current one.
* `link`: the real mappings; `MapSize` 4, the longest mapping in use; three
  ticks of timeout, two late passes.
* `panel`: home and one preset (the loop treats all others alike), a circle of
  eight, three places on it that include a move by more than a quarter circle, and
  two homes that the console enters, one of them beyond a full turn and half a circle
  from another place.
* `moves`: three loads, so that one is torn by the second and mended by the third,
  each at any point of the others; moves of no, three and four ticks, of which the
  shorter is slowed down to three quarters; `Scale` 12 makes that a whole number.
  `MaxLoads` bounds the loads: from then on there are no more buttons.
* `roles`: boards that start without an address and are switched to one of two;
  a slave has one demand and the console, a master has its four items. In this
  run the switch stays once it is set; the proofs about a slave have no such
  limit. The run leaves out the console's `remote` command: it sets the
  remote mode on a link that is lost, for one pass, again and again if typed
  again and again, and then the motors are only stopped in between.
* `can_port`: one sender beside the dispatcher, sending at any time; a second
  one adds its turn at the lock and nothing else (`OneWriterAtATime` proves that
  the lock leaves one writer, whatever their number); a transmit queue of two and a receive queue of
  one, both of which fill; two of the three mailboxes; one kind of frame beside
  the zero frame, because nothing in the driver looks at what it sends.
* `library`: a counter of three values, so that an interrupt can be late by any
  of them; a word of five microseconds, a second of two, deadlines three ahead,
  so that seconds carry and deadlines lie on either side of the wrap; an encoder
  of ten ticks on a circle of six, three times around; a ring of three.

### Fairness

* The loop of a board, and the driver's thread, are periodic threads that never
  end: weak fairness of the loop's steps and of time.
* An SDO exchange ends by its answer or by the runner's timeout: weak fairness
  of `ReinitDone`, and of `Configure \/ ConfigureFails`. `sdo` shows it from the
  fairness of the threads alone (`EveryCallReturns`), on either bus.
* In `CanPort`, threads run and pending interrupts are delivered: weak fairness
  of their steps. `Lock` is strongly fair: senders are periodic and sleep without
  the lock, so whoever waits for it is next. A working bus transmits what is in a
  mailbox.
* `FbControl` asks it of passes that load no preset, since nobody presses a
  button in each pass, and of the console in the middle of a command: the
  threads above it sleep most of each millisecond.
* Nothing is assumed of frames, buttons, commands or restarts. What needs a good
  bus or a silent one says so in its premise (`<>[](calm /\ up)`).

## 4. What the violations show

1. `slave_lost_for_good`: the monitor sets both deadlines anew when it finds one
   expired (`fb_can.c:264`). The next pass sees a good link, returns to REMOTE,
   and follows the last demand until the deadlines expire again: a lost link
   makes the motors stop for a millisecond in every 51.
2. `link_half_configured`: the configuration gives up at its first SDO error,
   when the slave's demand PDO may be disabled already. The items, configured
   before, go on arriving, so the master sees a good link and never configures
   again: the slave gets no more demand until a board restarts.
3. `sdo_stale_token`: the timeout of a request counts from before `can_send`, which
   may block for the port's lock and then for another `CANOPEN_CAN_TX_TIMEOUT`
   (`canopen.c:34`), as long as the timeout itself. The runner then times the request
   out and gives the token while the caller is still in `can_send`; that fails, and
   the call returns `-EIO` without taking the token (`canopen.c:1459-1463`). The next
   read finds it and returns at once, with success and without data, where the
   comment at `canopen.c:1465` says "wait until the request either completes or
   fails". TLC's trace takes this way; a narrower one with the same end is between
   the expiry of the caller's wait and `running = false` (`canopen.c:1466-1471`).
4. `clock_wrap`: `timestamp_sub` multiplies the seconds in 32 bits
   (`timestamp.c:86`), so times are compared modulo 71.6 minutes. A deadline
   behind the next wrap counts as expired at once; the comments know only of an
   overflow after 49 days.

Differences that reading showed and that have no run of their own:

* `fb.c:190`: NO_MOTION sets the output to zero at once, where the comments at
  189 and 195 want the change limited.
* `fb_state_operational.c:46`: the release after a long press of home loads home,
  so the board is in automatic mode where `docs/flyingbergman.rst:84` says manual.
* `fb_preset.c`: saving home does not reset the presets (`flyingbergman.rst:82`);
  they move with it.
* `fb.h:100`: a long press is one second, not three (`flyingbergman.rst:80`).
* `fb.c:283`: the states wait_power and wait_home are never entered, so the
  joystick is live from power on (`flyingbergman.rst:66`).
* `canopen.c:700`: answers are matched by the entry alone, the node is never
  compared, and aborts by nothing; the answer to an earlier call can complete a later
  one, of the same entry on any node. The properties about outcomes are for a bus
  that is `timely`.
* `fb_preset.c:51`: a load from the console may be interrupted between the target and
  the limits, or between the axes, by a pass that drives them or by a button; its move
  is then planned from two loads, or for one axis only (`torn` in `FbControl`).
* `fb.c:239`: if such a pass aborts, it resets an axis whose target the console has
  just set; the console goes on and enters automatic mode with that axis idle.
* `canopen.c:1714`: "disable tx pdo" does not keep the sender from sending; it
  moves the frame to an extended identifier of which the receiver looks at the
  lower eleven bits.
* `stm32_can.c`: with TXFP off the mailboxes send by identifier, the lowest
  mailbox first, so two frames of one identifier may overtake each other.
* `stm32_can.c`: bus-off is never left (ABOM is off), although the comment at
  line 56 promises to wait "until the bus is available again".
* `stm32_can.c:69`: on an error passive port each write queues one more zero
  frame, so the queue is full of them when the bus comes back.
* `stm32_can.c`: the transmit handlers pass `wake` on without having set it.

## 5. What is proved

For every value of the constants that the named assumptions (`FbAssumption`,
`SdoAssumption`, `YawAssumption`, ...) allow. They ask for positive lengths and
sizes, and a few of them for a little more: `OutputAssumption` wants the travel
longer than the slow zones at both ends together (the code's take 45 per cent of
it), `YawAssumption` wants less movement between two passes than half the
encoder's range (the arm makes 33 ticks of 32768), the panel's circle has
two halves and four quarters, `PortAssumption` wants at least one mailbox, and
`ResolutionAssumption` wants a `Scale` so fine that rounding a stretched
timebase up costs less than a tick over the whole move (the code's is a float).

`FbProofs`. The invariant is `IInv == TypeOK /\ DeadlineTracksDemand /\
NeverDrivenOutward`. That a slave raises no false alarm is not a fact of one
state: a deadline alone says nothing of the past, so the step needs
`DeadlineTracksDemand`, and both need the types. `ConstrainRange`, `RampBounds`,
`LimitPitchBounds`, `PitchLimitedBounds` and `YawLimitedBounds` say what the
operators of `FbOutput` return, `ControlStep` combines them for every control
mode, and one lemma per action carries `IInv` over it. From it follow
`TypeCorrect`, `DeadlinesCorrect`, `PositionLimitsHold`, and the action
properties `LinkMonitorIsSound` and `RampsHold`. For the master,
`MissingIsSilent` says that an item whose bit is missing has not come since the
deadline was set; `ReconfiguresRightly` follows for boards whose address switch
stays where it is. Without that premise it is false: a board that timed out as
a master, becomes a slave and then a master again reconfigures at its next pass
with all its items recent.

Three more theorems of this module are about the steps on which liveness rests.
`HealthyLinkDrives`: one look at a link that was heard in time puts a slave under
remote control. `NoMotionStops`: one pass without the link leaves both outputs at
zero, from any output and position. `RemoteDrivesFollow`: between the slow zones
each pass comes a whole step nearer to the demand or has it (`RampApproaches`), so
that the limits never keep a drive from its demand.

`CanopenSdoProofs`. `SafeInv` joins `TypeOK`, `RunningOnlyInCall`,
`NoLostWakeup` and `OneCaller`: the caller that is inside a call is the one that
holds `sdo.mx`, and the request is its own until it leaves. It is inductive with
frames of any age and gives `SdoTypeCorrect`, `RequestsBelongToCalls` and
`WakeupsAreNotLost`. `TimelyInv` adds, on a timely bus, that every frame under
way belongs to the current call and tells the truth about the entry, and that
the result and the buffer do; from both follow `WritesAreReal` and
`ReadsAreCurrent`, and `SdoImplementsExchange`: every step of threads, runner,
handler, node and bus is a step of `SdoExchange` or leaves its state alone.

`FbLinkProofs`. `LinkInv`: an entry in service holds the whole mapping of its
PDO (`Agrees`), and one that is being written agrees up to the step that the
configuration has reached (`WrittenUpTo`, in `ProgressOK`). Two entries that
agree with one mapping deliver each value to its own object, whichever restart
or lost write came between: `NothingIsCrossed`, and `LinkTypeCorrect`.
`ServedOK` adds what a configuration has achieved so far: the entries of the calls
that have returned are in service, the present one up to its step, unless the
slave is down, in which case the configuration cannot succeed. From it
`ConfigurationCompletes`: a configuration that ends with success has put all of
both boards in service. `ServiceCarriesAll` says what that is good for: one period
on a calm bus then delivers every object to its place and completes the bits that
the monitor waits for. These are the steps of `MasterRecovers`; fairness lets a
configuration succeed once the bus is calm. `SilenceIsKept` is the like for
`SilenceNoticed`: without the slave an incomplete set of bits stays incomplete, its
deadline comes nearer, and a silence that was noticed stays noticed.

`FbControlProofs`. `ControlInv` has the types and, while nothing is torn, `Progress`:
between the statements of the console each axis is as far as the load has come with
it, it has the target (`GotTarget`), the limits too (`GotLimits`), a plan (`GotPlan`),
and before and after the load both axes are planned from the target and the limits of
one load (`Whole`). It gives `ControlTypeCorrect` and `UntornMovesCorrect`; the
property alone is not inductive, because it says nothing of an axis that waits.
`ConsoleWaits` follows the console
through its statements: while the board is not in automatic mode, the axes that
its load has gone through are at rest or planned and not begun, because setting a
target stops its axis, an abort resets both, and a pass outside of automatic mode
runs none. It gives `AbortedMovesStayAborted`.

`InTime`: two axes of which one is slowed down are `InStep`. After n clocks the
one is n ticks along and the other n of its own timebases, and the total of the
slower lies between k-1 and k of them, where the faster takes k ticks; so
both are completed by the same clock. A load establishes it (`RatioFits`,
`LoadedInTime`), a button's in one step, the console's with its last statements, unless
it leaves both axes waiting for one clock (`OnTime`); this is where `ResolutionAssumption` is needed: without it the
rounding of the ratio may bring the slowed axis home a tick early. Every clock
keeps it. It gives `AxesArriveTogether`.
`MovesNeverStall` is the safety half of `MoveEnds`: a timebase is positive and
at most twenty ticks, every clock of a move adds it to a time that never exceeds
the total and twenty ticks, or ends the move, or begins the one that was loaded
meanwhile.

`FbPanelProofs`. `PanelInv` relates presets, the places at which they were saved
and the buttons' times; lemmas about the remainder (`normalize_angle`) and about
the latest of several buttons carry it. A target is on the circle, unless it is a home
that was entered off it. It gives `PanelTypeCorrect`,
`SavesAreHeld`, `LoadsAreRight` and `HomeIsClose`.

`TimestampProofs`. `ReadInv`: a reading for which no tick has come is a time
during its call, which holds through the counter's restart only because of the
nop that lets the interrupt in. It gives `ReadsAreTimely`, and with
`DeadlineInv`, the deadline is between the delay after the beginning and after
the end of the call that set it, `ExpiryInEpoch`.

`LibraryProofs`. `YawInv`: the yaw is the arm less a number of whole turns, and
the encoder shows where the arm was seen; `YawTypeCorrect`, `YawIsTheArm`.
`CbufInv`: only with head on tail is the ring full. Under it each function of
the ring is the one of `OverwritingQueue`: `CbufKeepsLatest`.

`CanPortProofs`. `TypeOK` is inductive (`PortTypeCorrect`), and with it
`OneWriter`: the threads between lock and unlock are the holder of the lock, one
at most (`OneWriterAtATime`). `PortForgetsNoFrame` proves `NoFrameForgotten`. Alone
that is not inductive: `Armed` (with a frame in the queue the interrupt is enabled
or a writer has yet to enable it) and `Caused` (the handler is pending, a mailbox
will complete, or a writer has yet to raise it) are, together. They hold although a
writer may store an enable bit that it loaded before the handler changed it,
because it enables the interrupt once more after that. The refinement
counts: `CountAppended` and `CountTaken` for the queue, `MailboxLoaded` and
`MailboxEmptied` for the mailboxes. A write adds one frame, the wire takes one
away, and the handler takes one from the queue exactly when it puts it into a
free mailbox: `PortKeepsFrames`.

Only model-checked is liveness: `HealthyLinkIsRemote`, `SilenceStopsMotors`,
`EveryCallReturns`, `MasterRecovers`, `SilenceNoticed`, `JoystickAborts`, `MoveEnds`,
`QueueDrains` and `DispatcherMovesOn`. They need fairness and ENABLED, which are
out of the prover's reach; for six of them the theorems named above prove the
steps that they rest on. Every invariant and every action property that a passing
run checks is proved, and so are the three refinements; the fairness that
`ImplementsExchange` adds to one of them is liveness again.

## 6. What is not modelled

* Start-up and calibration: one pass through straight code before the threads.
* Analog scaling, filters, the regulator and the arithmetic of the trapezoid
  profile: floating point, which TLA+ integers do not stand for. `FbControl`
  keeps what decides anything, the ticks that a plan takes.
* LEDs and user interface: presentation.
* LSS: the master's entry points are compiled out, so the slave's half has no
  peer in this repository. NMT and emergencies are sent or printed, and change
  nothing.
* PDO types other than CYCLIC(1): the application configures no others.
* Of the CAN port: the list of listeners, filled before frames come; error
  counters; bus-off, from which there is no way back.
* Register map, events, variable directory, `ulink`, AVL tree, shell: library
  code whose conversions the properties do not tell apart, or that the crane
  uses little. The Linux build's thread queue runs on no board.
* Modbus: another application in the tree.
* Vendored code. Most of the lines in the tree are register headers, FreeRTOS,
  the ST peripheral library, MicroPython, CMSIS and drivers for parts that are
  not on these boards; the crane's own logic is a few thousand lines, and the
  mapped share of the whole tree is small for that reason.

The reasons, component by component, are in `PROJECT.json` under `components`.

## 7. Plan

1. Done: the models of section 2 with their proofs; the abstract specifications
   `SdoExchange`, `CanChannel` and `OverwritingQueue`, each with its refinement.
2. Model next: start-up and the modes before operation, if the code begins to
   enter them; the event driven PDOs, if the application begins to use them.
3. Compose: `Fb` of both boards with `FbLink`'s bus, so that the demand of one is
   the output of the other; `Timestamp` under the monitor's deadlines, so that a
   wrap of the clock meets a link that is up.
4. Prove next: what the compositions of step 3 promise, once they are written, and
   for `EveryCallReturns` that each caller's wait and each request has an end that
   is near.
