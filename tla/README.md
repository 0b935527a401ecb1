# A verification project for the L20 welder controller

The repository is the firmware of the Branson L20, an ultrasonic metal welder:
`src/L20_RTP` is a VxWorks real-time process that drives the horn, switches the
sonics, supervises the weld cycle and talks to the HMI. This directory holds
TLA+ models of its control core and of the services around it that keep state,
the TLC configurations that check them on small instances, and TLAPS proofs.

## 1. Inventory

### The core: three state machines and one clock

| Part | Source | State it keeps | Operations |
|---|---|---|---|
| Auxiliary clock | `AuxClockTask.cpp` | heartbeat counters | `AuxClock_Task`, once per ms, in interrupt context: runs the SC and sets an event bit for each of the two tasks |
| Supervisory controller (SC) | `SCStateMachine/*` | list of state objects, index, action of each object, core state, loading/running flags | `RunStateMachine` (interrupt), `LoadStatesHandler`, `ExecuteStateAction` (control task) |
| Power supply (PC) | `PCStateMachine.cpp`, `AUPS/*`, `PowerSupplyTask.cpp`, `AUPSTask.cpp` | PC state, status bits, core state, poll counter, the sonic outputs | task loop: receive events, poll overload, one run of the machine |
| Actuator (AC) | `ACStateMachine.cpp`, `L20ACT/*`, `ActuatorTask.cpp`, `L20ActuatorTask.cpp` | AC state, status bits, core state, debounce, moving check, horn valve | task loop: pressure upload, moving check, input scan, one run; messages: manual motion, recipe |

They share four process data objects (PDOs, `MainTask::CreateSD`) without a
lock. The SC writes `AC_RX`/`PC_RX` (a *master state* and control bits), the
tasks write `AC_TX`/`PC_TX` (their state and status bits) - and also change
control bits of their own `RX`. Nothing is acknowledged: every party reacts to
what it finds at its next run.

A weld cycle is the list `PRE_READY READY SEEK_SONIC_ON WAIT_FOR_TRIGGER
SQUEEZE_TIME WELD_PRESSURE_SET WELD_SONIC_ON HOLD WAIT_FOR_READY_POSITION ALARM
ESTOP`. PRE_READY waits for both start switches to be released, READY for both
to be pressed (debounced by the actuator), WAIT_FOR_TRIGGER lowers the horn,
WELD_SONIC_ON welds, WAIT_FOR_READY_POSITION lifts the horn, ALARM and ESTOP
pass at once when there is nothing to handle. Test of the sonics and height
calibration are two more lists of the same kind.

### Around it

| Part | Source | State it keeps | Operations and interaction |
|---|---|---|---|
| Control task, workflows | `ControlTask.cpp`, `*WorkFlow.cpp` | the operation under way, the work flow's state, step and mode | loads lists, triggers states, counts batches, answers a weld with three messages to the data task |
| Alarm manager | `AlarmManager.cpp`, `Alarm*.cpp` | list of alarms by type | a reset clears the core state of every source listed |
| User interface, digital I/O | `UserInterface.cpp`, `*ScDgt*.cpp` | rows to send | mode requests (repeated by the heartbeat), alarm reset, new pressure, choice and edit of recipes, pages of results, Ethernet configuration |
| Data task, database | `DataTask.cpp`, `Database/*` | three bounded queues, one page offset, the SQLite tables | stores what the globals hold when it comes to a message |
| Results, recipes, configuration | `Weld*.cpp`, `Recipe*.cpp`, `System*.cpp` | one global weld result, curve, active recipe, recipe under edit | filled by the interrupt, read and written by all tasks, without a lock |
| Cooling air | `L20ActuatorTask.cpp` | timer of delay and duration, O_COOLAIR | set and reset in the interrupt, counted in the actuator task |
| Height calibration | `HeightCalibrateWorkFlow.cpp`, `ControlTask.cpp` | table of points, target pressure, raw height | requests of the HMI, strokes of the SC, answers and alarms |
| External link | `External*.cpp`, `Communication*.cpp`, `SocketReceiver*.cpp`, `Connectivity/*` | step of the link, event bits, configuration now and before | a manager that looks every 500 ms and a socket task that may wait in a select |
| Firmware upgrade, user authority | `FirmwareUpgrade.cpp`, `User*.cpp` | none that several steps share | sequences of checks and look-ups |
| Devices, drivers, BSP | `EEPROM/GPIO/DAC/ADC/HeightEncoder`, `_Branson_*`, `Uboot` | | I/O; drivers are vendored |

`PROJECT.json` names the files of each and says what is modelled, partly
modelled or not modelled, and why.

### What is hard

* Three machines run at one rate without handshakes; each sees the others one
  run late. A command may be overwritten before it is seen (ticks coalesce in
  the event bits), and a status may come and go between two looks.
* The SC runs in an interrupt, the control task's loader beneath it: a tick can
  fall into `LoadStatesHandler`.
* The E-stop and alarms take effect in any state, at any step of Enter, Loop,
  Fail and Exit, and each machine handles them by itself.
* Errors are bits that are set, listed, cleared by source and cleared by
  themselves, in different tasks.
* Everything must come to an end although the horn may not arrive, a switch may
  be released and a burst may not start.
* A message says what to do, not with what: the weld result, the curve, the
  latest ID, the recipe and the count are globals that others change between
  the sending and the handling. Queues drop what does not fit, and nobody asks.
* SQLite may refuse a transaction, and the power may go, between any two steps.
* Rows that leave a table take others with them (foreign keys), and a table is
  trimmed by the newest ID, not by the number of its rows.

### What makes each part correct

* Power supply: no output outlives its state; none is raised when the E-stop,
  the disabled sonics or an overload forbid it; the E-stop silences it in a run.
* Actuator: the horn is lowered only on command, from rest; the E-stop freezes
  it; the start status means two debounced hands and is forgotten only when both
  have left.
* SC: sonics and stroke belong to the states that want them; every cycle needs a
  fresh two-hand start; a cycle ends; the E-stop can be left; a faulty part stays
  locked if so configured; a calibration has really measured.
* Records: what is stored of a weld belongs together; the selected recipe and the
  count of the batch are in the database once their messages are handled; tables
  stay within their limits; a library is paged through without gaps.
* Cooling: the air is off while the sonics are on, and does not stay on for ever.
* Calibration: a point was measured at its own pressure; a request is answered.
* Link: none of an old configuration survives; the current one comes up.
* Composition: the SC and its alarms drive PC and AC only in the ways their own
  specifications allow, so that what is proved of them holds in the welder.

## 2. Modules

| Module | Models | Notes |
|---|---|---|
| `ProcessData` | states, commands, bits and records of the PDOs | a bit field is the set of its 1 bits |
| `PowerSupply` | the power supply in an arbitrary environment | `PSReceive` and `PSRun` are the two halves of the task loop; `Tick` writes any command |
| `Actuator` | the actuator in an arbitrary environment | `ACReceive`/`ACRun`; horn, switches and E-stop are external |
| `SequenceController` | the SC, its alarm list, loader and triggers | operators and actions, composed below |
| `Welder` | the composition: clock, tasks, control task, reset, plant | `INSTANCE`s the first two; `Spec`, `FairSpec` |
| `WelderLoads` | `Welder` with a history of the sonics that a load of an operation leaves on | |
| `Database` | the tables of results, signatures, alarms, recipes and the active recipe | operators from a database to a database: inserts with AUTOINCREMENT, limits, foreign keys, refused transactions |
| `Records` | the way of a weld's data and of the active recipe: interrupt, control task, UI task, external manager, data task | every task an actor; three queues; restart |
| `Cooling` | the cooling air and its timer | `RunCoolingTimer` split access by access, the interrupt in between |
| `Calibration` | the work flow of the height calibration, its HMI and the SC's strokes | |
| `ExternalLink` | the external manager and the socket task | configuration changed at any time, also within a step of the manager |
| `PowerSupply_proofs`, `Actuator_proofs`, `Welder_proofs`, `Cooling_proofs`, `Records_proofs`, `RecordsHistory_proofs`, `Calibration_proofs`, `ExternalLink_proofs` | theorems | TLAPS; `RecordsHistory_proofs` continues `Records_proofs` |
| `MCPowerSupply`, `MCActuator`, `MCWelder`, `MCWelderOperations`, `MCRecords`, `MCServices` | instances for TLC | `MCServices` explores the last three services each by itself |

`PowerSupply!Spec` and `Actuator!Spec` are the abstract specifications: the
machine is exactly the code's, the rest of the controller is "anybody may
command anything at any tick". The run `weld` checks that the welder implements
them (`ActuatorSpec`, `PowerSupplySpec`), the refinement mapping being the
identity on their variables; `Welder_proofs` proves it for every recipe, set-up and
time and for late tasks, so that whatever is proved of a machine alone holds in the welder.

### How the model corresponds to the code

* One action is one whole handler. `AuxClock` is the interrupt: one call of
  `RunStateMachine` (Enter, Loop, Fail or Exit of one object) and both event
  bits. `PSRun` and `ACRun` are one pass of the task loop. A pass is atomic with
  respect to the interrupt; with `Overrun` a tick may fall before it, and
  between the receiving of the event and the pass, of either task.
* `m_Actions` of every object is kept (`actions`), not only of the current one,
  because an E-stop, a load and a trigger leave actions behind in objects that
  do not run.
* `scIndex` is `m_StateIndex` + 1; `scObj` is the state of `m_objState`, which is
  not the object under the index after an E-stop or a load. After a load it is
  ESTOP, the object built last.
* `timers` is the counter or counters of the object that runs: each object resets
  its own on Enter, so one record stands for all.
* `loading` is the argument of a `LoadStatesHandler` under way, `NoLoad` without one.
  A screen without an operation loads NO_OPERATION, the list of ALARM and ESTOP alone.
  `m_OperationMode` is `operation`: where the two differ - a repeated request, with
  the machine stopped, sets it to NO_OPERATION - it only has the next request load again, which
  `LoadBegin` allows.
* `leftOn` is the history variable of `WelderLoads`: a tick has stopped the machine for
  a load with the sonics on, and they have been on since.
* `setup` is the system configuration and recipe of a behaviour, with the faults
  its environment may show. It is chosen in Init and never changes; the constant
  `Setups` lists the choices, so that one run covers several.
* `hands` is a history variable of `Welder`; nothing reads it but a property.
* `ChangeState` of `Actuator` resets `m_Timeout` and `m_MovedCount` also for states
  that do not read them, `m_PB1` is forgotten when it is not counting, and
  `m_IsMoving` when the next run checks anew: the state space is smaller, no
  behaviour changes.
* The horn has three positions (home, travelling, on the part); it is "moving"
  only when travelling. Heights, energies and powers appear as "a limit is
  missed" (`LimitFaults`) and "the weld may end" (`ENERGY_MODE`).
* `BeepDelay` is the number of ticks between two registrations of a lasting
  alarm (in the source two beeps of ALARMBEEPDELAY).
* `ExecuteStateAction` may come whenever its state loops: the workflow's own
  trigger state only restricts this. `Execute` and `ClearAlarmList` are atomic.
* The answer to a weld (`response`) is handled before the next tick unless
  `Overrun`: the control task has the highest priority (220). With `Overrun` two answers
  may wait, and the Boolean takes them for one; what an answer may do here is to reach
  the batch count, which the setup of the only run with `Overrun` excludes.
* The timeout branch of `ACPowerUp::Loop` is unreachable: the machine has left
  the state in its first run.

Records:

* `globals` is the shared memory: the weld result (`values`, a weld's number), the
  curve (the set of welds whose samples it holds), `WeldResultID`, the ID of the
  active recipe and the recipe whose parameters are loaded (two fields of the
  code that need not agree), the recipe under edit, the count of the batch.
* A message carries the weld it is about, which the code's message does not.
  Only the history (`owner` of a row, `disturbed`) is made of it; no guard and no
  value a handler stores depends on it. `weld` of a row is what `globals` held.
* The data task drains Control before Data before Request, one message at a
  time, and each handler is one step, but `QueryActiveRecipe`, and
  the UI's sending of a page, which may block (`sending`). `QueryActiveRecipe` has three, with other
  tasks in between: it reads the row, assigns count and ID and asks for the recipe with that
  ID (`loading`), and assigns its name and parameters (`naming`).
* `history` holds what the properties except, always the narrowest event that
  makes the code fail: `disturbed` (the next weld began, a stored curve was loaded
  into the same vector, the result was refused or lost), `reloaded` (the active
  recipe was loaded with the weld under way), `overridden` (a selection met a
  weld, a reset or a recall with another recipe in memory), `unsaved` (an update
  was refused or lost, or the recipe was never loaded), `kept` (refused deletions,
  counted by table), `torn` (pages met something else that moves them).
* `work` is what the environment may still do, by kind: the bound of the runs.
  The theorems hold for every value of it.

Services:

* The cooling timer's counters are words (`% Words`); the interrupt may come
  between the test of the delay and that of the duration, and
  between the test, the load and the store of a counter. `disturbed` is the one spot where the air can go on in a weld: the
  weld's reset falls between the test of the duration and its store.
* In `Calibration` a count is the pressure it was measured at. `Answer` is
  `HeightCalibrate::Exit` with the actuator in AC_READY: it takes whatever count there is for
  calibrated and answers, after a stroke that was completed (`StrokeEnds`) or
  aborted (`StrokeAborted`). `orderly` says that
  requests came when the last was done with, and that no stroke was answered that was
  aborted before it had measured.
* The manager's look of 500 ms (`LookForUpdate`) and what it does about a change
  (`RefreshExternalEthobj`) are two steps. The old object is gone before the second; the new one is chosen
  by what the configuration then says: `crossed` says that it changed to another type in between. `AddressOf` a peer is all that
  the driver is asked for and that a server binds to; servers may differ by their port alone.
* In `ExternalLink` `missed` says that the configuration changed twice between two
  looks of the manager, which compares values and not versions. The manager has
  the lowest priority: it runs only when the socket task waits.

* Operators whose name ends in `Slip` are deliberately wrong variants of the
  operator below them (a forgotten reset, a dropped condition). No
  specification uses them: substituting one for the right operator must break
  the property it is meant for, which shows that the property is not vacuous.

## 3. Runs

### Passing

| Run | Question | Bounds that matter |
|---|---|---|
| `power_supply` | Do the outputs belong to the state under every command, overload, reset and missed tick? | poll period 2, so that a run without a poll exists; the six commands the machine tells apart, every set of control bits |
| `actuator` | Where is the horn, who lowers it, what does the two-hand status mean, under every command? | every time 1 or 0, one run of doubt in the moving check; one control bit (part contact), which the moving check decides; the pressure board may refuse |
| `weld` | Do sonics, horn and hands belong to the cycle? Is the part kept? Are both machines driven within their specifications? | three setups: energy mode (maximum time 2, encoder) with E-stop and foot-pedal abort (`EstopSetup`); the same with overloads, missed limits, batch count and LOCK_ON_ALARM (`LimitsSetup`); no operation, with overloads, E-stop and pressure errors that come and go (`IdleSetup`) |
| `other_operations` | Do bursts before and after the weld start once and in their stroke? Are test and calibration safe? What do sonics survive when an operation is loaded amid another? | four setups: bursts of one tick with pressure errors that come and go (`BurstSetup`); test (`TestSetup`) and calibration (`CalibrationSetup`), each with overloads and E-stop; test, calibration and no operation loaded amid each other at any time (`ReplacedSetup`), where nobody touches the start switches, which none of them reads (constraint `HandsOff`) |
| `weld_late` | Does the two-hand start survive tasks that are late by any number of ticks? | `Overrun`; time mode |
| `weld_live` | Does every cycle end, and the E-stop? | bursts of 1 tick, E-stop, `FairSpec` |
| `records` | Does what is stored of a weld belong together, do selection and count survive, do tables keep their limits, has a library gaps? | limits of 3 results, 2 signatures, 3 recipes; queues of 3 messages, so that the answer to a second weld is dropped; a database with 1 result and a full one; nine budgets of work, one for each question |
| `services` | The cooling air, the calibration, the link: each by itself | counters of 5 values with wrap-around, five setups; two pressures, two waiting requests; two servers that differ by their port, one at another address, one gateway; once `crossed` holds the configuration stays (`LinkBound`), since no property speaks of what follows |

Times are one tick, or none, where the source counts tens or thousands: every
state that waits is still there, and a tick count above one adds only
repetitions of the same Loop, because the other machines may take any
number of runs within it and the plant may move at any of them. The debounce is
two runs in the welder because the actuator sees READY for one run longer than
the SC commands it; with one run the stray count would be a start by itself.
The plant changes only right before a run of the actuator, as often as it
likes: nobody else reads its inputs.

The budgets of `records` (`AllWorks` in `MCRecords`) put together what can
disturb each other: three welds in a row, so that the queue overflows and a
result is overtaken; two welds with a curve of the history and a refused
transaction; a choice, a load and a reset of the counter around a weld; the same
with a loss of power; with a recall by the external link; deletions of recipes;
pages alone, and with a weld and another library; recipes stored at the limit.
A budget bounds how often the environment acts, never when.

Every state graph is finite and explored completely within the two bounds the table
names, `HandsOff` and `LinkBound`. The setups other than `ReplacedSetup` have at most one operation each, so
that an operation is loaded amid another in that setup and in the run
`find_weld_stopped` only. Loading the operation again, which the code
asks for only while the machine does not run, is part of all welder runs.

### Fairness

`FairSpec` assumes weak fairness of the clock (a timer interrupt), of each task
(it is woken and of higher priority than whatever could starve it) and of the
control task's finishing what it has begun. Nothing is assumed of the horn, the
operator, the generator, or that anyone resets an alarm - so `CycleEnds` names
ALARM and ESTOP as ends. `EstopLeft` needs more, and says so: the E-stop stays
released, no error remains, and no operation is loaded while the E-stop is in
force (see below).

The liveness of `services` (`Fairness` in `MCServices`) assumes weak fairness of the
actuator task, of the control task with the SC's stroke, of the manager and of
the socket task, and - because a link needs a peer and an address, and both
attempts may fail - strong fairness of the peer's coming and of the driver's
taking the address: a try that may succeed again and again does so once.

### Where code and comment disagree

Each of these runs checks what a comment promises and TLC shows the program
breaking it.

* `find_weld_stopped` - `SCStateMachine.cpp:308` promises that a running weld cannot be
  removed; a tick inside a *refused* load resets
  the index and abandons the weld.
* `find_after_burst_hang` - `WaitForReadyPosition.cpp:98`; with an after burst and
  a pressure error that clears itself the SC never leaves the state.
* `find_abort_alarm` - `SCState.cpp:145`; an E-stop one tick after a foot-pedal
  abort leaves an error that no alarm shows and no reset clears.
* `find_active_recipe_lost` - `DBAccess_l20_db.cpp:2182` counts on the one row of
  ActiveRecipe; a recipe stored at the limit deletes the oldest, active or not,
  and the row goes with it.

### Known deviations the passing runs work around

The passing properties are as strong as the code allows; where it forced a
weaker form, the form says so.

* `PCAlarm.cpp:50` "turn off sonics": the test output stays high in PC_ALARM
  (`OutputsBelongToState` admits it).
* `ACEstop.cpp:76` "do nothing": with an error set the actuator alternates between
  AC_ESTOP and AC_ALARM (`EstopFreezesHorn` admits AC_ALARM).
* `SCStateMachine.cpp:192` "directly": not while a load is pending, line 185
  returns first (`EstopLeft` assumes no load in the E-stop).
* `PreReady.cpp:79`: switches held at power-up start the first cycle
  (`TwoHandStart` admits `hands = "unknown"`).
* `HeightCalibrate.cpp:157`, too: Exit asks only whether the actuator is in AC_READY, so that
  a stroke aborted by an error that has cleared itself is answered like a measured one, and the
  count of an earlier stroke is stored at the pressure of this one (`orderly` excepts an
  abort before the horn has measured).
* `HeightCalibrate.cpp:157`: Exit leaves its stroke command in the PDO; after an
  E-stop in a calibration the horn goes down again by itself
  (`StrokeBelongsToCycle` is checked in the weld runs only, and proved without
  calibrations).
* `L20ActuatorTask.cpp:96`: a pressure error that clears itself lifts the horn
  while the SC welds (`WeldUnderPressure` is checked and proved without pressure faults).
* `SCStateMachine.cpp:143` against 308: a test with its sonics on may be replaced by
  another operation, or by none, without Exit; the power supply goes on in PC_WELD_RUN until
  a state object commands it otherwise. `SonicsLeftOnlyByLoad` makes this its one
  exception: sonics run outside their states only when a load has stopped
  the machine with them on. `SonicsBelongToCycle` in the run `weld`, and the theorems with the
  hypothesis `OneOperation`, are about one operation at a time.
* `SCStateMachine.cpp:192` again: loads in the E-stop break `EstopSilence`, too, which
  holds while there is one operation; in its run the setup with several has no E-stop. The
  Estop object of a list loaded in the E-stop takes the place of the one that
  runs, before it has passed the E-stop on, and the sonics of the test it replaced are on. And a load that is
  refused in the E-stop sets the index back to 1 (line 185) and leaves the Estop object in LOOP, so
  that the next E-stop does not enter it and CTRL_ESTOP is not set.
* `ExternalManager.cpp:200` and 240 against 209: a change of the type of the link between the
  comparison and the choice of the object leaves an object that nobody closes
  (`LinkServesConfig` and `LinkComes` except `crossed`).
* `CommunicationInterfaceDIG.cpp:266`: the address wanted is compared with one that nobody has set, so
  that the driver may be asked for what cpsw0 already has, or not asked (`LinkConfig` admits both).
* `L20ActuatorTask.cpp:383` against 355: the old duration is compared with the
  minimum, and the weld's own reset has left it 0: by energy it is always 5 s.
* A cooling timer that is disabled with the air on leaves it on (`CoolingEnds`
  admits it). `ActuatorTask.cpp:79` copies four bytes into the `bool` that enables
  it; the model gives it the value of the first.
* A weld's reset between the test of the duration and its store is undone, and
  the air goes on in the weld (`CoolingOffInWeld` excepts it).
* `HeightCalibrateWorkFlow.cpp:86` assigns FINISH where it means to compare: a second
  trigger is accepted with a stroke under way. A correction without a check uses
  a count that was never initialised. A stroke whose error clears itself before
  the alarm is listed is reported to nobody (`orderly` excepts all three).
* `ExternalManager.cpp:397` uses `m_ptrCom` that may be null; a configuration
  changed and changed back between two looks is not noticed (`missed`).
* `RecipeDefine.cpp:447`: the ID of the active recipe is not initialised at start
  (`Init` and `Restart` of `Records` take any ID).
* A refused insert makes `WeldResultID` the latest ID all the same: signature and
  alarm hang on the weld before (`SignatureOfWeld`, `AlarmOfWeld` except it).
* `ScDgtInput.cpp:74` switches on an uninitialised message ID; `AlarmManager`'s
  clearing of the E-stop leaves O_ALARM as it is; `ControlTask` casts the work flow
  to the class a message expects without asking what it is; the points of a
  calibration are written without a transaction. None of this is modelled.
* `L20ActuatorTask.cpp:334`: a manual motion asks for no state (`HornDownStates`
  excepts the motion down; the welder runs leave manual motions out).

## 4. Proofs

`tlapm` on each of the eight `_proofs` modules checks every obligation. Each theorem has the form
`Spec => []Inv` or `Spec => [][A]_vars`, in the welder with the hypotheses named below, or is a refinement,
and holds for every value of the constants that satisfies the `ASSUME`s of the module (poll period positive, commands among the master states, times natural
numbers): no bound of the runs is used, and in the actuator none on the control
bits, commands or motions.

*Power supply.* `TypeOK` is inductive by itself. All the proofs rest on one fact
about the machine, `RunChangesOrStays`: a run either leaves state, outputs and
command alone or is a `ChangeState`, and then to a state with sonics only from
PC_READY and without a fault. So what is shown of `ChangeState` (`OutputsOnEnter`,
`OutputsFollowState`) covers the five Loops at once. `OutputsBelongToState` is
inductive together with `TypeOK`: the Exit of the state that raised an output must
lower it, whatever comes next. `RaisedOnlyWhenAllowed` needs the types alone;
`EstopCutsOutputs` needs the invariant, because a machine that is already in
PC_ESTOP does nothing and must have nothing to do.

*Actuator.* `TypeOK` is inductive (`RunTypes`, `RunCounters`); the bound on
`acTimeout` needs the fact that each state stops counting at its own limit and
every change of state resets it. `HornDownStates` is inductive together with
`TypeOK`: `DownAfterRun` shows that a run which leaves the horn down ends in one of
the four states. Its delicate case is the return stroke, which lifts the horn only
when CTRL_AC_MOVE_DISABLE is clear; the Exit of AC_HOLD, the only state before it,
has just cleared the bit. `HornLowered` needs `LoweredInReady` (only AC_READY, with
no E-stop and no error due, lowers the horn) and `StartSwitchStatus` needs
`PressedAfterRun`; with `EstopFreezesHorn` they are facts of one run, which need no
invariant and hold in particular however stale the command is.

*Welder.* The refinements rest on one invariant, `CommandsTyped`: whatever recipe
is loaded, a tick writes commands and bits the machines know, and never the
actuator's own E-stop bit (`TickOrders`, from the Enter, Loop and Exit of all
objects). With it a tick of the clock is a `Tick` of either machine, a pass of a task its
`Run`, a reset its `ClearCoreState`, and every other action a stutter. `TwoHandStart`
connects the operator's hands with the list: `SequenceInv` says where PRE_READY, READY and
SEEK_SONIC_ON stand in it and that an object that has not been run has nothing left to
do; `HandsInv` says that PRE_READY is passed only with the pressed status gone
and READY only with it come again, that a load is not refused in these states, and
that the index is back at 1 after a stop. Neither uses that the tasks are in time.
Nor does `WelderTypeOK`: `SequenceInv` and `TimersTyped` type what an object leaves behind,
`FaultsTyped` and `FlagsTyped` the rest of the SC, and what a run of a machine keeps is not proved
again but taken from `PowerSupply_proofs` and `Actuator_proofs` (`RunKeepsTypes`), instantiated with the
welder's constants: `PowerSame` and `ActuatorSame` show the two instances equal.

The other theorems add hypotheses, and need them. `OneOperation`: no operation is loaded
amid another (`LoadStatesHandler` would delete its object without Exit and leave its
commands). `~Overrun`, where a late task would act on a command already taken back.
The argument goes in layers, each an invariant of its own, from the objects outwards:

* *Where the SC stands.* `OneInv`: an object that has something left to do is the one that runs, and it
  stands under the index or one before it (`ObjectTick`, `EstopTick`). `OthersIdle`: no tick leaves anything to another object.
* *What has been asked.* `AskedInv`: a command in either PDO is that of the
  object that runs, and gone with its Exit. With the actuator's `LoweredInReady` this gives
  `StrokeBelongsToCycle`, late tasks or not; a height calibration is excepted, which leaves its
  stroke command behind.
* *What the power supply does.* `SonicInv`: a run follows the command, or the task has yet to see
  that it is gone; `TestInv` follows the test output through an alarm. From them come
  `SonicsBelongToCycle` and `EstopSilence`.
* *Time.* `TimersTyped` bounds the counters (a weld goes on only below its limit), `CalInv` says that the horn
  leaves the part only after the whole delay, which is `CalibrationMeasured`.
* *Horn and part.* `RestInv`: before the first cycle nothing has gone wrong. `LockInv`: a command
  that lifts the horn is given only without an error, or with the horn up or held by alarm or E-stop;
  hence `PartLocked`. `HoldInv` and `PressInv`: from the trigger to the end of the weld the
  actuator is in AC_HOLD with the horn down, or in AC_ESTOP, which the next tick answers
  before the actuator runs again; hence `WeldUnderPressure`. It also needs that the pressure board
  refuses nothing: a refusal takes the actuator to AC_ALARM, from which it lifts the horn by itself,
  and the weld does not look at that alarm.
* *Bursts.* `LeftInv` and `PastInv`: from the trigger to the release the status "the horn has left" means
  that it is off the part and on its way up, and no stale command of the trigger sends it down again. `BurstInv`:
  a burst is asked for once, with its time at 0, and as long as it may still start the sonics are
  enabled - whatever ends it disables them, so that the bit left in the PDO starts no second one
  (`PowerRunBurst`). Hence `BurstInStroke`.

*Cooling.* `CoolingTyped` shows that the counters stay words, whatever the
interrupt writes between a load and a store. `CoolingOffInWeld` is not inductive:
it rests on `NothingToCool`, that in an undisturbed weld the duration is 0 and the
task does not hold a copy of it, so that nothing will switch the air on.

*Records.* Nine theorems, for every limit, length of queue and page, budget of
work, and every database to start from that keeps the schema (`StartsAllowed`).
`RecordsTyped` rests on `Typed`, which adds what each message carries: a handler
that finds a name where it expects an ID would break the tables. The steps of
the data task are first shown as facts about a database (`ResultStored`,
`RecipeStored`, ...: well-formed in, well-formed out, and which tables are left
alone), and then as facts about a step (`ResultStep`, ...), which all
theorems use. `ActiveRowStays` needs `Typed` alone. `ResultsStayBounded` is about
cardinalities: the invariant `CountInv` adds that a table never has more rows than
IDs given - the deletion is due by the ID, and while the IDs are below the limit
there is nothing to delete; that a non-empty table has an oldest row
(`OldestExists`) comes from the well-foundedness of finite subsets, since induction
over the rows is out of the prover's reach. `CountStaysPersisted` splits the
steps into those that leave count, row and waiting updates alone, those that send
an update or note its loss, and those that bring table and memory together; it
adds `Alike`: the rows of ActiveRecipe are equal and what the data task has read of
them is what the table still holds.

The other five (`RecordsHistory_proofs`) are about what happened on the way to a row, and each
needs to know what is still on its way. *Pages* (`PagesInv`): the rows that are being sent have been
shown, and the next page starts where the last one ended. *Selection* (`SelectionInv`): of the
updates that wait, the one that will be handled last - Control before Data before
Request - is for the recipe chosen last. *Signature, alarm and recipe of a weld* (`OwnersInv`):
when the signature or the alarm of an undisturbed weld is handled the latest result is its own,
because that is stored already or stands in the queue before it (`OrderInv`), every older message belongs to a
weld already marked as disturbed (`NumbersInv`), the globals are those of the last weld
until its result is stored (`GlobalsInv`), no row is about a weld to come (`RowsInv`), and
the recipe in memory is the weld's own (`RecipeInv`). None of the five holds by itself: a
message carries no weld, it is stored with whatever the globals then say, so the
order of the queue and the age of the globals must be argued together. `StartsAllowed`
says of the rows a database starts with only that they belong to no weld of the behaviour.

*Calibration.* The invariant is what an orderly course of requests means: at most
one stroke is about to be triggered, under way or waiting for its answer
(`OneStroke`), it is made at the pressure of the work flow (`PressuresAgree`), and a
finished check holds the count of its own pressure (`CheckMeasured`). All three are needed: an
answer stores what was measured under the pressure that is set by then. The only assumption is that the
table of references is not empty.

*External link.* `OneObject`: only the object under `m_ptrCom` has a socket, and it
is that of the previous configuration unless all is closed. `SeenIsClosed`: a change
the manager has seen is followed by a close that nothing can overtake. `LinkUpToDate`: a link
that is not to be closed serves the configuration of the manager's last look or
one it has yet to see. All three hold until a change of type comes between look and choice (`Uncrossed`). The property is then a matter of one state.

Model-checked only: all liveness, which the prover cannot treat. `ActiveRecipeUnique` is violated.
So is
`SonicsLeftOnlyByLoad`, because the layers above need one operation at a time. Every other safety property of a passing run is a
theorem.

## 5. Not modelled

The map names code of `src/L20_RTP` only. Most of the repository's lines are no
state machine of this program, and no share of the map stands for them:

* `_Branson_Driver_Layer_2021_07`, `Uboot`: VxWorks drivers and board support,
  vendored; the program reaches them through system calls.
* Encoding: the columns of the database, the frames of HMI, CAN and TCP, the CSV
  export. They format and parse; the control they carry is in the messages of
  the models.
* Analogue data: amplitude ramps, frequency, force, height and graph points. The
  machines read them through limits, which are modelled as met or missed.
* Firmware upgrade: reads of a USB stick, checks and copies in sequence; what an
  interruption leaves is the file system's. User authority: look-ups of passcodes.
* The requests `*_CLEAR` of the data task (`DataTask.cpp:378`), which empty a table and reset
  its sequence: nothing in the repository sends one.
* TLS and the transfer of bytes; the HMI link and CAN; DIG requests.
* Edit and rename of a stored recipe, height calibration and configuration
  tables: rows read and written as a whole, with no reader in between.
* Lamps, buzzer and alarm outputs, written and never read; the P1 variants,
  another product.
* `TestSonicsWorkFlow`'s own state: its trigger may come at any time instead.

Two abstractions hide behaviour that exists. A run of a task is one step: the
unlocked read-modify-writes of `MasterEvents` and of the core states are not split
(`Cooling` splits the one counter that decides an output by itself). And the
responses of the SC to the control task, other than the one to a weld, are left
out of `Welder`; `Calibration` has the one to a stroke.
