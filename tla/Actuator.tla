------------------------------ MODULE Actuator ------------------------------
(***************************************************************************)
(* The actuator: Actuator_System_T with the L20 state machine              *)
(* (ActuatorTask, L20ActuatorTask, ACStateMachine, directory L20ACT).  It  *)
(* moves the horn, watches the two start switches and the E-stop input,    *)
(* and reports the stroke to the SC.  Like the power supply it is woken by *)
(* the auxiliary clock (ACReceive) and then does one run (ACRun): upload   *)
(* of the pressure, moving check, input scan, one run of the machine.      *)
(*                                                                         *)
(* The horn is modelled by three positions: 2 home, 1 travelling, 0 on the *)
(* part; its speed is below MIN_DOWN_SPEED in all but position 1.          *)
(***************************************************************************)
EXTENDS Naturals, ProcessData

CONSTANTS
  Commands,           \* the master states the environment may command
  ControlBits,        \* the control bits the environment may write
  AuxMotions,         \* the manual motions the UI may ask for
  PressureFaults,     \* the pressure board may refuse a new setting
  DebounceTime,       \* DEBOUNCE_TIME: runs a switch must be held (50)
  StartSwitchTime,    \* DELAY250MSEC: runs the second switch may take (250)
  HornMoveTimeout,    \* HORN_MOVE_TIMEOUT: runs a stroke may take (3000)
  CheckPeriod,        \* runs between two moving checks (5)
  MinMoveChecks       \* MinMoveCount: checks before a stop is believed (20)

ASSUME ActuatorAssumption ==
  /\ Commands \subseteq MasterStates
  /\ ControlBits \subseteq AC_CONTROL_EVENTS \ {"CTRL_ESTOP"}
  /\ AuxMotions \subseteq {"DO_HORN_DOWN", "DO_HORN_UP"}
  /\ PressureFaults \in BOOLEAN
  /\ {DebounceTime, CheckPeriod} \subseteq Nat \ {0}
  /\ {StartSwitchTime, HornMoveTimeout, MinMoveChecks} \subseteq Nat

VARIABLES
  acRx,         \* AC_RX: the command of the SC, and CTRL_ESTOP as scanned
  acTx,         \* AC_TX: state, status and start switches shown to the SC
  acCore,       \* CoreState: the errors that are set
  horn,         \* O_HORN: "DOWN" when high
  acTimeout,    \* m_Timeout of the current state
  debounce,     \* m_DebounceCount
  pb1,          \* m_PB1: the switch that was pressed first
  isMoving,     \* m_IsMoving
  moveChecks,   \* MinMoveCount
  acTick,       \* Tick_1ms % CheckPeriod
  movedFrom,    \* m_MovedCount: where the current stroke started
  pressureSent, \* the pressure board holds the target pressure
  hornPos,      \* the position of the horn
  switches,     \* the start switches that are pressed
  estopIn,      \* I_ESTOPNC is high: the E-stop is pressed
  acEvent,      \* the task's event bits are set
  acBusy        \* the events have been received and the run is not yet done

machine == <<acRx, acTx, acCore, horn, acTimeout, debounce, pb1, isMoving,
             moveChecks, acTick, movedFrom, pressureSent>>
plant == <<hornPos, switches, estopIn>>
vars == <<machine, plant, acEvent, acBusy>>

ACErrors == {"ERR_PRESSURE_SET", "ERR_HEIGHT_SYSTEM", "ERR_STARTSWITCH_LOST",
             "ERR_HOME_POSITION"}

TypeOK ==
  /\ acRx \in RxPDO_AC
  /\ acTx \in TxPDO_AC
  /\ acCore \in SUBSET ACErrors
  /\ horn \in {"UP", "DOWN"}
  /\ acTimeout \in 0 .. StartSwitchTime + HornMoveTimeout + 1
  /\ debounce \in 0 .. DebounceTime
  /\ pb1 \in SUBSET StartSwitches
  /\ isMoving \in BOOLEAN
  /\ moveChecks \in 0 .. MinMoveChecks
  /\ acTick \in 0 .. CheckPeriod - 1
  /\ movedFrom \in 0 .. 2
  /\ pressureSent \in BOOLEAN
  /\ hornPos \in 0 .. 2
  /\ switches \in SUBSET StartSwitches
  /\ estopIn \in BOOLEAN
  /\ acEvent \in BOOLEAN
  /\ acBusy \in BOOLEAN

\* The machine as the constructor leaves it: AC_POWERUP has been entered.
InitActuator ==
  /\ acRx = [MasterState |-> "PRE_READY", MasterEvents |-> {}]
  /\ acTx = [ACState |-> "AC_POWERUP", AC_StatusEvent |-> {}, ACInputs |-> {}]
  /\ acCore = {}
  /\ horn = "UP"
  /\ acTimeout = 0
  /\ debounce = 0
  /\ pb1 = {}
  /\ isMoving = TRUE
  /\ moveChecks = MinMoveChecks
  /\ acTick = 0
  /\ movedFrom = 2
  /\ pressureSent = TRUE
  /\ hornPos = 2
  /\ switches \in SUBSET StartSwitches
  /\ estopIn \in BOOLEAN
  /\ acEvent = FALSE
  /\ acBusy = FALSE

-----------------------------------------------------------------------------
(* PDODownloadRequest: what the run reads before the state machine runs.   *)

\* ScanInputs.
ScannedEvents ==
  IF estopIn THEN acRx.MasterEvents \cup {"CTRL_ESTOP"}
             ELSE acRx.MasterEvents \ {"CTRL_ESTOP"}

\* Once the horn has left (STATUS_AC_MOVE_DISABLE clear), every CheckPeriod
\* runs the speed is looked at; the first checks are not believed.  Before,
\* each check starts the process anew.
CheckDue == acTick = 0
MoveDisabled == "STATUS_AC_MOVE_DISABLE" \in acTx.AC_StatusEvent

CheckedMoving ==
  IF CheckDue THEN MoveDisabled \/ moveChecks # 0 \/ hornPos = 1 ELSE isMoving

\* The answer is kept for the runs before the next check, and forgotten (TRUE)
\* when there are none.
KeptMoving == CheckedMoving \/ (acTick + 1) % CheckPeriod = 0

\* Slip: the count runs below zero.
CheckedCountSlip ==
  IF ~CheckDue THEN moveChecks ELSE IF MoveDisabled THEN MinMoveChecks ELSE moveChecks - 1

CheckedCount ==
  IF ~CheckDue THEN moveChecks
  ELSE IF MoveDisabled THEN MinMoveChecks
  ELSE IF moveChecks = 0 THEN 0 ELSE moveChecks - 1

-----------------------------------------------------------------------------
(* ChangeState(next): Exit of the current state, then Enter of the next.   *)
(* ev and st are MasterEvents and AC_StatusEvent at that point of the run. *)

ExitEvents(state, ev) ==
  IF state \in {"AC_HOLD", "AC_ESTOP"} THEN ev \ {"CTRL_AC_MOVE_DISABLE"} ELSE ev

EnterEvents(next, ev) ==
  IF next \in {"AC_READY", "AC_STARTSWICH", "AC_HOLD", "AC_ALARM", "AC_ESTOP"}
  THEN ev \cup {"CTRL_AC_MOVE_DISABLE"} ELSE ev

EnterStatus(next, st) ==
  IF next \in {"AC_READY", "AC_HOLD"} THEN st \cup {"STATUS_AC_MOVE_DISABLE"} ELSE st

\* A stroke moves the horn only when CTRL_AC_MOVE_DISABLE is clear; AC_READY
\* always lifts it.
MayMove(ev) == "CTRL_AC_MOVE_DISABLE" \notin ev

\* Slip: ACReady::Enter leaves the horn where it is.
EnterHornSlip(next, ev) ==
  CASE next = "AC_DOWN_STROKE" /\ MayMove(ev) -> "DOWN"
    [] next = "AC_RETURN_STROKE" /\ MayMove(ev) -> "UP"
    [] OTHER -> horn

EnterHorn(next, ev) ==
  CASE next = "AC_READY" -> "UP"
    [] next = "AC_DOWN_STROKE" /\ MayMove(ev) -> "DOWN"
    [] next = "AC_RETURN_STROKE" /\ MayMove(ev) -> "UP"
    [] OTHER -> horn

\* The switch found first: the one that is pressed, SS1 before SS2.
FirstSwitch ==
  IF "SS1" \in switches THEN {"SS1"} ELSE IF "SS2" \in switches THEN {"SS2"} ELSE {}

\* m_PB1 of AC_STARTSWICH is set on Enter; GetPB1 has left its own at 0.
EnterPB1(next) ==
  IF next = "AC_STARTSWICH" THEN FirstSwitch
  ELSE IF acTx.ACState = "AC_STARTSWICH" THEN {} ELSE pb1

\* The state, status and inputs this run leaves in AC_TX, the events it
\* leaves in AC_RX.
Publish(state, st, ev) ==
  /\ acTx' = [ACState |-> state, AC_StatusEvent |-> st, ACInputs |-> switches]
  /\ acRx' = [acRx EXCEPT !.MasterEvents = ev]

\* m_Timeout is reset here: every state that reads it resets it on Enter; and
\* so is m_MovedCount, which only the two strokes read.
ChangeState(next, st, ev) ==
  LET left == ExitEvents(acTx.ACState, ev) IN
    /\ Publish(next, EnterStatus(next, st), EnterEvents(next, left))
    /\ horn' = EnterHorn(next, left)
    /\ pb1' = EnterPB1(next)
    /\ movedFrom' = IF next \in {"AC_DOWN_STROKE", "AC_RETURN_STROKE"} /\ MayMove(left)
                    THEN hornPos ELSE 2
    /\ acTimeout' = 0

Stay(st, ev) ==
  /\ Publish(acTx.ACState, st, ev)
  /\ UNCHANGED <<horn, movedFrom>>

-----------------------------------------------------------------------------
(* The Loop of each state; core is CoreState after the upload of this run. *)

Status == acTx.AC_StatusEvent
In(state) == acTx.ACState = state
Command(states) == acRx.MasterState \in states

Idle(core, st, ev) ==
  /\ Stay(st, ev)
  /\ acCore' = core
  /\ UNCHANGED <<acTimeout, debounce, pb1>>

Go(next, core, ev) ==
  /\ ChangeState(next, Status, ev)
  /\ acCore' = core
  /\ UNCHANGED debounce

\* Count a run of the state, or raise its error once it has lasted too long.
Wait(core, st, ev) ==
  /\ Stay(st, ev)
  /\ acCore' = core
  /\ acTimeout' = acTimeout + 1
  /\ UNCHANGED <<debounce, pb1>>

Raise(core, error, ev) ==
  /\ Stay(Status, ev)
  /\ acCore' = core \cup {error}
  /\ UNCHANGED <<acTimeout, debounce, pb1>>

PowerUpLoop(core, ev) == In("AC_POWERUP") /\ Go("AC_READY", core, ev)

\* GetPB1: the switch found first must stay pressed for DebounceTime runs.
\* The count survives whatever interrupts AC_READY; m_PB1 is read only while
\* it counts, and left out when it does not.
PB1Candidate == IF debounce > 0 THEN pb1 ELSE FirstSwitch

Debounced ==
  IF PB1Candidate # {} /\ PB1Candidate \subseteq switches THEN debounce + 1 ELSE 0

GetPB1(core, ev) ==
  IF Debounced < DebounceTime
  THEN /\ Stay(Status, ev)
       /\ acCore' = core
       /\ debounce' = Debounced
       /\ pb1' = IF Debounced = 0 THEN {} ELSE PB1Candidate
       /\ UNCHANGED acTimeout
  ELSE /\ ChangeState("AC_STARTSWICH", Status, ev)
       /\ acCore' = core
       /\ debounce' = 0

ReadyLoop(core, ev) ==
  /\ In("AC_READY")
  /\ \/ /\ Command({"PRE_READY"})
        /\ Idle(core, IF switches = {} THEN Status \ {"STATUS_START_SWITCH_PRESSED"}
                                       ELSE Status, ev)
     \/ Command({"READY"}) /\ GetPB1(core, ev)
     \/ /\ Command({"WAIT_FOR_TRIGGER", "DOWN_STROKE"})
        /\ Go("AC_DOWN_STROKE", core, ev \ {"CTRL_AC_MOVE_DISABLE"})
     \/ /\ ~Command({"PRE_READY", "READY", "WAIT_FOR_TRIGGER", "DOWN_STROKE"})
        /\ Idle(core, Status, ev)

\* The first switch has been found; the second must join it in time.
StartSwitchLost ==
  pb1 = {} \/ acTimeout > StartSwitchTime \/ ~(pb1 \subseteq switches)

\* Slip: one switch is enough.
BothPressedSlip == switches # {}

BothPressed == switches = StartSwitches

StartSwitchLoop(core, ev) ==
  /\ In("AC_STARTSWICH")
  /\ \/ StartSwitchLost /\ Raise(core, "ERR_STARTSWITCH_LOST", ev)
     \/ /\ ~StartSwitchLost /\ BothPressed
        /\ ChangeState("AC_READY", Status \cup {"STATUS_START_SWITCH_PRESSED"}, ev)
        /\ acCore' = core
        /\ UNCHANGED debounce
     \/ ~StartSwitchLost /\ ~BothPressed /\ Wait(core, Status, ev)

\* ACStrokeDown::Loop does not return after the change to AC_READY: the test
\* of the position below it clears the status AC_READY has just set, and may
\* still take the machine to AC_HOLD.
LeftHome == hornPos < movedFrom
ContactFound(ev) ==
  ev \cap {"CTRL_PART_CONTACT_ENABLE", "CTRL_PREBURST_ENABLE"} = {} \/ ~CheckedMoving

StrokeDownState(ev) ==
  IF LeftHome /\ ContactFound(ev) THEN "AC_HOLD"
  ELSE IF Command({"PRE_READY"}) THEN "AC_READY" ELSE "AC_DOWN_STROKE"

StrokeDownStatus(ev) ==
  IF LeftHome /\ ~ContactFound(ev) THEN Status \ {"STATUS_AC_MOVE_DISABLE"}
  ELSE EnterStatus(StrokeDownState(ev), Status)

StrokeDownLoop(core, ev) ==
  /\ In("AC_DOWN_STROKE")
  /\ \/ acTimeout > HornMoveTimeout /\ Raise(core, "ERR_HEIGHT_SYSTEM", ev)
     \/ /\ acTimeout <= HornMoveTimeout
        /\ Publish(StrokeDownState(ev), StrokeDownStatus(ev),
                   EnterEvents(StrokeDownState(ev), ev))
        /\ horn' = IF Command({"PRE_READY"}) THEN "UP" ELSE horn
        /\ acCore' = core
        /\ acTimeout' = IF StrokeDownState(ev) = "AC_DOWN_STROKE" THEN acTimeout + 1 ELSE 0
        /\ movedFrom' = IF StrokeDownState(ev) = "AC_DOWN_STROKE" THEN movedFrom ELSE 2
        /\ UNCHANGED <<debounce, pb1>>

LeftPart == hornPos > movedFrom
HomeFound(ev) == "CTRL_ULS_ENABLE" \notin ev \/ ~CheckedMoving

StrokeUpLoop(core, ev) ==
  /\ In("AC_RETURN_STROKE")
  /\ \/ acTimeout > HornMoveTimeout /\ Raise(core, "ERR_HOME_POSITION", ev)
     \/ acTimeout <= HornMoveTimeout /\ ~LeftPart /\ Wait(core, Status, ev)
     \/ /\ acTimeout <= HornMoveTimeout /\ LeftPart /\ ~HomeFound(ev)
        /\ Wait(core, Status \ {"STATUS_AC_MOVE_DISABLE"}, ev)
     \/ acTimeout <= HornMoveTimeout /\ LeftPart /\ HomeFound(ev) /\ Go("AC_READY", core, ev)

WeldHoldLoop(core, ev) ==
  /\ In("AC_HOLD")
  /\ \/ /\ Command({"RETURN_STROKE", "WAIT_FOR_READY_POSITION"})
        /\ Go("AC_RETURN_STROKE", core, ev)
     \/ Command({"PRE_READY"}) /\ Go("AC_READY", core, ev)
     \/ /\ ~Command({"RETURN_STROKE", "WAIT_FOR_READY_POSITION", "PRE_READY"})
        /\ Idle(core, Status, ev)

\* In the two error states core is empty, CTRL_ESTOP clear or both, or the
\* machine has just been brought here by RunStateMachine.
AlarmLoop(core, ev) ==
  /\ In("AC_ALARM")
  /\ IF core = {} THEN Go("AC_READY", core, ev) ELSE Idle(core, Status, ev)

EstopLoop(core, ev) ==
  /\ In("AC_ESTOP")
  /\ IF "CTRL_ESTOP" \in ev THEN Idle(core, Status, ev) ELSE Go("AC_READY", core, ev)

\* RunStateMachine: E-stop first, then an error, then the Loop of the state;
\* the Loop of the error state it has changed to finds nothing to do.
\* Slip: an actuator at rest does not heed the E-stop.
EstopDueSlip(ev) ==
  "CTRL_ESTOP" \in ev /\ ~In("AC_ESTOP") /\ ~In("AC_POWERUP") /\ ~In("AC_READY")

EstopDue(ev) ==
  "CTRL_ESTOP" \in ev /\ ~In("AC_ESTOP") /\ ~In("AC_POWERUP")

AlarmDue(core, ev) == ~EstopDue(ev) /\ core # {} /\ ~In("AC_ALARM")

RunStateMachine(core, ev) ==
  \/ EstopDue(ev) /\ Go("AC_ESTOP", core, ev)
  \/ AlarmDue(core, ev) /\ Go("AC_ALARM", core, ev)
  \/ /\ ~EstopDue(ev) /\ ~AlarmDue(core, ev)
     /\ \/ PowerUpLoop(core, ev) \/ ReadyLoop(core, ev) \/ StartSwitchLoop(core, ev)
        \/ StrokeDownLoop(core, ev) \/ StrokeUpLoop(core, ev) \/ WeldHoldLoop(core, ev)
        \/ AlarmLoop(core, ev) \/ EstopLoop(core, ev)

-----------------------------------------------------------------------------
(* The task.                                                               *)

ACReceive ==
  /\ acEvent /\ ~acBusy
  /\ acEvent' = FALSE
  /\ acBusy' = TRUE
  /\ UNCHANGED <<machine, plant>>

\* PDOUploadRequest: once in a while a pressure the board does not hold yet
\* is sent to it; a refusal sets the error, the next success clears it.
Upload(core) ==
  \/ core = acCore /\ UNCHANGED pressureSent
  \/ ~pressureSent /\ core = acCore \cup {"ERR_PRESSURE_SET"} /\ UNCHANGED pressureSent
  \/ ~pressureSent /\ core = acCore \ {"ERR_PRESSURE_SET"} /\ pressureSent' = TRUE

ACRun ==
  /\ acBusy
  /\ acBusy' = FALSE
  /\ isMoving' = KeptMoving
  /\ moveChecks' = CheckedCount
  /\ acTick' = (acTick + 1) % CheckPeriod
  /\ \E core \in SUBSET ACErrors : Upload(core) /\ RunStateMachine(core, ScannedEvents)
  /\ UNCHANGED <<plant, acEvent>>

\* Messages of the task's queue: a manual motion, a new pressure.
DoAuxMotion ==
  /\ ~acBusy
  /\ \E motion \in AuxMotions : horn' = IF motion = "DO_HORN_DOWN" THEN "DOWN" ELSE "UP"
  /\ UNCHANGED <<acRx, acTx, acCore, acTimeout, debounce, pb1, isMoving, moveChecks, acTick,
                 movedFrom, pressureSent, plant, acEvent, acBusy>>

PressureSet ==
  /\ PressureFaults /\ ~acBusy
  /\ pressureSent' = FALSE
  /\ UNCHANGED <<acRx, acTx, acCore, horn, acTimeout, debounce, pb1, isMoving, moveChecks,
                 acTick, movedFrom, plant, acEvent, acBusy>>

-----------------------------------------------------------------------------
(* The environment.                                                        *)

\* The horn follows its valve.
HornTravel ==
  /\ \/ horn = "DOWN" /\ hornPos > 0 /\ hornPos' = hornPos - 1
     \/ horn = "UP" /\ hornPos < 2 /\ hornPos' = hornPos + 1
  /\ UNCHANGED <<machine, switches, estopIn, acEvent, acBusy>>

\* The operator presses or releases a start switch, or the E-stop.
StartSwitchInput ==
  /\ \E s \in StartSwitches : switches' = (switches \ {s}) \cup ({s} \ switches)
  /\ UNCHANGED <<machine, hornPos, estopIn, acEvent, acBusy>>

EstopInput ==
  /\ estopIn' = ~estopIn
  /\ UNCHANGED <<machine, hornPos, switches, acEvent, acBusy>>

\* A tick of the auxiliary clock: the SC writes its command, the event bits
\* are set (once more, when they already were).
Tick ==
  /\ \E m \in Commands, e \in SUBSET ControlBits :
        acRx' = [MasterState |-> m,
                 MasterEvents |-> (acRx.MasterEvents \ ControlBits) \cup e]
  /\ acEvent' = TRUE
  /\ UNCHANGED <<acTx, acCore, horn, acTimeout, debounce, pb1, isMoving, moveChecks, acTick,
                 movedFrom, pressureSent, plant, acBusy>>

\* AlarmManager::clearActuatorAlarm.
ClearCoreState ==
  /\ acCore' = {}
  /\ UNCHANGED <<acRx, acTx, horn, acTimeout, debounce, pb1, isMoving, moveChecks, acTick,
                 movedFrom, pressureSent, plant, acEvent, acBusy>>

Next == \/ ACReceive \/ ACRun \/ DoAuxMotion \/ PressureSet
        \/ HornTravel \/ StartSwitchInput \/ EstopInput \/ Tick \/ ClearCoreState

Spec == InitActuator /\ [][Next]_vars

-----------------------------------------------------------------------------
(* Properties.                                                             *)

\* The horn is pressed down only where the machine knows it: in a stroke, on
\* the part, or in the error states, which leave the horn as they find it.
\* A manual motion down is the exception: DoAuxMotion asks no state.
HornDownStates ==
  horn = "DOWN" => \/ acTx.ACState \in {"AC_DOWN_STROKE", "AC_HOLD", "AC_ALARM", "AC_ESTOP"}
                   \/ "DO_HORN_DOWN" \in AuxMotions

\* A run lowers the horn only as the answer to a stroke command, from rest, and
\* not when the E-stop is pressed or an error is set, however late it comes.
HornLowered ==
  [][ACRun /\ horn = "UP" /\ horn' = "DOWN"
       => /\ acTx.ACState = "AC_READY" /\ acTx'.ACState = "AC_DOWN_STROKE"
          /\ acRx.MasterState \in {"WAIT_FOR_TRIGGER", "DOWN_STROKE"}
          /\ ~estopIn /\ acCore' = {}]_vars

\* A run that finds the E-stop pressed does not move the horn either way, and
\* ends the stroke it interrupts; only ACPowerUp is not interrupted.
EstopFreezesHorn ==
  [][ACRun /\ estopIn /\ acTx.ACState # "AC_POWERUP"
       => horn' = horn /\ acTx'.ACState \in {"AC_ESTOP", "AC_ALARM"}]_vars

\* The two-hand start: the pressed status appears only while both switches are
\* down, after a debounced first one, and survives until the SC asks for both
\* to be released and finds them so.
StartSwitchStatus ==
  [][ACRun => LET Pressed(tx) == "STATUS_START_SWITCH_PRESSED" \in tx.AC_StatusEvent IN
       /\ ~Pressed(acTx) /\ Pressed(acTx')
            => acTx.ACState = "AC_STARTSWICH" /\ switches = StartSwitches
       /\ Pressed(acTx) /\ ~Pressed(acTx')
            => acRx.MasterState = "PRE_READY" /\ switches = {}]_vars

=============================================================================
