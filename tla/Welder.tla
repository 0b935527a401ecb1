------------------------------- MODULE Welder -------------------------------
(***************************************************************************)
(* The controller at work: the supervisory controller, the power supply    *)
(* and the actuator, joined by the process data and the auxiliary clock.   *)
(* One tick runs the SC in the clock's interrupt and sets the events of    *)
(* both tasks.  The tasks normally finish before the next tick, the power  *)
(* supply (priority 222) before the actuator (223) and both before the UI  *)
(* and the digital inputs (224 and more); with Overrun they may be late,   *)
(* and a tick then falls before, between or amid their steps.              *)
(***************************************************************************)
EXTENDS SequenceController

CONSTANTS
  PollPeriod, PressureFaults, DebounceTime, StartSwitchTime, HornMoveTimeout,
  CheckPeriod, MinMoveChecks,
  Overrun           \* a tick may come before the tasks have finished

\* The assumptions of the two machines on their times are passed on.
ASSUME WelderAssumption ==
  /\ Overrun \in BOOLEAN /\ PressureFaults \in BOOLEAN
  /\ {PollPeriod, DebounceTime, CheckPeriod} \subseteq Nat \ {0}
  /\ {StartSwitchTime, HornMoveTimeout, MinMoveChecks} \subseteq Nat

VARIABLES
  psTick, psOut, overload, psEvent, psBusy,
  horn, acTimeout, debounce, pb1, isMoving, moveChecks, acTick, movedFrom, pressureSent,
  hornPos, switches, estopIn, acEvent, acBusy,
  hands   \* history: how the operator's hands came to the start switches

PS == INSTANCE PowerSupply WITH Commands <- MasterStates
AC_T == INSTANCE Actuator
          WITH Commands <- MasterStates, ControlBits <- AC_CONTROL_EVENTS \ {"CTRL_ESTOP"},
               AuxMotions <- {}

OverloadFaults == "OVERLOAD" \in setup.faults  \* the generator may report an overload
EstopUsed == "ESTOP" \in setup.faults          \* the operator may press the E-stop
PressureBoard == "PRESSURE" \in setup.faults   \* the pressure board may refuse a setting

psRest == <<psTick, psOut, overload, psEvent, psBusy>>
acRest == <<horn, acTimeout, debounce, pb1, isMoving, moveChecks, acTick, movedFrom, pressureSent,
            hornPos, switches, estopIn, acEvent, acBusy>>
welder == <<vars, psRest, acRest, hands>>

WelderTypeOK ==
  /\ TypeOK
  /\ PS!TypeOK
  /\ AC_T!TypeOK
  /\ hands \in {"unknown", "off", "on", "taken"}

Init ==
  /\ InitSequence
  /\ PS!InitPower
  /\ AC_T!InitActuator
  /\ EstopUsed \/ ~estopIn
  /\ hands = "unknown"

-----------------------------------------------------------------------------
\* The tasks have done what the last tick asked for; the control task
\* (priority 220) has answered the end of the weld.
Quiet == ~psEvent /\ ~psBusy /\ ~acEvent /\ ~acBusy /\ ~response
Settled == Overrun \/ Quiet

\* While the control task loads an operation only the interrupt comes between;
\* the tasks and the operator's next move wait.
NotLoading == loading = NoLoad
TaskFree == Overrun \/ NotLoading
Idle == Overrun \/ (Quiet /\ NotLoading)

\* History.  A new cycle takes the hands; they count again once both have been
\* off the switches, after the last start has been forgotten, and then on.
TakeHands == IF scObj = "READY" /\ scObj' = "SEEK_SONIC_ON" THEN "taken" ELSE hands

\* AuxClock_Task.
AuxClock ==
  /\ Settled
  /\ RunStateMachine
  /\ psEvent' = TRUE
  /\ acEvent' = TRUE
  /\ hands' = TakeHands
  /\ UNCHANGED <<psTick, psOut, overload, psBusy, horn, acTimeout, debounce, pb1, isMoving,
                 moveChecks, acTick, movedFrom, pressureSent, hornPos, switches, estopIn, acBusy, setup>>

PowerTask ==
  /\ TaskFree
  /\ PS!PSReceive \/ PS!PSRun
  /\ UNCHANGED <<own, acRx, acTx, acCore, acRest, hands, setup>>

SeenHands ==
  CASE switches = {} /\ "STATUS_START_SWITCH_PRESSED" \notin acTx'.AC_StatusEvent -> "off"
    [] switches = StartSwitches /\ hands = "off" -> "on"
    [] OTHER -> hands

ActuatorTask ==
  /\ Overrun \/ (NotLoading /\ ~psEvent /\ ~psBusy)
  /\ \/ AC_T!ACReceive /\ UNCHANGED hands
     \/ AC_T!ACRun /\ hands' = SeenHands
  /\ UNCHANGED <<own, pcRx, pcTx, psCore, psRest, setup>>

\* The messages of the UI to the actuator: a new trigger pressure.
PressureMessage ==
  /\ Idle /\ PressureBoard
  /\ AC_T!PressureSet
  /\ UNCHANGED <<own, pcRx, pcTx, psCore, psRest, hands, setup>>

\* The control task: the UI asks for an operation, a screen button triggers a
\* state, a weld has ended.
ControlTask ==
  /\ \/ /\ Idle
        /\ \/ \E op \in Operations : LoadBegin(op)
           \/ \E s \in {"READY_FOR_TRIGGER", "TEST_SONIC_ON"} : ExecuteStateAction(s)
     \/ LoadFinish
     \/ RunProcess
  /\ UNCHANGED <<psRest, acRest, hands, setup>>

\* AlarmManager::ClearAlarmList, by the UI or the reset input: every listed
\* alarm clears the whole core state of its source.
Sources == {a.source : a \in alarms}

\* Slip: the bits of the source are toggled, not cleared.
PowerCoreSlip == psCore # ("PC" \in Sources)

PowerCore == psCore /\ "PC" \notin Sources

AlarmReset ==
  /\ Idle /\ alarms # {}
  /\ psCore' = PowerCore
  /\ acCore' = IF "AC" \in Sources THEN {} ELSE acCore
  /\ scCore' = IF "SC" \in Sources THEN {} ELSE scCore
  /\ alarms' = {}
  /\ UNCHANGED <<rx, acTx, pcTx, dispatch, actions, timers, isRunning, loader, response,
                 psRest, acRest, hands, setup>>

\* The horn and the operator.  Only a run of the actuator reads its inputs, and it
\* is enough to let them change, as often as they like, right before one.
Plant ==
  /\ acBusy
  /\ AC_T!HornTravel \/ AC_T!StartSwitchInput \/ (EstopUsed /\ AC_T!EstopInput)
  /\ UNCHANGED <<own, pcRx, pcTx, psCore, psRest, hands, setup>>

Generator ==
  /\ Idle /\ OverloadFaults
  /\ PS!OverloadInput
  /\ UNCHANGED <<own, acRx, acTx, acCore, acRest, hands, setup>>

Next == \/ AuxClock \/ PowerTask \/ ActuatorTask \/ PressureMessage \/ ControlTask
        \/ AlarmReset \/ Plant \/ Generator

Spec == Init /\ [][Next]_welder

\* The clock ticks, and whatever a tick or an operation has started is finished;
\* nothing is assumed of the operator, the horn, the generator and the messages.
ControlAnswer == (LoadFinish \/ RunProcess) /\ UNCHANGED <<psRest, acRest, hands, setup>>

Fairness == /\ WF_welder(AuxClock) /\ WF_welder(PowerTask) /\ WF_welder(ActuatorTask)
            /\ WF_welder(ControlAnswer)

FairSpec == Spec /\ Fairness

-----------------------------------------------------------------------------
(* Properties.                                                             *)

\* One operation at a time: no operation takes the list from another.  What a load
\* does to a cycle under way is a matter of its own (WeldNotStopped), and so are the
\* sonics that it leaves on (SonicsLeftOnlyByLoad).
OneOperation == operation # NoOperation => loading \in {NoLoad, operation}

\* The power supply has acted on the last tick.
Powered == ~psEvent /\ ~psBusy

\* Once the power supply has run, sonics are on only while the SC is in a
\* state that asks for them: a weld, a burst before or after it, a test.  This holds
\* while there is OneOperation: a test with its sonics on may be replaced by another
\* operation, which leaves them on (SCStateMachine.cpp:143).
SonicStates == {"WELD_SONIC_ON", "WAIT_FOR_TRIGGER", "WAIT_FOR_READY_POSITION", "TEST_SONIC_ON"}
SonicsBelongToCycle == Powered /\ "RUN" \in psOut => scObj \in SonicStates

\* Weld sonics run only with the horn pressed on the part: neither an E-stop
\* nor an alarm raises it before the power supply has switched them off.
WeldUnderPressure ==
  scObj = "WELD_SONIC_ON" /\ "RUN" \in psOut => horn = "DOWN" /\ acTx.ACState \in {"AC_HOLD", "AC_ESTOP"}

\* A cycle starts only after the hands have been off both switches and then on
\* both of them since the last one; only the first cycle is started also by
\* switches that were held when the controller was switched on.
TwoHandStart ==
  [][scObj = "READY" /\ scObj' = "SEEK_SONIC_ON" => hands \in {"on", "unknown"}]_welder

\* The actuator moves the horn down only while the SC waits for the trigger or
\* calibrates the height, whatever the delays of its task.
StrokeBelongsToCycle ==
  [][horn = "UP" /\ horn' = "DOWN" => scObj \in {"WAIT_FOR_TRIGGER", "CALIBRATE"}]_welder

\* A burst starts at most once in a stroke: the one before the weld only while
\* the horn travels, the one after it only with the horn lifted off the part.
BurstInStroke ==
  [][(scObj \in {"WAIT_FOR_TRIGGER", "WAIT_FOR_READY_POSITION"} /\ "RUN" \in psOut' \ psOut)
       => timers.timeout = 0 /\ IF scObj = "WAIT_FOR_TRIGGER" THEN HornLeft ELSE hornPos > 0]_welder

\* With LOCK_ON_ALARM a weld that went wrong keeps its part: the horn is lifted
\* only once the alarms of the SC are cleared, or by the E-stop.
PartLocked ==
  [][LockOnAlarm /\ horn = "DOWN" /\ horn' = "UP"
       => scCore = {} \/ acTx.ACState \in {"AC_ALARM", "AC_ESTOP"}]_welder

\* A calibration ends well only with the horn lifted again, after it has rested on
\* the part for the whole delay.
CalibrationMeasured ==
  [][actions["CALIBRATE"] = "LOOP" /\ actions'["CALIBRATE"] = "JUMP"
       => timers.delay >= CalibrateDelay /\ horn = "UP"]_welder

\* With the E-stop in force and every task up to date nothing is on.  This, too,
\* needs OneOperation: the Estop object of a list loaded amid another stands for the
\* one that runs before it has passed the E-stop on.
EstopSilence == acTx.ACState = "AC_ESTOP" /\ scObj = "ESTOP" /\ Powered => psOut = {}

\* A cycle ends whatever the horn does: it never hangs between the start and the
\* release of the part, but comes back to the release of the switches, to an
\* alarm or to the E-stop.
CycleEnds == scObj = "SEEK_SONIC_ON" ~> scObj \in {"PRE_READY", "ALARM", "ESTOP"}

\* When the E-stop stays released, no error is left and no operation is being
\* loaded, the SC leaves ESTOP - if none was loaded while the E-stop was in force.
NoLoadInEstop ==
  [](isLoading => ~estopIn /\ ~AC("AC_ESTOP") /\ "CTRL_ESTOP" \notin pcRx.MasterEvents)

EstopLeft ==
  NoLoadInEstop /\ <>[](~estopIn /\ acCore = {} /\ ~psCore /\ ~isLoading)
    => []<>(scObj # "ESTOP")

\* The controller drives the power supply and the actuator only in the ways
\* their own specifications allow.
PowerSupplySpec == PS!Spec
ActuatorSpec == AC_T!Spec

\* SCStateMachine.cpp:308: a weld that is running is not stopped by a tick, but for
\* the E-stop.
WeldNotStopped ==
  [][scObj = "WELD_SONIC_ON" /\ actions[scObj] = "LOOP" => scObj' \in {scObj, "ESTOP"}]_welder

\* WaitForReadyPosition.cpp:98: AC_READY takes the SC to the next state.
ReadyEndsStroke ==
  scObj = "WAIT_FOR_READY_POSITION" /\ AC("AC_READY") ~> scObj # "WAIT_FOR_READY_POSITION"

\* SCState.cpp:145: an abort by the foot pedal is not an alarm and only restarts
\* the cycle.
AbortRestarts == scObj = "ALARM" /\ actions["ALARM"] = "LOOP" => scCore # {"WELD_ABORT"}

=============================================================================
