------------------------- MODULE SequenceController -------------------------
(***************************************************************************)
(* The supervisory controller: SCStateMachine with the states of directory *)
(* SCStateMachine.  An operation is a list of state objects, closed by an  *)
(* Alarm and an Estop object; the object under the index carries what is   *)
(* left to do for it (m_Actions).  Tick is RunStateMachine, called by the  *)
(* auxiliary clock's interrupt every millisecond, hence atomic with        *)
(* respect to the tasks; the control task loads lists (LoadBegin,          *)
(* LoadFinish) and triggers states (ExecuteStateAction) between its ticks. *)
(***************************************************************************)
EXTENDS Naturals, Sequences, ProcessData

CONSTANTS
  Setups,           \* the recipes and system configurations the controller may run with
  TimeMax,          \* TIME_MAX of the recipe
  SqueezeTime,      \* SQUEEZE_TIME
  HoldTime,         \* HOLD_TIME
  PressureDelay,    \* DELAY200MSEC, or 0 when both pressures are the same
  WeldSeekTime,     \* WELD_SEEK_ON_TIME (25)
  CalibrateDelay,   \* TIMEDELAY (1500)
  BeepDelay         \* ticks between two registrations of a lasting alarm (2000)

\* What a setup fixes: the operations the control task may load, the values the
\* states read from the recipe and from the system configuration, and the faults
\* that may happen.
SetupsAllowed ==
  [operations : SUBSET {"WELD", "TEST", "HEIGHT_CALIBRATE_READY", "NO_OPERATION"},
   weldMode : {"ENERGY_MODE", "TIME_MODE", "HEIGHT_MODE"},
   timeMin : Nat, absMaxTime : Nat, preBurst : Nat, afterBurst : Nat, afterBurstDelay : Nat,
   testSeekTime : Nat, heightEncoder : BOOLEAN, lockOnAlarm : BOOLEAN,
   footPedalAbort : BOOLEAN, batches : BOOLEAN,
   faults : SUBSET {"LIMIT", "OVERLOAD", "ESTOP", "PRESSURE"}]

ASSUME SequenceAssumption ==
  /\ Setups \subseteq SetupsAllowed
  /\ {TimeMax, SqueezeTime, HoldTime, PressureDelay, WeldSeekTime, CalibrateDelay, BeepDelay}
       \subseteq Nat

VARIABLES
  setup,         \* the recipe and the system configuration, as above
  acRx, pcRx,    \* AC_RX and PC_RX: what the SC commands
  acTx, pcTx,    \* AC_TX and PC_TX: what the SC sees
  acCore, psCore, \* CoreState of the actuator and (overload) of the power supply
  operation,     \* the list that is loaded
  scIndex,       \* m_StateIndex, counted from 1
  scObj,         \* m_State of m_objState
  actions,       \* m_Actions of each object of the list
  timers,        \* the counters of the current object
  scCore,        \* CoreState: the errors that are set
  alarms,        \* AlarmManager: the alarms listed
  isRunning,     \* m_IsRunning
  isLoading,     \* m_IsLoading
  loading,       \* the list LoadStatesHandler is about to load, or NoLoad
  response       \* a TO_CTRL_SC_RESPONSE of a weld waits for the control task

rx == <<acRx, pcRx>>
tx == <<acTx, pcTx, acCore, psCore>>
dispatch == <<operation, scIndex, scObj>>
loader == <<isLoading, loading>>
faults == <<scCore, alarms, response>>
own == <<operation, scIndex, scObj, actions, timers, scCore, alarms, isRunning, isLoading,
         loading, response>>
vars == <<setup, rx, tx, own>>

Operations == setup.operations
WeldMode == setup.weldMode                \* WELD_MODE
TimeMin == setup.timeMin                  \* TIME_MIN
AbsMaxTime == setup.absMaxTime            \* ABSMAXTIME (5000)
PreBurst == setup.preBurst                \* PRE_BURST
AfterBurst == setup.afterBurst            \* AFTER_BURST_TIME
AfterBurstDelay == setup.afterBurstDelay  \* AFTER_BURST_DELAY
TestSeekTime == setup.testSeekTime        \* TEST_SEEK_ON_TIME (350)
HeightEncoder == setup.heightEncoder      \* HGT_ENCODER
LockOnAlarm == setup.lockOnAlarm          \* LOCK_ON_ALARM
FootPedalAbort == setup.footPedalAbort    \* m_bWeldAbort: releasing the switches aborts the weld
Batches == setup.batches                  \* a batch count may be reached
LimitFaults == "LIMIT" \in setup.faults   \* a weld may miss a height, time or power limit

NoOperation == "NO_OPERATION"
NoLoad == "NO_LOAD"

\* The select functions: the list of each operation.  The constructor's list, and
\* the one of a screen without an operation, is the closing pair alone.
List(op) ==
  (CASE op = "WELD" ->
          <<"PRE_READY", "READY", "SEEK_SONIC_ON", "WAIT_FOR_TRIGGER", "SQUEEZE_TIME",
            "WELD_PRESSURE_SET", "WELD_SONIC_ON", "HOLD", "WAIT_FOR_READY_POSITION">>
     [] op = "TEST" -> <<"READY_FOR_TRIGGER", "SEEK_SONIC_ON", "TEST_SONIC_ON">>
     [] op = "HEIGHT_CALIBRATE_READY" -> <<"READY_FOR_TRIGGER", "CALIBRATE">>
     [] op = NoOperation -> << >>)
  \o <<"ALARM", "ESTOP">>

AlarmStateIndex == Len(List(operation)) - 1
EStopStateIndex == Len(List(operation))

\* The errors of the SC: BATCH_SIZE, OVERLOAD, one for all limits of a weld,
\* one for both limits before it, and WELD_ABORT, which is not an alarm.
SCErrors == {"BATCH_SIZE", "OVERLOAD", "LIMIT", "PRE_HEIGHT", "WELD_ABORT"}
ACAlarms == {"ERR_PRESSURE_SET", "ERR_HEIGHT_SYSTEM", "ERR_HOME_POSITION", "ERR_STARTSWITCH_LOST"}
AlarmTypes == (SCErrors \ {"WELD_ABORT"}) \cup ACAlarms \cup {"ESTOP"}
AlarmEvents == [type : AlarmTypes, source : {"SC", "PC", "AC"}]

MaxTime == AbsMaxTime + TimeMin + TimeMax + PreBurst + AfterBurst + AfterBurstDelay + SqueezeTime
           + HoldTime + PressureDelay + WeldSeekTime + TestSeekTime + CalibrateDelay
           + BeepDelay + 1

TypeOK ==
  /\ setup \in Setups
  /\ acRx \in RxPDO_AC /\ pcRx \in RxPDO_PC
  /\ operation \in Operations \cup {NoOperation}
  /\ scIndex \in 1 .. Len(List(operation)) + 1
  /\ scObj \in SCSTATES
  /\ actions \in [SCSTATES -> StepActions]
  /\ timers \in [timeout : 0 .. MaxTime, delay : 0 .. MaxTime, wentDown : BOOLEAN,
                 wentUp : BOOLEAN]
  /\ scCore \in SUBSET SCErrors
  /\ alarms \in SUBSET AlarmEvents
  /\ isRunning \in BOOLEAN /\ isLoading \in BOOLEAN
  /\ loading \in Operations \cup {NoLoad}
  /\ response \in BOOLEAN

NoTime == [timeout |-> 0, delay |-> 0, wentDown |-> FALSE, wentUp |-> FALSE]

InitSequence ==
  /\ setup \in Setups
  /\ operation = NoOperation
  /\ scIndex = 1
  /\ scObj = "ESTOP"
  /\ actions = [s \in SCSTATES |-> "INIT"]
  /\ timers = NoTime
  /\ scCore = {}
  /\ alarms = {}
  /\ isRunning = FALSE
  /\ isLoading = FALSE
  /\ loading = NoLoad
  /\ response = FALSE

-----------------------------------------------------------------------------
(* Helpers of the states.                                                  *)

\* Slip: the control bits are assigned where they should be added.
OrderSlip(pdo, state, clear, set) == [MasterState |-> state, MasterEvents |-> set]

\* A command: the master state, with control bits cleared and set.
Order(pdo, state, clear, set) ==
  [MasterState |-> state, MasterEvents |-> (pdo.MasterEvents \ clear) \cup set]
Bits(pdo, clear, set) == Order(pdo, pdo.MasterState, clear, set)

AC(state) == acTx.ACState = state
PC(state) == pcTx.PCState = state

\* Slip: the bit is read the wrong way round.
HornLeftSlip == "STATUS_AC_MOVE_DISABLE" \in acTx.AC_StatusEvent

HornLeft == "STATUS_AC_MOVE_DISABLE" \notin acTx.AC_StatusEvent

SwitchPressed == "STATUS_START_SWITCH_PRESSED" \in acTx.AC_StatusEvent

When(condition, set) == IF condition THEN set ELSE {}

\* AlarmManager::EnterAlarmEvent: the list holds one alarm of a type.
EnterAlarmEvents(list, types, source) ==
  list \cup {[type |-> t, source |-> source] : t \in types \ {a.type : a \in list}}

GetAC == EnterAlarmEvents(alarms, acCore \cap ACAlarms, "AC")
GetPC == EnterAlarmEvents(alarms, When(psCore, {"OVERLOAD"}), "PC")

\* Slip: the abort by the foot pedal is listed, too.
GetSCSlip == EnterAlarmEvents(alarms, scCore, "SC")

GetSC == EnterAlarmEvents(alarms, scCore \ {"WELD_ABORT"}, "SC")

SetAction(s, action) == actions' = [actions EXCEPT ![s] = action]
Proceed(s) == SetAction(s, "JUMP") /\ UNCHANGED <<rx, timers, faults>>
GiveUp(s) == SetAction(s, "FAIL") /\ UNCHANGED <<rx, timers, faults>>
Remain == UNCHANGED <<rx, timers, faults, actions>>

CountTime ==
  /\ timers' = [timers EXCEPT !.timeout = @ + 1]
  /\ UNCHANGED <<rx, faults, actions>>

\* CheckWeldAbort with the foot pedal: both switches have been released.
WeldAborted == FootPedalAbort /\ acTx.ACInputs = {}
Abort(s) ==
  /\ scCore' = scCore \cup {"WELD_ABORT"}
  /\ SetAction(s, "FAIL")
  /\ UNCHANGED <<rx, timers, alarms, response>>

-----------------------------------------------------------------------------
(* Enter: called once, with m_Actions = INIT; a state that does not change *)
(* its action is left in LOOP.                                             *)

\* LOCK_ON_ALARM keeps the part of a weld that went wrong.
\* Slip: the option is read the wrong way round.
LockedSlip == scCore # {} /\ ~LockOnAlarm

Locked == scCore # {} /\ LockOnAlarm

EnterAC(s) ==
  CASE s \in {"PRE_READY", "READY", "WELD_PRESSURE_SET"} -> Order(acRx, s, {}, {})
    [] s = "WAIT_FOR_TRIGGER" ->
         Order(acRx, s, {"CTRL_AC_MOVE_DISABLE", "CTRL_PART_CONTACT_ENABLE", "CTRL_PREBURST_ENABLE"},
               When(HeightEncoder, {"CTRL_PART_CONTACT_ENABLE"})
                 \cup When(PreBurst > 0, {"CTRL_PREBURST_ENABLE"}))
    [] s = "WAIT_FOR_READY_POSITION" ->
         Order(acRx, IF Locked THEN acRx.MasterState ELSE s,
               {"CTRL_AC_MOVE_DISABLE"}, {"CTRL_ULS_ENABLE"})
    [] s = "READY_FOR_TRIGGER" -> Order(acRx, s, {}, {"CTRL_AC_MOVE_DISABLE"})
    [] s = "CALIBRATE" -> Bits(acRx, {"CTRL_AC_MOVE_DISABLE"}, {})
    [] OTHER -> acRx

\* The test seek is the one of the TEST list.
EnterPC(s) ==
  CASE s = "SEEK_SONIC_ON" ->
         Order(pcRx, s, {"CTRL_PC_SONIC_DISABLE", "CTRL_WELDTEST_ENABLE"},
               When(operation = "TEST", {"CTRL_WELDTEST_ENABLE"}))
    [] s = "WAIT_FOR_TRIGGER" ->
         Order(pcRx, s, {"CTRL_PREBURST_ENABLE"} \cup When(PreBurst > 0, {"CTRL_PC_SONIC_DISABLE"}),
               {})
    [] s = "WAIT_FOR_READY_POSITION" ->
         Order(pcRx, s, {"CTRL_AFTERBURST_ENABLE"}
                          \cup When(AfterBurst > 0, {"CTRL_PC_SONIC_DISABLE"}), {})
    [] s = "TEST_SONIC_ON" -> Order(pcRx, "WELD_SONIC_ON", {"CTRL_PC_SONIC_DISABLE"}, {})
    [] s = "ESTOP" -> IF AC("AC_ESTOP") THEN Bits(pcRx, {}, {"CTRL_ESTOP"}) ELSE pcRx
    [] OTHER -> pcRx

\* The alarm an Alarm object finds on Enter, PC first.  A power overload the
\* SC has recorded itself is not listed for the PC.
EnterAlarms(s) ==
  CASE s = "ALARM" -> IF PC("PC_ALARM") THEN (IF "OVERLOAD" \in scCore THEN alarms ELSE GetPC)
                      ELSE IF AC("AC_ALARM") THEN GetAC ELSE GetSC
    [] s = "ESTOP" -> EnterAlarmEvents(alarms, When(AC("AC_ESTOP"), {"ESTOP"}), "AC")
    [] OTHER -> alarms

NoAlarm == ~PC("PC_ALARM") /\ ~AC("AC_ALARM") /\ scCore = {}
NoEstop == ~AC("AC_ESTOP") /\ ~PC("PC_ESTOP")

EnterAction(s) ==
  CASE s = "ALARM" /\ NoAlarm -> "JUMP"
    [] s = "ESTOP" /\ NoEstop -> "JUMP"
    [] s = "WAIT_FOR_READY_POSITION" /\ scCore # {} -> "FAIL"
    [] OTHER -> "LOOP"

\* WELD_SONIC_ON enables the sonics, but commands them only when the height
\* before the weld is within its limits.
EnterWeld ==
  /\ \/ /\ pcRx' = Order(pcRx, "WELD_SONIC_ON", {"CTRL_PC_SONIC_DISABLE"}, {})
        /\ SetAction("WELD_SONIC_ON", "LOOP")
        /\ UNCHANGED scCore
     \/ /\ HeightEncoder /\ LimitFaults
        /\ pcRx' = Bits(pcRx, {"CTRL_PC_SONIC_DISABLE"}, {})
        /\ scCore' = scCore \cup {"PRE_HEIGHT"}
        /\ SetAction("WELD_SONIC_ON", "FAIL")
  /\ timers' = NoTime
  /\ UNCHANGED <<acRx, alarms, response>>

Enter(s) ==
  \/ s = "WELD_SONIC_ON" /\ EnterWeld
  \/ /\ s # "WELD_SONIC_ON"
     /\ acRx' = EnterAC(s)
     /\ pcRx' = EnterPC(s)
     /\ alarms' = EnterAlarms(s)
     /\ SetAction(s, EnterAction(s))
     /\ timers' = NoTime
     /\ UNCHANGED <<scCore, response>>

-----------------------------------------------------------------------------
(* Loop: one pass per tick.                                                *)

\* Slip: the switches need not be released.
PreReadyLoopSlip(s) ==
  \/ AC("AC_READY") /\ Proceed(s)
  \/ AC("AC_ALARM") /\ GiveUp(s)
  \/ ~AC("AC_READY") /\ ~AC("AC_ALARM") /\ Remain

PreReadyLoop(s) ==
  \/ AC("AC_READY") /\ ~SwitchPressed /\ Proceed(s)
  \/ AC("AC_ALARM") /\ GiveUp(s)
  \/ ~(AC("AC_READY") /\ ~SwitchPressed) /\ ~AC("AC_ALARM") /\ Remain

ReadyLoop(s) ==
  \/ AC("AC_READY") /\ SwitchPressed /\ Proceed(s)
  \/ AC("AC_READY") /\ ~SwitchPressed /\ Remain
  \/ ~AC("AC_READY") /\ (AC("AC_ALARM") \/ PC("PC_ALARM")) /\ GiveUp(s)
  \/ ~AC("AC_READY") /\ ~AC("AC_ALARM") /\ ~PC("PC_ALARM") /\ Remain

SeekTime == IF operation = "TEST" THEN TestSeekTime ELSE WeldSeekTime

SeekSonicOnLoop(s) ==
  \/ PC("PC_ALARM") /\ GiveUp(s)
  \/ ~PC("PC_ALARM") /\ WeldAborted /\ Abort(s)
  \/ ~PC("PC_ALARM") /\ ~WeldAborted /\ timers.timeout < SeekTime /\ CountTime
  \/ /\ ~PC("PC_ALARM") /\ ~WeldAborted /\ timers.timeout >= SeekTime
     /\ pcRx' = [pcRx EXCEPT !.MasterState = "NO_STATE"]
     /\ SetAction(s, "JUMP")
     /\ UNCHANGED <<acRx, timers, faults>>

\* Waiting with a burst, before the weld or after it: the PC is told to start
\* it at most once, runs it for its time, and the stroke is looked at after.
\* The AC alarm sets FAIL, and the rest of the Loop still runs.
FailOf(s) == IF AC("AC_ALARM") THEN "FAIL" ELSE actions[s]

BurstStarts(s, ctrl) ==
  /\ pcRx' = Bits(pcRx, {}, {ctrl})
  /\ SetAction(s, FailOf(s))
  /\ UNCHANGED <<acRx, timers, faults>>

BurstWaits(s) ==
  /\ SetAction(s, FailOf(s))
  /\ UNCHANGED <<rx, timers, faults>>

BurstRuns(s, ctrl, duration) ==
  /\ PC("PC_WELD_RUN")
  /\ SetAction(s, FailOf(s))
  /\ \/ timers.timeout >= duration /\ pcRx' = Bits(pcRx, {ctrl}, {}) /\ UNCHANGED timers
     \/ /\ timers.timeout < duration
        /\ timers' = [timers EXCEPT !.timeout = @ + 1]
        /\ UNCHANGED pcRx
  /\ UNCHANGED <<acRx, faults>>

\* Slip: the trigger is taken for given once the horn has left.
StrokeEndsSlip(s, acState) ==
  /\ SetAction(s, IF AC(acState) \/ HornLeft THEN "JUMP" ELSE FailOf(s))
  /\ UNCHANGED <<rx, timers, faults>>

StrokeEnds(s, acState) ==
  /\ SetAction(s, IF AC(acState) THEN "JUMP" ELSE FailOf(s))
  /\ UNCHANGED <<rx, timers, faults>>

\* Slip: the burst may start again when it is over.
BurstDueSlip(duration) == duration > 0

BurstDue(duration) == duration > 0 /\ timers.timeout = 0

WaitForTriggerLoop(s) ==
  \/ WeldAborted /\ Abort(s)
  \/ /\ ~WeldAborted /\ PC("PC_READY")
     /\ \/ BurstDue(PreBurst) /\ HornLeft /\ BurstStarts(s, "CTRL_PREBURST_ENABLE")
        \/ BurstDue(PreBurst) /\ ~HornLeft /\ BurstWaits(s)
        \/ ~BurstDue(PreBurst) /\ StrokeEnds(s, "AC_HOLD")
  \/ ~WeldAborted /\ BurstRuns(s, "CTRL_PREBURST_ENABLE", PreBurst)
  \/ ~WeldAborted /\ ~PC("PC_READY") /\ ~PC("PC_WELD_RUN") /\ GiveUp(s)

\* The delay of the after burst is counted once the horn has left the part.
DelayEnds == timers.delay >= AfterBurstDelay

AfterBurstWait(s) ==
  \/ (HornLeft \/ timers.delay > 0) /\ DelayEnds /\ BurstStarts(s, "CTRL_AFTERBURST_ENABLE")
  \/ /\ (HornLeft \/ timers.delay > 0) /\ ~DelayEnds
     /\ timers' = [timers EXCEPT !.delay = @ + 1]
     /\ SetAction(s, FailOf(s))
     /\ UNCHANGED <<rx, faults>>
  \/ ~HornLeft /\ timers.delay = 0 /\ BurstWaits(s)

WaitForReadyPositionLoop(s) ==
  \/ /\ PC("PC_READY")
     /\ \/ BurstDue(AfterBurst) /\ AfterBurstWait(s)
        \/ ~BurstDue(AfterBurst) /\ StrokeEnds(s, "AC_READY")
  \/ BurstRuns(s, "CTRL_AFTERBURST_ENABLE", AfterBurst)
  \/ ~PC("PC_READY") /\ ~PC("PC_WELD_RUN") /\ GiveUp(s)

\* SQUEEZE_TIME, WELD_PRESSURE_SET and HOLD only let time pass.
DelayLoop(s, duration) ==
  \/ timers.timeout < duration /\ CountTime
  \/ timers.timeout >= duration /\ Proceed(s)

\* m_WeldTime is incremented first.  The weld ends by energy at any time, at
\* the latest past TimeMax; an overload seen in the same tick stays recorded.
WeldTime == timers.timeout + 1
WeldMayEnd ==
  CASE WeldMode = "ENERGY_MODE" -> TRUE
    [] WeldMode = "TIME_MODE" -> WeldTime > TimeMin
    [] OTHER -> FALSE
WeldMayGoOn == ~WeldMayEnd \/ (WeldMode = "ENERGY_MODE" /\ WeldTime <= TimeMax)

WeldSonicOnLoop(s) ==
  /\ timers' = [timers EXCEPT !.timeout = WeldTime]
  /\ \/ /\ WeldTime > AbsMaxTime
        /\ scCore' = scCore \cup {"LIMIT"}
        /\ SetAction(s, "FAIL")
     \/ /\ WeldTime <= AbsMaxTime
        /\ scCore' = scCore \cup When(PC("PC_ALARM"), {"OVERLOAD"})
        /\ \/ WeldMayEnd /\ SetAction(s, "JUMP")
           \/ WeldMayGoOn /\ SetAction(s, IF PC("PC_ALARM") THEN "FAIL" ELSE "LOOP")
  /\ UNCHANGED <<rx, alarms, response>>

ReadyForTriggerLoop(s) ==
  IF AC("AC_ALARM") \/ PC("PC_ALARM") THEN GiveUp(s) ELSE Remain

TestSonicOnLoop(s) == IF PC("PC_ALARM") THEN GiveUp(s) ELSE Remain

\* Slip: one tick short.
CalibrationDelayEndsSlip(count) == count + 1 >= CalibrateDelay

CalibrationDelayEnds(count) == count >= CalibrateDelay

\* The calibration stroke.  timers.delay is the pressure delay before the
\* stroke and the hold delay on the part: neither is left before it is over.
CalibrateLoop(s) ==
  \/ AC("AC_ALARM") /\ GiveUp(s)
  \/ AC("AC_READY") /\ timers.wentUp /\ Proceed(s)
  \/ AC("AC_READY") /\ ~timers.wentUp /\ (timers.wentDown \/ timers.delay > 0) /\ Remain
  \/ /\ AC("AC_READY") /\ ~timers.wentUp /\ ~timers.wentDown /\ timers.delay = 0
     /\ \/ ~CalibrationDelayEnds(timers.timeout) /\ CountTime
        \/ /\ CalibrationDelayEnds(timers.timeout)
           /\ acRx' = Order(acRx, "DOWN_STROKE", {}, {"CTRL_PART_CONTACT_ENABLE"})
           /\ UNCHANGED <<pcRx, timers, faults, actions>>
  \/ /\ AC("AC_DOWN_STROKE")
     /\ timers' = [timers EXCEPT !.wentDown = TRUE]
     /\ UNCHANGED <<rx, faults, actions>>
  \/ /\ AC("AC_HOLD") /\ ~CalibrationDelayEnds(timers.delay)
     /\ timers' = [timers EXCEPT !.delay = @ + 1, !.wentDown = FALSE]
     /\ UNCHANGED <<rx, faults, actions>>
  \/ /\ AC("AC_HOLD") /\ CalibrationDelayEnds(timers.delay)
     /\ acRx' = Order(acRx, "RETURN_STROKE", {}, {"CTRL_ULS_ENABLE"})
     /\ timers' = [timers EXCEPT !.wentDown = FALSE]
     /\ UNCHANGED <<pcRx, faults, actions>>
  \/ /\ AC("AC_RETURN_STROKE")
     /\ timers' = [timers EXCEPT !.wentUp = TRUE]
     /\ UNCHANGED <<rx, faults, actions>>
  \/ AC("AC_POWERUP") /\ Remain
  \/ AC("AC_STARTSWICH") /\ Remain
  \/ AC("AC_ESTOP") /\ Remain

AlarmLoop(s) ==
  \/ NoAlarm /\ Proceed(s)
  \/ ~NoAlarm /\ timers.timeout < BeepDelay /\ CountTime
  \/ /\ ~NoAlarm /\ timers.timeout >= BeepDelay
     /\ alarms' = IF scCore # {} THEN GetSC ELSE IF PC("PC_ALARM") THEN GetPC ELSE GetAC
     /\ timers' = NoTime
     /\ UNCHANGED <<rx, scCore, response, actions>>

\* Slip: the E-stop of the power supply is never lifted.
EstopLoopSlip(s) ==
  IF AC("AC_READY") /\ PC("PC_READY") THEN Proceed(s) ELSE Remain

EstopLoop(s) ==
  \/ /\ AC("AC_READY") /\ PC("PC_ESTOP")
     /\ pcRx' = Bits(pcRx, {"CTRL_ESTOP"}, {})
     /\ UNCHANGED <<acRx, timers, faults, actions>>
  \/ AC("AC_READY") /\ PC("PC_READY") /\ Proceed(s)
  \/ ~(AC("AC_READY") /\ (PC("PC_ESTOP") \/ PC("PC_READY"))) /\ Remain

Loop(s) ==
  \/ s = "PRE_READY" /\ PreReadyLoop(s)
  \/ s = "READY" /\ ReadyLoop(s)
  \/ s = "SEEK_SONIC_ON" /\ SeekSonicOnLoop(s)
  \/ s = "WAIT_FOR_TRIGGER" /\ WaitForTriggerLoop(s)
  \/ s = "SQUEEZE_TIME" /\ DelayLoop(s, SqueezeTime)
  \/ s = "WELD_PRESSURE_SET" /\ DelayLoop(s, PressureDelay)
  \/ s = "WELD_SONIC_ON" /\ WeldSonicOnLoop(s)
  \/ s = "HOLD" /\ DelayLoop(s, HoldTime)
  \/ s = "WAIT_FOR_READY_POSITION" /\ WaitForReadyPositionLoop(s)
  \/ s = "READY_FOR_TRIGGER" /\ ReadyForTriggerLoop(s)
  \/ s = "TEST_SONIC_ON" /\ TestSonicOnLoop(s)
  \/ s = "CALIBRATE" /\ CalibrateLoop(s)
  \/ s = "ALARM" /\ AlarmLoop(s)
  \/ s = "ESTOP" /\ EstopLoop(s)

-----------------------------------------------------------------------------
(* Fail and Exit.                                                          *)

\* ResetWeldAbort clears ERR_WELD_ABORT only when it is the only error.
FailCore(s) ==
  IF s \in {"SEEK_SONIC_ON", "WAIT_FOR_TRIGGER"} /\ scCore = {"WELD_ABORT"} THEN {} ELSE scCore

Fail(s) ==
  /\ scCore' = FailCore(s)
  /\ SetAction(s, IF s = "WELD_SONIC_ON" THEN "ALJUMPNORM" ELSE "ABORT")
  /\ UNCHANGED <<rx, timers, alarms, response>>

\* Slip: WaitForTrigger::Exit leaves its command to the actuator.
ExitACSlip(s) ==
  IF s \in {"PRE_READY", "READY", "WELD_PRESSURE_SET", "WAIT_FOR_READY_POSITION",
            "READY_FOR_TRIGGER"}
  THEN Order(acRx, "NO_STATE", {}, {}) ELSE acRx

ExitAC(s) ==
  IF s \in {"PRE_READY", "READY", "WAIT_FOR_TRIGGER", "WELD_PRESSURE_SET",
            "WAIT_FOR_READY_POSITION", "READY_FOR_TRIGGER"}
  THEN Order(acRx, "NO_STATE", {}, {}) ELSE acRx

\* Slip: the states with sonics leave their command to the power supply.
ExitPCSlip(s) ==
  CASE s \in {"SEEK_SONIC_ON", "WAIT_FOR_READY_POSITION"} -> Order(pcRx, "NO_STATE", {}, {})
    [] s = "WAIT_FOR_TRIGGER" -> Order(pcRx, "NO_STATE", {"CTRL_PREBURST_ENABLE"}, {})
    [] s = "TEST_SONIC_ON" -> Bits(pcRx, {"CTRL_WELDTEST_ENABLE"}, {})
    [] OTHER -> pcRx

ExitPC(s) ==
  CASE s \in {"SEEK_SONIC_ON", "WELD_SONIC_ON", "WAIT_FOR_READY_POSITION"} ->
         Order(pcRx, "NO_STATE", {}, {})
    [] s = "WAIT_FOR_TRIGGER" -> Order(pcRx, "NO_STATE", {"CTRL_PREBURST_ENABLE"}, {})
    [] s = "TEST_SONIC_ON" -> Order(pcRx, "NO_STATE", {"CTRL_WELDTEST_ENABLE"}, {})
    [] OTHER -> pcRx

\* CheckWeldAlarm, skipped when the height before the weld was wrong: the
\* weld time is compared with its limits also when the weld was interrupted.
TimeMissed == timers.timeout < TimeMin \/ timers.timeout > TimeMax

ExitCore(s) ==
  IF s = "WELD_SONIC_ON" /\ "PRE_HEIGHT" \notin scCore
  THEN \/ (TimeMissed \/ LimitFaults) /\ scCore' = scCore \cup {"LIMIT"}
       \/ ~TimeMissed /\ UNCHANGED scCore
  ELSE UNCHANGED scCore

\* AlarmManager::ClearEStopEvent.
WithoutEstop(list) == {a \in list : a.type # "ESTOP"}

ExitAlarms(s) == IF s = "ESTOP" THEN WithoutEstop(alarms) ELSE alarms

Leave(s, next) ==
  /\ acRx' = ExitAC(s)
  /\ pcRx' = ExitPC(s)
  /\ ExitCore(s)
  /\ alarms' = ExitAlarms(s)
  /\ response' = (response \/ s = "WELD_SONIC_ON")
  /\ SetAction(s, "INIT")
  /\ scIndex' = next
  /\ UNCHANGED timers

-----------------------------------------------------------------------------
(* RunStateMachine.                                                        *)

Dispatch(index) ==
  LET s == List(operation)[index] IN
    /\ scObj' = s
    /\ \/ /\ scIndex' = index
          /\ \/ actions[s] = "INIT" /\ Enter(s)
             \/ actions[s] = "LOOP" /\ Loop(s)
             \/ actions[s] = "FAIL" /\ Fail(s)
       \/ actions[s] \in {"JUMP", "ALJUMPNORM"} /\ Leave(s, index + 1)
       \/ actions[s] = "ABORT" /\ Leave(s, AlarmStateIndex)

\* The E-stop of the AC takes the SC out of any other state: Exit of the
\* object run last, then what is left to do for the Estop object.
EstopDue == AC("AC_ESTOP") /\ scObj # "ESTOP"

EstopNext(action) ==
  CASE action = "INIT" -> "LOOP"
    [] action = "JUMP" -> "INIT"
    [] OTHER -> action

RunEstop ==
  LET todo == actions["ESTOP"] IN
    /\ acRx' = ExitAC(scObj)
    /\ pcRx' = IF todo = "INIT" THEN Bits(ExitPC(scObj), {}, {"CTRL_ESTOP"}) ELSE ExitPC(scObj)
    /\ ExitCore(scObj)
    /\ alarms' = CASE todo = "INIT" -> EnterAlarmEvents(alarms, {"ESTOP"}, "AC")
                   [] todo = "JUMP" -> WithoutEstop(alarms)
                   [] OTHER -> alarms
    /\ response' = (response \/ scObj = "WELD_SONIC_ON")
    /\ actions' = [actions EXCEPT ![scObj] = "INIT", !["ESTOP"] = EstopNext(todo)]
    /\ timers' = NoTime
    /\ scObj' = "ESTOP"
    /\ scIndex' = IF todo = "JUMP" THEN EStopStateIndex + 1 ELSE EStopStateIndex

RunStateMachine ==
  /\ \/ /\ isLoading
        /\ isRunning' = FALSE
        /\ scIndex' = 1
        /\ UNCHANGED <<rx, scObj, actions, timers, faults>>
     \/ /\ ~isLoading
        /\ isRunning' = TRUE
        /\ IF EstopDue THEN RunEstop
           ELSE Dispatch(IF scIndex > Len(List(operation)) THEN 1 ELSE scIndex)
  /\ UNCHANGED <<tx, operation, loader>>

-----------------------------------------------------------------------------
(* The calls of the control task.                                          *)

\* LoadStatesHandler: the flag stops the machine at its next tick, which may
\* come before the rest of the call or after it.  updateWorkFlow asks for the
\* operation it has only when the machine does not run, and not for NO_OPERATION.
LoadBegin(op) ==
  /\ loading = NoLoad
  /\ op # operation \/ (~isRunning /\ op # NoOperation)
  /\ isLoading' = TRUE
  /\ loading' = op
  /\ UNCHANGED <<rx, tx, dispatch, actions, timers, faults, isRunning>>

\* _objStateMap: the states a new operation may take the list from.
Removable == {"PRE_READY", "READY", "WAIT_FOR_READY_POSITION", "READY_FOR_TRIGGER", "TEST_SONIC_ON"}
Critical == {"WAIT_FOR_TRIGGER", "WELD_SONIC_ON", "CALIBRATE", "ALARM", "ESTOP"}

MayDelete == scObj \in Removable \/ (scObj \in Critical /\ actions[scObj] # "LOOP")

\* The machine still runs: the call fails and leaves the flag set, for the
\* next tick to stop the machine and the next call to succeed.
LoadRetry ==
  /\ MayDelete /\ isRunning
  /\ UNCHANGED <<isLoading, dispatch, actions, timers>>

LoadRefused ==
  /\ ~MayDelete
  /\ isLoading' = FALSE
  /\ UNCHANGED <<dispatch, actions, timers>>

\* The old objects are deleted without an Exit; the object built last, Estop,
\* counts as the one that runs.
LoadDone ==
  /\ MayDelete /\ ~isRunning
  /\ isLoading' = FALSE
  /\ operation' = loading
  /\ scObj' = "ESTOP"
  /\ actions' = [s \in SCSTATES |-> "INIT"]
  /\ timers' = NoTime
  /\ UNCHANGED scIndex

LoadFinish ==
  /\ loading # NoLoad
  /\ loading' = NoLoad
  /\ \/ LoadRetry \/ LoadRefused \/ LoadDone
  /\ UNCHANGED <<rx, tx, faults, isRunning>>

\* ExecuteStateAction, of the states the loaded list has mapped to an action.
ExecuteStateAction(s) ==
  /\ loading = NoLoad
  /\ \/ s = "READY_FOR_TRIGGER" /\ operation \in {"TEST", "HEIGHT_CALIBRATE_READY"}
     \/ s = "TEST_SONIC_ON" /\ operation = "TEST"
  /\ actions[s] = "LOOP"
  /\ SetAction(s, "JUMP")
  /\ UNCHANGED <<rx, tx, dispatch, timers, faults, isRunning, loader>>

\* WeldWorkFlow::RunProcess on a response: a weld past the height check may
\* reach the batch count.
RunProcess ==
  /\ response /\ loading = NoLoad
  /\ response' = FALSE
  /\ \/ UNCHANGED scCore
     \/ /\ Batches /\ "PRE_HEIGHT" \notin scCore
        /\ scCore' = scCore \cup {"BATCH_SIZE"}
  /\ UNCHANGED <<rx, tx, dispatch, actions, timers, alarms, isRunning, loader>>

=============================================================================
