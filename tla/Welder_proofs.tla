---------------------------- MODULE Welder_proofs ----------------------------
(***************************************************************************)
(* Proofs about the controller as a whole, for every recipe and system     *)
(* configuration and for all times: the supervisory controller drives the  *)
(* power supply and the actuator only as their own specifications allow, a *)
(* cycle starts only by two hands, and strokes, sonics, bursts, the lock   *)
(* of a part and calibrations keep to the cycle.  Two hypotheses recur: one *)
(* operation at a time, because another one deletes the running object     *)
(* without its Exit (SCStateMachine.cpp:143), and ~Overrun, that a task    *)
(* has run before the next tick, where stale commands matter.              *)
(***************************************************************************)
EXTENDS Welder, TLAPS

\* What the SC writes and what decides how an alarm is reset has its type.
CommandsTyped ==
  /\ pcRx \in RxPDO_PC /\ acRx \in RxPDO_AC
  /\ psCore \in BOOLEAN /\ overload \in BOOLEAN

-----------------------------------------------------------------------------
(* What a tick of the SC writes into the two PDOs.                         *)

\* An order of the SC to the power supply is a command and control bits it knows.
LEMMA OrderPC ==
  ASSUME pcRx \in RxPDO_PC, NEW state \in MasterStates,
         NEW clear, NEW set \in SUBSET PC_CONTROL_EVENTS
  PROVE  Order(pcRx, state, clear, set) \in RxPDO_PC
BY DEF Order, RxPDO_PC

\* So is one to the actuator, and it leaves the bit of the E-stop as it is.
OrderedAC(rx1) ==
  /\ rx1 \in RxPDO_AC
  /\ "CTRL_ESTOP" \in rx1.MasterEvents <=> "CTRL_ESTOP" \in acRx.MasterEvents

LEMMA OrderAC ==
  ASSUME acRx \in RxPDO_AC, NEW state \in MasterStates,
         NEW clear \in SUBSET (AC_CONTROL_EVENTS \ {"CTRL_ESTOP"}),
         NEW set \in SUBSET (AC_CONTROL_EVENTS \ {"CTRL_ESTOP"})
  PROVE  OrderedAC(Order(acRx, state, clear, set))
BY DEF Order, RxPDO_AC, OrderedAC

\* The orders of a tick: to the power supply and to the actuator.
Ordered == pcRx' \in RxPDO_PC /\ OrderedAC(acRx')

LEMMA SameOrders ==
  ASSUME CommandsTyped
  PROVE  OrderedAC(acRx) /\ (UNCHANGED rx => Ordered)
BY DEF CommandsTyped, OrderedAC, Ordered, rx

LEMMA EnterOrders ==
  ASSUME CommandsTyped, NEW s, Enter(s)
  PROVE  Ordered
<1>1. /\ {"SEEK_SONIC_ON", "WAIT_FOR_TRIGGER", "WAIT_FOR_READY_POSITION", "WELD_SONIC_ON",
          "PRE_READY", "READY", "WELD_PRESSURE_SET", "READY_FOR_TRIGGER"} \subseteq MasterStates
      /\ pcRx.MasterState \in MasterStates /\ acRx.MasterState \in MasterStates
  BY DEF MasterStates, SCSTATES, CommandsTyped, RxPDO_PC, RxPDO_AC
<1>2. /\ {"CTRL_WELDTEST_ENABLE", "CTRL_ESTOP"} \subseteq PC_CONTROL_EVENTS
      /\ {"CTRL_AC_MOVE_DISABLE", "CTRL_PART_CONTACT_ENABLE", "CTRL_PREBURST_ENABLE",
          "CTRL_ULS_ENABLE"} \subseteq AC_CONTROL_EVENTS \ {"CTRL_ESTOP"}
  BY DEF PC_CONTROL_EVENTS, AC_CONTROL_EVENTS
<1>3. CASE s = "WELD_SONIC_ON" /\ EnterWeld
  <2>1. acRx' = acRx /\ \/ pcRx' = Order(pcRx, "WELD_SONIC_ON", {"CTRL_PC_SONIC_DISABLE"}, {})
                        \/ pcRx' = Order(pcRx, pcRx.MasterState, {"CTRL_PC_SONIC_DISABLE"}, {})
    BY <1>3 DEF EnterWeld, Bits
  <2>. QED  BY <1>1, <2>1, OrderPC, SameOrders DEF Ordered, CommandsTyped
<1>4. CASE acRx' = EnterAC(s) /\ pcRx' = EnterPC(s)
  <2>1. EnterPC(s) \in RxPDO_PC
    <3>1. {} \in SUBSET PC_CONTROL_EVENTS /\ {"CTRL_ESTOP"} \in SUBSET PC_CONTROL_EVENTS
          /\ When(operation = "TEST", {"CTRL_WELDTEST_ENABLE"}) \in SUBSET PC_CONTROL_EVENTS
      BY <1>2 DEF When
    <3>. QED  BY <1>1, <3>1, OrderPC DEF EnterPC, Bits, CommandsTyped
  <2>2. OrderedAC(EnterAC(s))
    <3>. DEFINE Own == AC_CONTROL_EVENTS \ {"CTRL_ESTOP"}
    <3>1. /\ {} \in SUBSET Own /\ {"CTRL_ULS_ENABLE"} \in SUBSET Own
          /\ {"CTRL_AC_MOVE_DISABLE"} \in SUBSET Own
          /\ {"CTRL_AC_MOVE_DISABLE", "CTRL_PART_CONTACT_ENABLE", "CTRL_PREBURST_ENABLE"}
               \in SUBSET Own
          /\ When(HeightEncoder, {"CTRL_PART_CONTACT_ENABLE"})
               \cup When(PreBurst > 0, {"CTRL_PREBURST_ENABLE"}) \in SUBSET Own
      BY <1>2 DEF When
    <3>2. CASE s \in {"PRE_READY", "READY", "WELD_PRESSURE_SET"}
      BY <1>1, <3>1, <3>2, OrderAC DEF EnterAC, CommandsTyped
    <3>3. CASE s = "WAIT_FOR_TRIGGER"
      BY <1>1, <3>1, <3>3, OrderAC DEF EnterAC, CommandsTyped
    <3>4. CASE s = "WAIT_FOR_READY_POSITION"
      BY <1>1, <3>1, <3>4, OrderAC DEF EnterAC, CommandsTyped
    <3>5. CASE s = "READY_FOR_TRIGGER"
      BY <1>1, <3>1, <3>5, OrderAC DEF EnterAC, CommandsTyped
    <3>6. CASE s = "CALIBRATE"
      BY <1>1, <3>1, <3>6, OrderAC DEF EnterAC, Bits, CommandsTyped
    <3>. QED  BY <3>2, <3>3, <3>4, <3>5, <3>6, SameOrders DEF EnterAC
  <2>. QED  BY <1>4, <2>1, <2>2 DEF Ordered
<1>. QED  BY <1>3, <1>4 DEF Enter

LEMMA LoopOrders ==
  ASSUME CommandsTyped, NEW s, Loop(s)
  PROVE  Ordered
<1>1. /\ {"NO_STATE", "DOWN_STROKE", "RETURN_STROKE"} \subseteq MasterStates
      /\ pcRx.MasterState \in MasterStates
  BY DEF MasterStates, CommandsTyped, RxPDO_PC
<1>2. /\ {"CTRL_PREBURST_ENABLE", "CTRL_AFTERBURST_ENABLE", "CTRL_ESTOP"}
           \subseteq PC_CONTROL_EVENTS
      /\ {"CTRL_PART_CONTACT_ENABLE", "CTRL_ULS_ENABLE"}
           \subseteq AC_CONTROL_EVENTS \ {"CTRL_ESTOP"}
  BY DEF PC_CONTROL_EVENTS, AC_CONTROL_EVENTS
<1>3. ASSUME acRx' = acRx, pcRx' \in RxPDO_PC PROVE Ordered
  BY <1>3, SameOrders DEF Ordered
<1>4. UNCHANGED rx => Ordered
  BY SameOrders
<1>5. ASSUME NEW t PROVE Proceed(t) \/ GiveUp(t) \/ Remain \/ CountTime \/ Abort(t) => Ordered
  BY <1>4 DEF Proceed, GiveUp, Remain, CountTime, Abort
<1>6. ASSUME NEW ctrl \in PC_CONTROL_EVENTS, NEW duration
      PROVE  /\ Bits(pcRx, {}, {ctrl}) \in RxPDO_PC
             /\ Bits(pcRx, {ctrl}, {}) \in RxPDO_PC
             /\ BurstStarts(s, ctrl) => Ordered
             /\ BurstWaits(s) => Ordered
             /\ BurstRuns(s, ctrl, duration) => Ordered
  <2>1. Bits(pcRx, {}, {ctrl}) \in RxPDO_PC /\ Bits(pcRx, {ctrl}, {}) \in RxPDO_PC
    BY <1>1, OrderPC DEF Bits, CommandsTyped
  <2>2. BurstRuns(s, ctrl, duration)
          => acRx' = acRx /\ (pcRx' = pcRx \/ pcRx' = Bits(pcRx, {ctrl}, {}))
    BY DEF BurstRuns
  <2>. QED  BY <1>3, <1>4, <2>1, <2>2 DEF BurstStarts, BurstWaits, CommandsTyped, rx
<1>7. ASSUME NEW acState PROVE StrokeEnds(s, acState) => Ordered
  BY <1>4 DEF StrokeEnds
<1>8. CASE SeekSonicOnLoop(s)
  <2>1. [pcRx EXCEPT !.MasterState = "NO_STATE"] \in RxPDO_PC
    BY <1>1 DEF CommandsTyped, RxPDO_PC
  <2>. QED  BY <1>3, <1>5, <1>8, <2>1 DEF SeekSonicOnLoop
<1>9. CASE WaitForTriggerLoop(s)
  BY <1>2, <1>5, <1>6, <1>7, <1>9 DEF WaitForTriggerLoop
<1>10. CASE WaitForReadyPositionLoop(s)
  BY <1>2, <1>4, <1>5, <1>6, <1>7, <1>10 DEF WaitForReadyPositionLoop, AfterBurstWait
<1>11. CASE CalibrateLoop(s)
  <2>1. /\ OrderedAC(Order(acRx, "DOWN_STROKE", {}, {"CTRL_PART_CONTACT_ENABLE"}))
        /\ OrderedAC(Order(acRx, "RETURN_STROKE", {}, {"CTRL_ULS_ENABLE"}))
    BY <1>1, <1>2, OrderAC DEF CommandsTyped
  <2>2. ASSUME pcRx' = pcRx, OrderedAC(acRx') PROVE Ordered
    BY <2>2 DEF Ordered, CommandsTyped
  <2>. QED  BY <1>4, <1>5, <1>11, <2>1, <2>2 DEF CalibrateLoop
<1>12. CASE EstopLoop(s)
  BY <1>2, <1>3, <1>5, <1>6, <1>12 DEF EstopLoop
<1>13. CASE WeldSonicOnLoop(s) \/ AlarmLoop(s)
  BY <1>4, <1>5, <1>13 DEF WeldSonicOnLoop, AlarmLoop
<1>14. ASSUME NEW duration PROVE DelayLoop(s, duration) => Ordered
  BY <1>5 DEF DelayLoop
<1>. QED
  BY <1>5, <1>8, <1>9, <1>10, <1>11, <1>12, <1>13, <1>14
  DEF Loop, PreReadyLoop, ReadyLoop, ReadyForTriggerLoop, TestSonicOnLoop

LEMMA ExitOrders ==
  ASSUME CommandsTyped, NEW s
  PROVE  ExitPC(s) \in RxPDO_PC /\ OrderedAC(ExitAC(s))
<1>1. "NO_STATE" \in MasterStates
  BY DEF MasterStates
<1>. QED  BY <1>1, OrderPC, OrderAC, SameOrders DEF ExitPC, ExitAC, CommandsTyped

LEMMA TickOrders ==
  ASSUME CommandsTyped, RunStateMachine
  PROVE  Ordered
<1>1. ASSUME RunEstop PROVE Ordered
  <2>1. Bits(ExitPC(scObj), {}, {"CTRL_ESTOP"}) \in RxPDO_PC
    BY ExitOrders DEF Bits, Order, RxPDO_PC, PC_CONTROL_EVENTS
  <2>. QED  BY <1>1, <2>1, ExitOrders DEF RunEstop, Ordered
<1>2. ASSUME NEW index, Dispatch(index) PROVE Ordered
  <2>1. ASSUME NEW s, NEW next, Leave(s, next) PROVE Ordered
    BY <2>1, ExitOrders DEF Leave, Ordered
  <2>2. ASSUME NEW s, Fail(s) PROVE Ordered
    BY <2>2, SameOrders DEF Fail
  <2>. QED  BY <1>2, <2>1, <2>2, EnterOrders, LoopOrders DEF Dispatch
<1>. QED  BY <1>1, <1>2, SameOrders DEF RunStateMachine

-----------------------------------------------------------------------------
(* The tasks only add control bits to their own commands or take them out. *)

LEMMA PowerRunTypes ==
  ASSUME CommandsTyped, PS!PSRun
  PROVE  pcRx' \in RxPDO_PC /\ pcRx'.MasterState = pcRx.MasterState /\ psCore' \in BOOLEAN
<1>. DEFINE Kept == pcRx' \in RxPDO_PC /\ pcRx'.MasterState = pcRx.MasterState
<1>1. ASSUME NEW next, NEW status, PS!ChangeState(next, status) PROVE Kept
  BY <1>1 DEF PS!ChangeState, CommandsTyped, RxPDO_PC, PC_CONTROL_EVENTS
<1>2. ASSUME NEW status, PS!StayInState(status) PROVE Kept
  BY <1>2 DEF PS!StayInState, CommandsTyped
<1>3. psCore' \in BOOLEAN
  BY DEF PS!PSRun, PS!PolledCore, CommandsTyped
<1>4. ASSUME NEW fault, PS!RunStateMachine(fault) PROVE Kept
  BY <1>1, <1>2, <1>4 DEF PS!RunStateMachine, PS!ReadyLoop, PS!ReadyCommand, PS!Burst,
       PS!WeldRunLoop, PS!SeekRunLoop, PS!AlarmLoop, PS!EstopLoop
<1>. QED  BY <1>3, <1>4 DEF PS!PSRun

LEMMA ActuatorRunTypes ==
  ASSUME CommandsTyped, AC_T!ACRun
  PROVE  acRx' \in RxPDO_AC /\ acRx'.MasterState = acRx.MasterState
<1>. DEFINE Kept == acRx' \in RxPDO_AC /\ acRx'.MasterState = acRx.MasterState
<1>1. ASSUME NEW state, NEW st, NEW e \in SUBSET AC_CONTROL_EVENTS, AC_T!Publish(state, st, e)
      PROVE  Kept
  BY <1>1 DEF AC_T!Publish, CommandsTyped, RxPDO_AC
<1>2. ASSUME NEW state, NEW e \in SUBSET AC_CONTROL_EVENTS
      PROVE  /\ AC_T!EnterEvents(state, e) \in SUBSET AC_CONTROL_EVENTS
             /\ AC_T!ExitEvents(state, e) \in SUBSET AC_CONTROL_EVENTS
  BY DEF AC_T!EnterEvents, AC_T!ExitEvents, AC_CONTROL_EVENTS
<1>3. ASSUME NEW next, NEW st, NEW e \in SUBSET AC_CONTROL_EVENTS, AC_T!ChangeState(next, st, e)
      PROVE  Kept
  <2>1. PICK st1 : AC_T!Publish(next, st1,
                     AC_T!EnterEvents(next, AC_T!ExitEvents(acTx.ACState, e)))
    BY <1>3 DEF AC_T!ChangeState
  <2>. QED  BY <1>1, <1>2, <2>1
<1>4. ASSUME NEW next, NEW core, NEW e \in SUBSET AC_CONTROL_EVENTS, AC_T!Go(next, core, e)
      PROVE  Kept
  BY <1>3, <1>4 DEF AC_T!Go
<1>5. ASSUME NEW core, NEW e \in SUBSET AC_CONTROL_EVENTS
      PROVE  /\ \A st : AC_T!Stay(st, e) => Kept
             /\ \A st : AC_T!Idle(core, st, e) => Kept
             /\ \A st : AC_T!Wait(core, st, e) => Kept
             /\ \A error : AC_T!Raise(core, error, e) => Kept
  BY <1>1 DEF AC_T!Stay, AC_T!Idle, AC_T!Wait, AC_T!Raise
<1>6. ASSUME NEW core, NEW ev \in SUBSET AC_CONTROL_EVENTS, AC_T!RunStateMachine(core, ev)
      PROVE  Kept
  <2>1. CASE AC_T!ReadyLoop(core, ev)
    <3>1. ev \ {"CTRL_AC_MOVE_DISABLE"} \in SUBSET AC_CONTROL_EVENTS
      OBVIOUS
    <3>2. AC_T!GetPB1(core, ev) => Kept
      BY <1>3, <1>5 DEF AC_T!GetPB1
    <3>. QED  BY <1>4, <1>5, <2>1, <3>1, <3>2 DEF AC_T!ReadyLoop
  <2>2. CASE AC_T!StartSwitchLoop(core, ev)
    BY <1>3, <1>5, <2>2 DEF AC_T!StartSwitchLoop
  <2>3. CASE AC_T!StrokeDownLoop(core, ev)
    BY <1>1, <1>2, <1>5, <2>3 DEF AC_T!StrokeDownLoop
  <2>4. CASE AC_T!StrokeUpLoop(core, ev) \/ AC_T!WeldHoldLoop(core, ev)
    BY <1>4, <1>5, <2>4 DEF AC_T!StrokeUpLoop, AC_T!WeldHoldLoop
  <2>5. CASE AC_T!AlarmLoop(core, ev) \/ AC_T!EstopLoop(core, ev) \/ AC_T!PowerUpLoop(core, ev)
    BY <1>4, <1>5, <2>5 DEF AC_T!AlarmLoop, AC_T!EstopLoop, AC_T!PowerUpLoop
  <2>. QED  BY <1>4, <1>6, <2>1, <2>2, <2>3, <2>4, <2>5 DEF AC_T!RunStateMachine
<1>7. AC_T!ScannedEvents \in SUBSET AC_CONTROL_EVENTS
  BY DEF AC_T!ScannedEvents, CommandsTyped, RxPDO_AC, AC_CONTROL_EVENTS
<1>. QED  BY <1>6, <1>7 DEF AC_T!ACRun

-----------------------------------------------------------------------------
\* Whatever recipe is loaded and however late the tasks are, the SC and the
\* tasks write only commands and control bits that exist.
THEOREM CommandsCorrect == Spec => []CommandsTyped
<1>1. Init => CommandsTyped
  <2>. SUFFICES ASSUME Init PROVE CommandsTyped
    OBVIOUS
  <2>1. /\ pcRx = [MasterState |-> "PRE_READY", MasterEvents |-> {"CTRL_PC_SONIC_DISABLE"}]
        /\ acRx = [MasterState |-> "PRE_READY", MasterEvents |-> {}]
        /\ psCore = FALSE /\ overload = FALSE
    BY DEF Init, PS!InitPower, AC_T!InitActuator
  <2>. QED
    BY <2>1 DEF CommandsTyped, RxPDO_PC, RxPDO_AC, MasterStates, SCSTATES, PC_CONTROL_EVENTS
<1>2. CommandsTyped /\ [Next]_welder => CommandsTyped'
  <2>. SUFFICES ASSUME CommandsTyped, [Next]_welder PROVE CommandsTyped'
    OBVIOUS
  <2>1. CASE AuxClock
    <3>1. Ordered
      BY <2>1, TickOrders DEF AuxClock
    <3>2. UNCHANGED <<psCore, overload>>
      BY <2>1 DEF AuxClock, RunStateMachine, tx
    <3>. QED  BY <3>1, <3>2 DEF Ordered, OrderedAC, CommandsTyped
  <2>2. CASE PowerTask
    <3>1. acRx' = acRx /\ overload' = overload /\ (PS!PSReceive \/ PS!PSRun)
      BY <2>2 DEF PowerTask, PS!PSReceive, PS!PSRun
    <3>2. CASE PS!PSReceive
      BY <3>1, <3>2 DEF PS!PSReceive, CommandsTyped
    <3>. QED  BY <3>1, <3>2, PowerRunTypes DEF CommandsTyped
  <2>3. CASE ActuatorTask
    <3>1. UNCHANGED <<pcRx, psCore, overload>> /\ (AC_T!ACReceive \/ AC_T!ACRun)
      BY <2>3 DEF ActuatorTask, psRest
    <3>2. CASE AC_T!ACReceive
      BY <3>1, <3>2 DEF AC_T!ACReceive, AC_T!machine, CommandsTyped
    <3>. QED  BY <3>1, <3>2, ActuatorRunTypes DEF CommandsTyped
  <2>4. CASE AlarmReset
    BY <2>4 DEF AlarmReset, PowerCore, CommandsTyped, rx, psRest
  <2>5. CASE Generator
    BY <2>5 DEF Generator, PS!OverloadInput, CommandsTyped
  <2>6. CASE PressureMessage \/ ControlTask \/ Plant \/ UNCHANGED welder
    <3>1. UNCHANGED <<pcRx, acRx, psCore, overload>>
      <4>1. CASE PressureMessage
        BY <4>1 DEF PressureMessage, AC_T!PressureSet, psRest
      <4>2. CASE ControlTask
        BY <4>2 DEF ControlTask, LoadBegin, ExecuteStateAction, LoadFinish, RunProcess, rx, tx,
                    psRest
      <4>3. CASE Plant
        BY <4>3 DEF Plant, AC_T!HornTravel, AC_T!StartSwitchInput, AC_T!EstopInput,
                    AC_T!machine, psRest
      <4>4. CASE UNCHANGED welder
        BY <4>4 DEF welder, vars, rx, tx, psRest
      <4>. QED  BY <2>6, <4>1, <4>2, <4>3, <4>4
    <3>. QED  BY <3>1 DEF CommandsTyped
  <2>. QED  BY <2>1, <2>2, <2>3, <2>4, <2>5, <2>6 DEF Next
<1>. QED  BY <1>1, <1>2, PTL DEF Spec

-----------------------------------------------------------------------------
\* The controller drives the power supply as the power supply's own
\* specification allows, and so keeps every property proved of that: a tick of
\* the clock is one command, a reset of its alarms clears its core state, and no
\* other step touches it.
THEOREM PowerSupplyDriven == Spec => PowerSupplySpec
<1>1. Init => PS!InitPower
  BY DEF Init
<1>2. CommandsTyped /\ [Next]_welder => [PS!Next]_(PS!vars)
  <2>. SUFFICES ASSUME CommandsTyped, [Next]_welder PROVE PS!Next \/ UNCHANGED PS!vars
    OBVIOUS
  <2>1. CASE AuxClock
    <3>1. pcRx' \in RxPDO_PC
      BY <2>1, TickOrders DEF AuxClock, Ordered
    <3>2. PICK m \in MasterStates, e \in SUBSET PC_CONTROL_EVENTS :
            pcRx' = [MasterState |-> m, MasterEvents |-> e]
      BY <3>1 DEF RxPDO_PC
    <3>3. UNCHANGED <<pcTx, psCore>>
      BY <2>1 DEF AuxClock, RunStateMachine, tx
    <3>4. PS!Tick
      BY <2>1, <3>2, <3>3 DEF AuxClock, PS!Tick, PS!PC_CONTROL_EVENTS, PC_CONTROL_EVENTS
    <3>. QED  BY <3>4 DEF PS!Next
  <2>2. CASE PowerTask
    BY <2>2 DEF PowerTask, PS!Next
  <2>3. CASE AlarmReset
    <3>1. UNCHANGED <<pcRx, pcTx, psTick, psOut, overload, psEvent, psBusy>>
      BY <2>3 DEF AlarmReset, rx, psRest
    <3>2. psCore' = FALSE \/ psCore' = psCore
      BY <2>3 DEF AlarmReset, PowerCore, CommandsTyped
    <3>. QED  BY <3>1, <3>2 DEF PS!ClearCoreState, PS!Next, PS!vars
  <2>4. CASE Generator
    BY <2>4 DEF Generator, PS!Next
  <2>5. CASE PressureMessage \/ ControlTask \/ ActuatorTask \/ Plant \/ UNCHANGED welder
    <3>1. CASE ControlTask
      BY <3>1 DEF ControlTask, LoadBegin, ExecuteStateAction, LoadFinish, RunProcess, rx, tx,
                  psRest, PS!vars
    <3>2. CASE UNCHANGED welder
      BY <3>2 DEF welder, vars, rx, tx, psRest, PS!vars
    <3>. QED
      BY <2>5, <3>1, <3>2 DEF PressureMessage, ActuatorTask, Plant, psRest, PS!vars
  <2>. QED  BY <2>1, <2>2, <2>3, <2>4, <2>5 DEF Next
<1>. QED  BY <1>1, <1>2, CommandsCorrect, PTL DEF Spec, PowerSupplySpec, PS!Spec

\* The same of the actuator: whatever the operation, the SC never writes the bit
\* of the E-stop, which is the actuator's own, and moves the horn only by command.
THEOREM ActuatorDriven == Spec => ActuatorSpec
<1>1. Init => AC_T!InitActuator
  BY DEF Init
<1>2. CommandsTyped /\ [Next]_welder => [AC_T!Next]_(AC_T!vars)
  <2>. SUFFICES ASSUME CommandsTyped, [Next]_welder PROVE AC_T!Next \/ UNCHANGED AC_T!vars
    OBVIOUS
  <2>1. CASE AuxClock
    <3>. DEFINE Own == AC_CONTROL_EVENTS \ {"CTRL_ESTOP"}
                e == acRx'.MasterEvents \cap Own
    <3>1. OrderedAC(acRx') /\ acRx \in RxPDO_AC
      BY <2>1, TickOrders DEF AuxClock, Ordered, CommandsTyped
    <3>2. /\ acRx'.MasterState \in MasterStates /\ e \in SUBSET Own
          /\ acRx' = [MasterState |-> acRx'.MasterState, MasterEvents |-> acRx'.MasterEvents]
      BY <3>1 DEF OrderedAC, RxPDO_AC
    <3>3. acRx'.MasterEvents = (acRx.MasterEvents \ Own) \cup e
      BY <3>1 DEF OrderedAC, RxPDO_AC
    <3>4. UNCHANGED <<acTx, acCore>>
      BY <2>1 DEF AuxClock, RunStateMachine, tx
    <3>5. \E m \in MasterStates, e1 \in SUBSET Own :
             acRx' = [MasterState |-> m, MasterEvents |-> (acRx.MasterEvents \ Own) \cup e1]
      BY <3>2, <3>3
    <3>6. AC_T!Tick
      BY <2>1, <3>4, <3>5 DEF AuxClock, AC_T!Tick, AC_T!plant
    <3>. QED  BY <3>6 DEF AC_T!Next
  <2>2. CASE ActuatorTask
    BY <2>2 DEF ActuatorTask, AC_T!Next
  <2>3. CASE AlarmReset
    <3>1. UNCHANGED <<acRx, acTx, acRest>>
      BY <2>3 DEF AlarmReset, rx
    <3>2. acCore' = {} \/ acCore' = acCore
      BY <2>3 DEF AlarmReset
    <3>. QED
      BY <3>1, <3>2 DEF AC_T!ClearCoreState, AC_T!Next, AC_T!vars, AC_T!machine, AC_T!plant, acRest
  <2>4. CASE PressureMessage \/ Plant
    BY <2>4 DEF PressureMessage, Plant, AC_T!Next
  <2>5. CASE Generator \/ ControlTask \/ PowerTask \/ UNCHANGED welder
    <3>1. CASE ControlTask
      BY <3>1 DEF ControlTask, LoadBegin, ExecuteStateAction, LoadFinish, RunProcess, rx, tx,
                  acRest, AC_T!vars, AC_T!machine, AC_T!plant
    <3>2. CASE UNCHANGED welder
      BY <3>2 DEF welder, vars, rx, tx, acRest, AC_T!vars, AC_T!machine, AC_T!plant
    <3>. QED
      BY <2>5, <3>1, <3>2 DEF Generator, PowerTask, acRest, AC_T!vars, AC_T!machine, AC_T!plant
  <2>. QED  BY <2>1, <2>2, <2>3, <2>4, <2>5 DEF Next
<1>. QED  BY <1>1, <1>2, CommandsCorrect, PTL DEF Spec, ActuatorSpec, AC_T!Spec

-----------------------------------------------------------------------------
(* The two-hand start.  Why hands that have started a cycle cannot start   *)
(* the next one: PRE_READY is passed only with the pressed status cleared, *)
(* which takes both switches released; READY only with the status set      *)
(* again, which takes both pressed; and nothing in between - a load, a     *)
(* refusal, an alarm, an E-stop - leads to SEEK_SONIC_ON by another way.   *)

\* What is left to do for PRE_READY or READY, the objects of WELD at index i, is
\* left only while the object runs and the index stands at it, or until a load
\* that can no longer be refused deletes it.
Fresh(s, i) ==
  actions[s] # "INIT" => scObj = s /\ operation = "WELD" /\ (isLoading \/ scIndex = i)

Leaving(s) == actions[s] \in {"JUMP", "ALJUMPNORM"}

SequenceInv ==
  /\ operation \in {"WELD", "TEST", "HEIGHT_CALIBRATE_READY", NoOperation}
  /\ loading \in {"WELD", "TEST", "HEIGHT_CALIBRATE_READY", NoOperation, NoLoad}
  /\ scIndex \in 1 .. Len(List(operation)) + 1
  /\ ~isRunning => scIndex = 1
  /\ actions \in [SCSTATES -> StepActions]
  /\ scObj = "READY" => operation = "WELD"
  /\ Fresh("PRE_READY", 1)
  /\ Fresh("READY", 2)

\* Between PRE_READY and SEEK_SONIC_ON the hands that count are new ones.
HandsInv ==
  /\ hands \in {"unknown", "off", "on", "taken"}
  /\ hands = "off" => ~SwitchPressed
  /\ hands = "taken" => SwitchPressed
  /\ Leaving("PRE_READY") => hands # "taken"
  /\ operation = "WELD" /\ scIndex = 2 => hands # "taken"
  /\ actions["READY"] # "INIT" => acRx.MasterState = "READY" /\ hands # "taken"
  /\ Leaving("READY") => SwitchPressed
  /\ operation = "WELD" /\ scIndex = 3 /\ scObj = "READY"
       => SwitchPressed /\ acRx.MasterState = "NO_STATE" /\ hands # "taken"

\* The closing pair comes after the objects of the operation.
Closed(list, body) ==
  /\ Len(body) \in Nat /\ Len(list) = Len(body) + 2
  /\ \A i \in 1 .. Len(body) : list[i] = body[i]
  /\ list[Len(body) + 1] = "ALARM" /\ list[Len(body) + 2] = "ESTOP"

LEMMA ClosedList ==
  ASSUME NEW body \in Seq(SCSTATES)
  PROVE  Closed(body \o <<"ALARM", "ESTOP">>, body)
<1>1. <<"ALARM", "ESTOP">> \in Seq(SCSTATES)
  BY DEF SCSTATES
<1>. QED  BY <1>1 DEF Closed

LEMMA WeldList ==
  /\ Len(List("WELD")) = 11
  /\ List("WELD")[1] = "PRE_READY" /\ List("WELD")[2] = "READY"
  /\ List("WELD")[3] = "SEEK_SONIC_ON"
  /\ \A i \in 4 .. 11 : List("WELD")[i] \in SCSTATES \ {"PRE_READY", "READY", "SEEK_SONIC_ON"}
<1>. DEFINE body == <<"PRE_READY", "READY", "SEEK_SONIC_ON", "WAIT_FOR_TRIGGER", "SQUEEZE_TIME",
                      "WELD_PRESSURE_SET", "WELD_SONIC_ON", "HOLD", "WAIT_FOR_READY_POSITION">>
<1>1. List("WELD") = body \o <<"ALARM", "ESTOP">>
  BY DEF List, NoOperation
<1>2. body \in Seq(SCSTATES) /\ Len(body) = 9
  BY DEF SCSTATES
<1>3. /\ body[1] = "PRE_READY" /\ body[2] = "READY" /\ body[3] = "SEEK_SONIC_ON"
      /\ \A i \in 4 .. 9 : body[i] \in SCSTATES \ {"PRE_READY", "READY", "SEEK_SONIC_ON"}
  BY DEF SCSTATES
<1>. HIDE DEF body
<1>4. /\ Len(List("WELD")) = 11
      /\ \A i \in 1 .. 9 : List("WELD")[i] = body[i]
      /\ List("WELD")[10] = "ALARM" /\ List("WELD")[11] = "ESTOP"
  <2>1. Closed(List("WELD"), body)
    BY <1>1, <1>2, ClosedList
  <2>. QED  BY <1>2, <2>1 DEF Closed
<1>. QED  BY <1>3, <1>4 DEF SCSTATES

\* The other lists, and their bodies, are short and hold neither of the two states.
Others(list) == \A i \in 1 .. Len(list) : list[i] \in SCSTATES \ {"PRE_READY", "READY"}
OtherBody(body) == body \in Seq(SCSTATES) /\ Len(body) \in 0 .. 3 /\ Others(body)
OtherList(list) == Len(list) \in 2 .. 5 /\ Others(list)

LEMMA OtherClosed ==
  ASSUME NEW body, OtherBody(body)
  PROVE  OtherList(body \o <<"ALARM", "ESTOP">>)
<1>. DEFINE list == body \o <<"ALARM", "ESTOP">>
<1>1. Closed(list, body)
  BY ClosedList DEF OtherBody
<1>. HIDE DEF list
<1>2. ASSUME NEW i \in 1 .. Len(list) PROVE list[i] \in SCSTATES \ {"PRE_READY", "READY"}
  <2>1. i \in 1 .. Len(body) \/ i = Len(body) + 1 \/ i = Len(body) + 2
    BY <1>1 DEF Closed
  <2>. QED  BY <1>1, <2>1 DEF Closed, OtherBody, Others, SCSTATES
<1>3. Len(list) \in 2 .. 5
  BY <1>1 DEF Closed, OtherBody
<1>4. OtherList(list)
  BY <1>2, <1>3 DEF OtherList, Others
<1>. QED  BY <1>4 DEF list

LEMMA OtherLists ==
  ASSUME NEW op \in {"TEST", "HEIGHT_CALIBRATE_READY", NoOperation}
  PROVE  OtherList(List(op))
<1>1. CASE op = "TEST"
  <2>1. OtherBody(<<"READY_FOR_TRIGGER", "SEEK_SONIC_ON", "TEST_SONIC_ON">>)
    BY DEF OtherBody, Others, SCSTATES
  <2>. QED  BY <1>1, <2>1, OtherClosed DEF List, NoOperation
<1>2. CASE op = "HEIGHT_CALIBRATE_READY"
  <2>1. OtherBody(<<"READY_FOR_TRIGGER", "CALIBRATE">>)
    BY DEF OtherBody, Others, SCSTATES
  <2>. QED  BY <1>2, <2>1, OtherClosed DEF List, NoOperation
<1>3. CASE op = NoOperation
  <2>1. OtherBody(<< >>)
    BY DEF OtherBody, Others
  <2>. QED  BY <1>3, <2>1, OtherClosed DEF List, NoOperation
<1>. QED  BY <1>1, <1>2, <1>3

\* Where the objects stand: PRE_READY, READY and SEEK_SONIC_ON open the list of WELD,
\* and the first two are in no other.
LEMMA ObjectAt ==
  ASSUME SequenceInv, NEW i \in 1 .. Len(List(operation))
  PROVE  /\ List(operation)[i] \in SCSTATES
         /\ List(operation)[i] = "PRE_READY" <=> operation = "WELD" /\ i = 1
         /\ List(operation)[i] = "READY" <=> operation = "WELD" /\ i = 2
         /\ operation = "WELD" /\ List(operation)[i] = "SEEK_SONIC_ON" => i = 3
<1>1. CASE operation = "WELD"
  <2>1. i \in 1 .. 11
    BY <1>1, WeldList
  <2>2. i = 1 \/ i = 2 \/ i = 3 \/ i \in 4 .. 11
    BY <2>1
  <2>. QED  BY <1>1, <2>2, WeldList DEF SCSTATES
<1>2. CASE operation # "WELD"
  <2>1. OtherList(List(operation))
    BY <1>2, OtherLists DEF SequenceInv
  <2>. QED  BY <1>2, <2>1 DEF OtherList, Others
<1>. QED  BY <1>1, <1>2

LEMMA ListLength ==
  ASSUME SequenceInv
  PROVE  Len(List(operation)) \in 2 .. 11 /\ (operation = "WELD" => Len(List(operation)) = 11)
<1>1. operation # "WELD" => OtherList(List(operation))
  BY OtherLists DEF SequenceInv
<1>. QED  BY <1>1, WeldList DEF OtherList

\* One Enter, Loop or Fail of an object: what is left to do for it, and when it
\* may leave PRE_READY and READY.
Step(s) ==
  \/ actions[s] = "INIT" /\ Enter(s)
  \/ actions[s] = "LOOP" /\ Loop(s)
  \/ actions[s] = "FAIL" /\ Fail(s)

LEMMA StepEffect ==
  ASSUME CommandsTyped, SequenceInv, NEW s \in SCSTATES, Step(s)
  PROVE  \E a \in StepActions \ {"INIT"} :
            /\ actions' = [actions EXCEPT ![s] = a]
            /\ s = "PRE_READY" /\ a \in {"JUMP", "ALJUMPNORM"} => ~SwitchPressed
            /\ s = "READY" /\ a \in {"JUMP", "ALJUMPNORM"} => SwitchPressed
            /\ s = "READY" => acRx'.MasterState =
                                IF actions[s] = "INIT" THEN "READY" ELSE acRx.MasterState
<1>. DEFINE Effect(a) ==
              /\ actions' = [actions EXCEPT ![s] = a]
              /\ s = "PRE_READY" /\ a \in {"JUMP", "ALJUMPNORM"} => ~SwitchPressed
              /\ s = "READY" /\ a \in {"JUMP", "ALJUMPNORM"} => SwitchPressed
              /\ s = "READY" => acRx'.MasterState =
                                  IF actions[s] = "INIT" THEN "READY" ELSE acRx.MasterState
<1>1. {"LOOP", "FAIL", "ABORT", "JUMP", "ALJUMPNORM"} \subseteq StepActions \ {"INIT"}
  BY DEF StepActions
<1>2. actions \in [SCSTATES -> StepActions]
  BY DEF SequenceInv
<1>3. CASE actions[s] = "INIT" /\ Enter(s)
  <2>1. CASE s = "WELD_SONIC_ON"
    BY <1>1, <1>3, <2>1 DEF Enter, EnterWeld, SetAction
  <2>2. CASE s # "WELD_SONIC_ON"
    <3>1. actions' = [actions EXCEPT ![s] = EnterAction(s)] /\ acRx' = EnterAC(s)
      BY <1>3, <2>2 DEF Enter, SetAction
    <3>2. /\ EnterAction(s) \in {"LOOP", "JUMP", "FAIL"}
          /\ s \in {"PRE_READY", "READY"} => EnterAction(s) = "LOOP"
      BY DEF EnterAction
    <3>3. s = "READY" => acRx'.MasterState = "READY"
      BY <3>1 DEF EnterAC, Order
    <3>. QED  BY <1>1, <1>3, <3>1, <3>2, <3>3
  <2>. QED  BY <2>1, <2>2
<1>4. CASE actions[s] = "LOOP" /\ Loop(s)
  <2>1. CASE s = "PRE_READY"
    <3>1. PreReadyLoop(s)
      BY <1>4, <2>1 DEF Loop
    <3>2. CASE actions' = actions
      BY <1>1, <1>2, <1>4, <2>1, <3>2
    <3>. QED
      BY <1>1, <2>1, <3>1, <3>2 DEF PreReadyLoop, Proceed, GiveUp, Remain, SetAction
  <2>2. CASE s = "READY"
    <3>1. ReadyLoop(s)
      BY <1>4, <2>2 DEF Loop
    <3>2. acRx' = acRx
      BY <3>1 DEF ReadyLoop, Proceed, GiveUp, Remain, rx
    <3>3. CASE actions' = actions
      BY <1>1, <1>2, <1>4, <2>2, <3>2, <3>3
    <3>. QED
      BY <1>1, <1>4, <2>2, <3>1, <3>2, <3>3 DEF ReadyLoop, Proceed, GiveUp, Remain, SetAction
  <2>3. CASE s \notin {"PRE_READY", "READY"}
    <3>. SUFFICES \E a \in StepActions \ {"INIT"} : actions' = [actions EXCEPT ![s] = a]
      BY <2>3
    <3>1. UNCHANGED actions => \E a \in StepActions \ {"INIT"} : actions' = [actions EXCEPT ![s] = a]
      <4>1. UNCHANGED actions => actions' = [actions EXCEPT ![s] = "LOOP"]
        BY <1>2, <1>4
      <4>. QED  BY <1>1, <4>1
    <3>2. FailOf(s) \in StepActions \ {"INIT"}
      BY <1>1, <1>4 DEF FailOf
    <3>3. ASSUME NEW a \in StepActions \ {"INIT"}, SetAction(s, a)
          PROVE  \E b \in StepActions \ {"INIT"} : actions' = [actions EXCEPT ![s] = b]
      BY <3>3 DEF SetAction
    <3>4. Proceed(s) \/ GiveUp(s) \/ Remain \/ CountTime \/ Abort(s)
            => \E a \in StepActions \ {"INIT"} : actions' = [actions EXCEPT ![s] = a]
      BY <1>1, <3>1, <3>3 DEF Proceed, GiveUp, Remain, CountTime, Abort
    <3>5. ASSUME NEW ctrl, NEW duration, BurstStarts(s, ctrl) \/ BurstWaits(s)
                                           \/ BurstRuns(s, ctrl, duration)
          PROVE  \E a \in StepActions \ {"INIT"} : actions' = [actions EXCEPT ![s] = a]
      BY <3>2, <3>3, <3>5 DEF BurstStarts, BurstWaits, BurstRuns
    <3>6. ASSUME NEW acState, StrokeEnds(s, acState)
          PROVE  \E a \in StepActions \ {"INIT"} : actions' = [actions EXCEPT ![s] = a]
      <4>. DEFINE a == IF AC(acState) THEN "JUMP" ELSE FailOf(s)
      <4>1. SetAction(s, a)
        BY <3>6 DEF StrokeEnds
      <4>2. a \in StepActions \ {"INIT"}
        BY <1>1, <3>2
      <4>. HIDE DEF a
      <4>. QED  BY <3>3, <4>1, <4>2
    <3>7. CASE SeekSonicOnLoop(s)
      BY <1>1, <3>3, <3>4, <3>7 DEF SeekSonicOnLoop
    <3>8. CASE WaitForTriggerLoop(s)
      BY <3>4, <3>5, <3>6, <3>8 DEF WaitForTriggerLoop
    <3>9. CASE WaitForReadyPositionLoop(s)
      BY <3>2, <3>3, <3>4, <3>5, <3>6, <3>9 DEF WaitForReadyPositionLoop, AfterBurstWait
    <3>10. CASE WeldSonicOnLoop(s)
      <4>1. SetAction(s, "FAIL") \/ SetAction(s, "JUMP") \/ SetAction(s, "LOOP")
        BY <3>10 DEF WeldSonicOnLoop
      <4>. QED  BY <1>1, <3>3, <4>1
    <3>11. CASE CalibrateLoop(s) \/ AlarmLoop(s) \/ EstopLoop(s)
      BY <3>1, <3>4, <3>11 DEF CalibrateLoop, AlarmLoop, EstopLoop
    <3>12. CASE (\E duration : DelayLoop(s, duration)) \/ ReadyForTriggerLoop(s)
                  \/ TestSonicOnLoop(s)
      BY <3>4, <3>12 DEF DelayLoop, ReadyForTriggerLoop, TestSonicOnLoop
    <3>. QED  BY <1>4, <2>3, <3>7, <3>8, <3>9, <3>10, <3>11, <3>12 DEF Loop
  <2>. QED  BY <2>1, <2>2, <2>3
<1>5. CASE actions[s] = "FAIL" /\ Fail(s)
  <2>1. actions' = [actions EXCEPT ![s] = IF s = "WELD_SONIC_ON" THEN "ALJUMPNORM" ELSE "ABORT"]
        /\ acRx' = acRx
    BY <1>5 DEF Fail, SetAction, rx
  <2>2. s = "WELD_SONIC_ON" => Effect("ALJUMPNORM")
    BY <2>1
  <2>3. s # "WELD_SONIC_ON" => Effect("ABORT")
    BY <1>5, <2>1
  <2>. QED  BY <1>1, <2>2, <2>3
<1>. QED  BY <1>3, <1>4, <1>5 DEF Step

\* A tick that runs the object s at index i.
RunsObject(i, s) ==
  /\ ~isLoading /\ isRunning'
  /\ i \in 1 .. Len(List(operation))
  /\ \/ i = scIndex
     \/ i = 1 /\ scIndex = Len(List(operation)) + 1
  /\ s = List(operation)[i] /\ scObj' = s
  /\ \/ scIndex' = i /\ Step(s)
     \/ Leaving(s) /\ Leave(s, i + 1)
     \/ actions[s] = "ABORT" /\ Leave(s, AlarmStateIndex)

\* Every tick stops the machine for a load, goes to the E-stop or runs an object.
LEMMA TickCases ==
  ASSUME SequenceInv, RunStateMachine
  PROVE  /\ UNCHANGED <<operation, loading, isLoading, acTx>>
         /\ \/ isLoading /\ ~isRunning' /\ scIndex' = 1 /\ UNCHANGED <<rx, scObj, actions>>
            \/ ~isLoading /\ isRunning' /\ EstopDue /\ RunEstop
            \/ \E i, s : RunsObject(i, s)
<1>1. UNCHANGED <<operation, loading, isLoading, acTx>>
  BY DEF RunStateMachine, loader, tx
<1>2. ASSUME ~isLoading, isRunning', ~EstopDue,
             Dispatch(IF scIndex > Len(List(operation)) THEN 1 ELSE scIndex)
      PROVE  \E i, s : RunsObject(i, s)
  <2>. DEFINE i == IF scIndex > Len(List(operation)) THEN 1 ELSE scIndex
              s == List(operation)[i]
  <2>. DEFINE n == Len(List(operation))
  <2>1. n \in 2 .. 11 /\ scIndex \in 1 .. n + 1
    BY ListLength DEF SequenceInv
  <2>. HIDE DEF n
  <2>2. i \in 1 .. n /\ (i = scIndex \/ (i = 1 /\ scIndex = n + 1))
    BY <2>1 DEF n
  <2>. HIDE DEF i
  <2>3. Dispatch(i)
    BY <1>2 DEF i
  <2>4. RunsObject(i, s)
    BY <1>2, <2>2, <2>3 DEF Dispatch, RunsObject, Step, Leaving, n
  <2>. QED  BY <2>4
<1>. QED  BY <1>1, <1>2 DEF RunStateMachine

\* What an object leaves behind when the machine runs another: nothing.
LEMMA OthersFresh ==
  ASSUME SequenceInv, NEW i, NEW s, RunsObject(i, s)
  PROVE  /\ s \in SCSTATES
         /\ s # "PRE_READY" => actions["PRE_READY"] = "INIT"
         /\ s # "READY" => actions["READY"] = "INIT"
         /\ s = "PRE_READY" <=> operation = "WELD" /\ i = 1
         /\ s = "READY" <=> operation = "WELD" /\ i = 2
<1>1. /\ s \in SCSTATES
      /\ s = "PRE_READY" <=> operation = "WELD" /\ i = 1
      /\ s = "READY" <=> operation = "WELD" /\ i = 2
  BY ObjectAt DEF RunsObject
<1>2. operation = "WELD" /\ scIndex \in {1, 2} => i = scIndex
  BY WeldList DEF RunsObject
<1>. QED  BY <1>1, <1>2 DEF RunsObject, SequenceInv, Fresh

\* A tick keeps the machine's bookkeeping.
LEMMA TickSequence ==
  ASSUME CommandsTyped, SequenceInv, RunStateMachine
  PROVE  SequenceInv'
<1>. DEFINE n == Len(List(operation))
<1>1. UNCHANGED <<operation, loading, isLoading>> /\ n \in 2 .. 11 /\ (operation = "WELD" => n = 11)
  BY TickCases, ListLength
<1>2. n' = n
  BY <1>1 DEF List
<1>. HIDE DEF n
<1>3. CASE isLoading /\ ~isRunning' /\ scIndex' = 1 /\ UNCHANGED <<rx, scObj, actions>>
  BY <1>1, <1>2, <1>3 DEF SequenceInv, Fresh, n
<1>4. CASE isRunning' /\ EstopDue /\ RunEstop
  <2>1. /\ actions' = [actions EXCEPT ![scObj] = "INIT", !["ESTOP"] = EstopNext(actions["ESTOP"])]
        /\ scObj' = "ESTOP" /\ scIndex' \in {n, n + 1}
    BY <1>4 DEF RunEstop, EStopStateIndex, n
  <2>2. EstopNext(actions["ESTOP"]) \in StepActions /\ "INIT" \in StepActions
    BY DEF EstopNext, SequenceInv, StepActions, SCSTATES
  <2>3. actions' \in [SCSTATES -> StepActions]
    BY <2>1, <2>2 DEF SequenceInv
  <2>4. actions'["PRE_READY"] = "INIT" /\ actions'["READY"] = "INIT"
    BY <2>1 DEF SequenceInv, Fresh, SCSTATES
  <2>. QED
    <3>1. scIndex' \in 1 .. n' + 1
      BY <1>1, <1>2, <2>1
    <3>. QED  BY <1>1, <1>4, <2>1, <2>3, <2>4, <3>1 DEF SequenceInv, Fresh, n
<1>5. ASSUME NEW i, NEW s, RunsObject(i, s) PROVE SequenceInv'
  <2>1. /\ s \in SCSTATES /\ i \in 1 .. n /\ isRunning' /\ scObj' = s
        /\ s # "PRE_READY" => actions["PRE_READY"] = "INIT"
        /\ s # "READY" => actions["READY"] = "INIT"
        /\ s = "PRE_READY" <=> operation = "WELD" /\ i = 1
        /\ s = "READY" <=> operation = "WELD" /\ i = 2
    BY <1>5, OthersFresh DEF RunsObject, n
  <2>2. CASE scIndex' = i /\ Step(s)
    <3>1. PICK a \in StepActions : actions' = [actions EXCEPT ![s] = a]
      BY <2>1, <2>2, StepEffect
    <3>. QED
      BY <1>1, <1>2, <2>1, <2>2, <3>1 DEF SequenceInv, Fresh, n, SCSTATES
  <2>3. ASSUME NEW next \in 1 .. n + 1, Leave(s, next) PROVE SequenceInv'
    <3>1. actions' = [actions EXCEPT ![s] = "INIT"] /\ scIndex' = next
      BY <2>3 DEF Leave, SetAction
    <3>2. "INIT" \in StepActions
      BY DEF StepActions
    <3>. QED
      BY <1>1, <1>2, <2>1, <2>3, <3>1, <3>2 DEF SequenceInv, Fresh, n, SCSTATES
  <2>4. i + 1 \in 1 .. n + 1 /\ AlarmStateIndex \in 1 .. n + 1
    <3>1. AlarmStateIndex = n - 1
      BY DEF AlarmStateIndex, n
    <3>. QED  BY <1>1, <2>1, <3>1
  <2>. QED  BY <1>5, <2>2, <2>3, <2>4 DEF RunsObject
<1>. QED  BY <1>3, <1>4, <1>5, TickCases

\* A tick starts a cycle only with hands that count, and keeps what is known of them.
LEMMA TickHands ==
  ASSUME CommandsTyped, SequenceInv, HandsInv, RunStateMachine, hands' = TakeHands
  PROVE  /\ HandsInv'
         /\ scObj = "READY" /\ scObj' = "SEEK_SONIC_ON" => hands \in {"on", "unknown"}
<1>1. /\ UNCHANGED <<operation, isLoading, acTx>>
      /\ (SwitchPressed' <=> SwitchPressed)
  BY TickCases DEF SwitchPressed
<1>2. CASE isLoading /\ scIndex' = 1 /\ UNCHANGED <<rx, scObj, actions>>
  <2>1. hands' = hands /\ UNCHANGED <<acRx, scObj, actions>>
    BY <1>2 DEF TakeHands, rx
  <2>. QED  BY <1>1, <1>2, <2>1 DEF HandsInv, Leaving
<1>3. CASE RunEstop
  <2>1. /\ actions' = [actions EXCEPT ![scObj] = "INIT", !["ESTOP"] = EstopNext(actions["ESTOP"])]
        /\ scObj' = "ESTOP" /\ scIndex' \in {EStopStateIndex, EStopStateIndex + 1}
    BY <1>3 DEF RunEstop
  <2>2. operation = "WELD" => scIndex' \notin {2, 3}
    <3>1. operation = "WELD" => EStopStateIndex = 11
      BY ListLength DEF EStopStateIndex
    <3>. QED  BY <2>1, <3>1
  <2>3. actions'["PRE_READY"] = "INIT" /\ actions'["READY"] = "INIT"
    BY <2>1 DEF SequenceInv, Fresh, SCSTATES
  <2>4. hands' = hands
    BY <2>1 DEF TakeHands
  <2>. QED  BY <1>1, <2>1, <2>2, <2>3, <2>4 DEF HandsInv, Leaving
<1>4. ASSUME NEW i, NEW s, RunsObject(i, s)
      PROVE  /\ HandsInv'
             /\ scObj = "READY" /\ scObj' = "SEEK_SONIC_ON" => hands \in {"on", "unknown"}
  <2>1. /\ s \in SCSTATES /\ i \in 1 .. Len(List(operation)) /\ scObj' = s
        /\ s # "PRE_READY" => actions["PRE_READY"] = "INIT"
        /\ s # "READY" => actions["READY"] = "INIT"
        /\ s = "PRE_READY" <=> operation = "WELD" /\ i = 1
        /\ s = "READY" <=> operation = "WELD" /\ i = 2
    BY <1>4, OthersFresh DEF RunsObject
  <2>2. operation = "WELD" => AlarmStateIndex = 10
    BY ListLength DEF AlarmStateIndex
  <2>3. i + 1 \notin {1} /\ i \in Nat
    BY <2>1, ListLength
  <2>4. CASE s = "PRE_READY"
    <3>1. operation = "WELD" /\ i = 1 /\ hands' = hands
      BY <2>1, <2>4 DEF TakeHands
    <3>2. CASE scIndex' = i /\ Step(s)
      <4>1. PICK a \in StepActions :
              /\ actions' = [actions EXCEPT ![s] = a]
              /\ a \in {"JUMP", "ALJUMPNORM"} => ~SwitchPressed
        BY <2>1, <2>4, <3>2, StepEffect
      <4>2. actions'["PRE_READY"] = a /\ actions'["READY"] = "INIT"
        BY <2>1, <2>4, <4>1 DEF SequenceInv, SCSTATES
      <4>. QED  BY <1>1, <2>1, <2>4, <3>1, <3>2, <4>1, <4>2 DEF HandsInv, Leaving
    <3>3. ASSUME NEW next, Leave(s, next), Leaving(s) \/ next = AlarmStateIndex
          PROVE  HandsInv'
      <4>1. actions' = [actions EXCEPT ![s] = "INIT"] /\ scIndex' = next
        BY <3>3 DEF Leave, SetAction
      <4>2. actions'["PRE_READY"] = "INIT" /\ actions'["READY"] = "INIT"
        BY <2>1, <2>4, <4>1 DEF SequenceInv, SCSTATES
      <4>. QED  BY <1>1, <2>1, <2>2, <2>4, <3>1, <3>3, <4>1, <4>2 DEF HandsInv, Leaving
    <3>. QED  BY <1>4, <2>1, <2>4, <3>2, <3>3 DEF RunsObject
  <2>5. CASE s = "READY"
    <3>1. operation = "WELD" /\ i = 2 /\ scIndex = 2 /\ hands' = hands /\ hands # "taken"
      BY <1>4, <2>1, <2>5 DEF TakeHands, RunsObject, HandsInv
    <3>2. CASE scIndex' = i /\ Step(s)
      <4>1. PICK a \in StepActions :
              /\ actions' = [actions EXCEPT ![s] = a]
              /\ a \in {"JUMP", "ALJUMPNORM"} => SwitchPressed
              /\ acRx'.MasterState = IF actions[s] = "INIT" THEN "READY" ELSE acRx.MasterState
        BY <2>1, <2>5, <3>2, StepEffect
      <4>2. actions'["PRE_READY"] = "INIT" /\ actions'["READY"] = a
        BY <2>1, <2>5, <4>1 DEF SequenceInv, SCSTATES
      <4>3. acRx'.MasterState = "READY"
        BY <2>5, <4>1 DEF HandsInv
      <4>. QED  BY <1>1, <2>1, <2>5, <3>1, <3>2, <4>1, <4>2, <4>3 DEF HandsInv, Leaving
    <3>3. ASSUME NEW next, Leave(s, next),
                 (Leaving(s) /\ next = 3) \/ next = AlarmStateIndex
          PROVE  HandsInv'
      <4>1. actions' = [actions EXCEPT ![s] = "INIT"] /\ scIndex' = next /\ acRx' = ExitAC(s)
        BY <3>3 DEF Leave, SetAction
      <4>2. actions'["PRE_READY"] = "INIT" /\ actions'["READY"] = "INIT"
        BY <2>1, <2>5, <4>1 DEF SequenceInv, SCSTATES
      <4>3. acRx'.MasterState = "NO_STATE"
        BY <2>5, <4>1 DEF ExitAC, Order
      <4>. QED  BY <1>1, <2>1, <2>2, <2>5, <3>1, <3>3, <4>1, <4>2, <4>3 DEF HandsInv, Leaving
    <3>. QED  BY <1>4, <2>1, <2>5, <3>1, <3>2, <3>3 DEF RunsObject
  <2>6. CASE s \notin {"PRE_READY", "READY"}
    <3>1. /\ actions["PRE_READY"] = "INIT" /\ actions["READY"] = "INIT"
          /\ operation = "WELD" => i \in 3 .. 11
      <4>1. operation = "WELD" => i \in 1 .. 11
        BY <2>1, ListLength
      <4>. QED  BY <2>1, <2>6, <4>1
    <3>2. actions'["PRE_READY"] = "INIT" /\ actions'["READY"] = "INIT"
      <4>1. \E a \in StepActions : actions' = [actions EXCEPT ![s] = a]
        <5>1. (\E next : Leave(s, next)) => actions' = [actions EXCEPT ![s] = "INIT"]
          BY DEF Leave, SetAction
        <5>2. "INIT" \in StepActions
          BY DEF StepActions
        <5>3. Step(s) => \E a \in StepActions : actions' = [actions EXCEPT ![s] = a]
          BY <2>1, StepEffect
        <5>. QED  BY <1>4, <5>1, <5>2, <5>3 DEF RunsObject
      <4>. QED  BY <2>6, <3>1, <4>1 DEF SequenceInv, SCSTATES
    <3>3. operation = "WELD" => scIndex' # 2
      <4>1. scIndex' \in {i, i + 1, AlarmStateIndex}
        BY <1>4 DEF RunsObject, Leave
      <4>. QED  BY <2>2, <3>1, <4>1
    <3>4. CASE scObj = "READY" /\ s = "SEEK_SONIC_ON"
      <4>1. operation = "WELD" /\ i = 3
        BY <1>4, <2>1, <3>4, ObjectAt DEF RunsObject, SequenceInv
      <4>2. scIndex = 3
        BY <1>4, <4>1 DEF RunsObject
      <4>3. SwitchPressed /\ hands \in {"on", "unknown"}
        BY <3>4, <4>1, <4>2 DEF HandsInv
      <4>4. hands' = "taken"
        BY <2>1, <3>4 DEF TakeHands
      <4>. QED  BY <1>1, <2>1, <2>6, <3>2, <3>3, <4>3, <4>4 DEF HandsInv, Leaving
    <3>5. CASE ~(scObj = "READY" /\ s = "SEEK_SONIC_ON")
      <4>1. hands' = hands
        BY <2>1, <3>5 DEF TakeHands
      <4>. QED  BY <1>1, <2>1, <2>6, <3>2, <3>3, <3>5, <4>1 DEF HandsInv, Leaving
    <3>. QED  BY <3>4, <3>5
  <2>. QED  BY <2>4, <2>5, <2>6, <2>1
<1>. QED  BY <1>2, <1>3, <1>4, TickCases DEF RunEstop

\* A run of the actuator sets the pressed status only with both switches down, and
\* clears it only on the command PRE_READY with both released.
LEMMA PressedByRun ==
  ASSUME AC_T!ACRun
  PROVE  /\ ~SwitchPressed /\ SwitchPressed' => switches = StartSwitches
         /\ SwitchPressed /\ ~SwitchPressed' => acRx.MasterState = "PRE_READY" /\ switches = {}
<1>. DEFINE Pressed == "STATUS_START_SWITCH_PRESSED"
            Before == Pressed \in acTx.AC_StatusEvent
            After == Pressed \in acTx'.AC_StatusEvent
            Right == /\ ~Before /\ After => switches = StartSwitches
                     /\ Before /\ ~After => acRx.MasterState = "PRE_READY" /\ switches = {}
<1>1. ASSUME NEW state, NEW st PROVE Pressed \in AC_T!EnterStatus(state, st) <=> Pressed \in st
  BY DEF AC_T!EnterStatus
<1>2. ASSUME NEW next, NEW st, NEW e, AC_T!ChangeState(next, st, e)
      PROVE  After <=> Pressed \in st
  <2>1. acTx'.AC_StatusEvent = AC_T!EnterStatus(next, st)
    BY <1>2 DEF AC_T!ChangeState, AC_T!Publish
  <2>. QED  BY <1>1, <2>1
<1>3. ASSUME NEW next, NEW core, NEW e, AC_T!Go(next, core, e) PROVE Right
  BY <1>2, <1>3 DEF AC_T!Go, AC_T!Status
<1>4. ASSUME NEW st, NEW core, NEW ev,
             AC_T!Stay(st, ev) \/ AC_T!Idle(core, st, ev) \/ AC_T!Wait(core, st, ev)
      PROVE  After <=> Pressed \in st
  BY <1>4 DEF AC_T!Stay, AC_T!Idle, AC_T!Wait, AC_T!Publish
<1>5. ASSUME NEW core, NEW error, NEW ev, AC_T!Raise(core, error, ev) PROVE Right
  BY <1>4, <1>5 DEF AC_T!Raise, AC_T!Status
<1>6. ASSUME NEW core, NEW ev, AC_T!RunStateMachine(core, ev) PROVE Right
  <2>1. CASE AC_T!ReadyLoop(core, ev)
    <3>1. CASE AC_T!Command({"PRE_READY"}) /\ AC_T!Idle(core, IF switches = {}
                 THEN AC_T!Status \ {"STATUS_START_SWITCH_PRESSED"} ELSE AC_T!Status, ev)
      BY <1>4, <3>1 DEF AC_T!Command, AC_T!Status
    <3>2. CASE AC_T!GetPB1(core, ev)
      BY <1>2, <1>4, <3>2 DEF AC_T!GetPB1, AC_T!Status
    <3>3. CASE AC_T!Idle(core, AC_T!Status, ev)
      BY <1>4, <3>3 DEF AC_T!Status
    <3>. QED  BY <1>3, <2>1, <3>1, <3>2, <3>3 DEF AC_T!ReadyLoop
  <2>2. CASE AC_T!StartSwitchLoop(core, ev)
    <3>1. CASE switches = StartSwitches
               /\ AC_T!ChangeState("AC_READY",
                                   AC_T!Status \cup {"STATUS_START_SWITCH_PRESSED"}, ev)
      BY <1>2, <3>1 DEF AC_T!Status
    <3>2. CASE AC_T!Wait(core, AC_T!Status, ev)
      BY <1>4, <3>2 DEF AC_T!Status
    <3>. QED
      BY <1>5, <2>2, <3>1, <3>2 DEF AC_T!StartSwitchLoop, AC_T!BothPressed, AC_T!StartSwitches,
                                    StartSwitches
  <2>3. CASE AC_T!StrokeDownLoop(core, ev)
    <3>1. Pressed \in AC_T!StrokeDownStatus(ev) <=> Before
      BY <1>1 DEF AC_T!StrokeDownStatus, AC_T!Status
    <3>2. CASE acTx'.AC_StatusEvent = AC_T!StrokeDownStatus(ev)
      BY <3>1, <3>2
    <3>. QED  BY <1>5, <2>3, <3>2 DEF AC_T!StrokeDownLoop, AC_T!Publish
  <2>4. CASE AC_T!StrokeUpLoop(core, ev)
    <3>1. Pressed \in AC_T!Status \ {"STATUS_AC_MOVE_DISABLE"} <=> Before
      BY DEF AC_T!Status
    <3>2. CASE AC_T!Wait(core, AC_T!Status, ev)
               \/ AC_T!Wait(core, AC_T!Status \ {"STATUS_AC_MOVE_DISABLE"}, ev)
      BY <1>4, <3>1, <3>2 DEF AC_T!Status
    <3>. QED  BY <1>3, <1>5, <2>4, <3>2 DEF AC_T!StrokeUpLoop
  <2>5. AC_T!Idle(core, AC_T!Status, ev) => Right
    BY <1>4 DEF AC_T!Status
  <2>. QED
    BY <1>3, <1>6, <2>1, <2>2, <2>3, <2>4, <2>5
    DEF AC_T!RunStateMachine, AC_T!PowerUpLoop, AC_T!WeldHoldLoop, AC_T!AlarmLoop, AC_T!EstopLoop
<1>7. Right
  BY <1>6 DEF AC_T!ACRun
<1>. QED  BY <1>7 DEF SwitchPressed

\* Loads, triggers and answers of the control task: what is left to do for PRE_READY
\* or READY is never kept by a refused load, because a load is not refused there.
LEMMA ControlHands ==
  ASSUME setup \in Setups, SequenceInv, HandsInv, ControlTask
  PROVE  SequenceInv' /\ HandsInv'
<1>1. /\ UNCHANGED <<scIndex, acRx, acTx, hands, isRunning>>
      /\ (SwitchPressed' <=> SwitchPressed)
  BY DEF ControlTask, LoadBegin, ExecuteStateAction, LoadFinish, LoadRetry, LoadRefused, LoadDone,
         RunProcess, rx, tx, dispatch, SwitchPressed
<1>2. ASSUME NEW op \in Operations, LoadBegin(op) PROVE SequenceInv' /\ HandsInv'
  <2>1. op \in {"WELD", "TEST", "HEIGHT_CALIBRATE_READY", NoOperation}
    BY SequenceAssumption DEF SetupsAllowed, Operations, NoOperation
  <2>2. UNCHANGED <<operation, scObj, actions>> /\ isLoading' /\ loading' = op
    BY <1>2 DEF LoadBegin, dispatch
  <2>. QED  BY <1>1, <2>1, <2>2 DEF SequenceInv, HandsInv, Fresh, Leaving, List
<1>3. ASSUME NEW s \in {"READY_FOR_TRIGGER", "TEST_SONIC_ON"}, ExecuteStateAction(s)
      PROVE  SequenceInv' /\ HandsInv'
  <2>1. /\ UNCHANGED <<operation, scObj, isLoading, loading>>
        /\ actions' = [actions EXCEPT ![s] = "JUMP"]
    BY <1>3 DEF ExecuteStateAction, dispatch, loader, SetAction
  <2>2. /\ actions' \in [SCSTATES -> StepActions]
        /\ actions'["PRE_READY"] = actions["PRE_READY"] /\ actions'["READY"] = actions["READY"]
    BY <2>1 DEF SequenceInv, SCSTATES, StepActions
  <2>. QED  BY <1>1, <2>1, <2>2 DEF SequenceInv, HandsInv, Fresh, Leaving, List
<1>4. CASE LoadFinish
  <2>1. loading' = NoLoad /\ loading # NoLoad
    BY <1>4 DEF LoadFinish
  <2>2. CASE LoadRetry
    BY <1>1, <2>1, <2>2 DEF LoadRetry, dispatch, SequenceInv, HandsInv, Fresh, Leaving, List
  <2>3. CASE LoadRefused
    <3>1. UNCHANGED <<operation, scObj, actions>> /\ scObj \notin {"PRE_READY", "READY"}
      BY <2>3 DEF LoadRefused, dispatch, MayDelete, Removable
    <3>2. actions["PRE_READY"] = "INIT" /\ actions["READY"] = "INIT"
      BY <3>1 DEF SequenceInv, Fresh
    <3>. QED  BY <1>1, <2>1, <3>1, <3>2 DEF SequenceInv, HandsInv, Fresh, Leaving, List
  <2>4. CASE LoadDone
    <3>1. /\ operation' = loading /\ scObj' = "ESTOP" /\ scIndex' = 1
          /\ actions' = [s \in SCSTATES |-> "INIT"]
      BY <1>1, <2>4 DEF LoadDone, SequenceInv
    <3>2. /\ actions'["PRE_READY"] = "INIT" /\ actions'["READY"] = "INIT"
          /\ actions' \in [SCSTATES -> StepActions]
      BY <3>1 DEF SCSTATES, StepActions
    <3>3. scIndex' \in 1 .. Len(List(operation')) + 1
      <4>1. CASE loading = "WELD"
        BY <3>1, <4>1, WeldList
      <4>2. CASE loading # "WELD"
        <5>1. OtherList(List(loading))
          BY <2>1, <4>2, OtherLists DEF SequenceInv
        <5>2. Len(List(loading)) \in 2 .. 5
          BY <5>1 DEF OtherList
        <5>. QED  BY <3>1, <5>2
      <4>. QED  BY <4>1, <4>2
    <3>4. Len(List(operation))' = Len(List(operation'))
      BY DEF List
    <3>. QED
      BY <1>1, <2>1, <3>1, <3>2, <3>3, <3>4 DEF SequenceInv, HandsInv, Fresh, Leaving
  <2>. QED  BY <1>4, <2>2, <2>3, <2>4 DEF LoadFinish
<1>5. CASE RunProcess
  BY <1>1, <1>5 DEF RunProcess, dispatch, loader, SequenceInv, HandsInv, Fresh, Leaving, List
<1>. QED  BY <1>2, <1>3, <1>4, <1>5 DEF ControlTask

LEMMA RunHands ==
  ASSUME CommandsTyped, HandsInv, AC_T!ACRun, hands' = SeenHands,
         UNCHANGED <<operation, scIndex, scObj, actions>>
  PROVE  HandsInv'
<1>1. acRx'.MasterState = acRx.MasterState
  BY ActuatorRunTypes
<1>2. /\ ~SwitchPressed /\ SwitchPressed' => switches = StartSwitches
      /\ SwitchPressed /\ ~SwitchPressed' => acRx.MasterState = "PRE_READY" /\ switches = {}
  BY PressedByRun
<1>3. hands' = IF switches = {} /\ ~SwitchPressed' THEN "off"
               ELSE IF switches = StartSwitches /\ hands = "off" THEN "on" ELSE hands
  BY DEF SeenHands, SwitchPressed, StartSwitches
<1>4. StartSwitches # {}
  BY DEF StartSwitches
<1>5. /\ hands' \in {"unknown", "off", "on", "taken"}
      /\ hands' = "off" => ~SwitchPressed'
      /\ hands' = "taken" => SwitchPressed' /\ hands = "taken"
  BY <1>2, <1>3, <1>4 DEF HandsInv
<1>6. acRx.MasterState # "PRE_READY" /\ SwitchPressed => SwitchPressed'
  BY <1>2
<1>7. Leaving("READY") => acRx.MasterState = "READY"
  BY DEF HandsInv, Leaving
<1>. QED  BY <1>1, <1>5, <1>6, <1>7 DEF HandsInv, Leaving

\* What is known of the list, of its objects and of the hands.
HandsKnown == setup \in Setups /\ SequenceInv /\ HandsInv

LEMMA InitHands == Init => HandsKnown
<1>. SUFFICES ASSUME Init PROVE HandsKnown
  OBVIOUS
<1>1. /\ operation = NoOperation /\ loading = NoLoad /\ scIndex = 1 /\ scObj = "ESTOP"
      /\ actions = [s \in SCSTATES |-> "INIT"] /\ hands = "unknown"
  BY DEF Init, InitSequence
<1>2. actions["PRE_READY"] = "INIT" /\ actions["READY"] = "INIT"
      /\ actions \in [SCSTATES -> StepActions]
  BY <1>1 DEF SCSTATES, StepActions
<1>3. scIndex \in 1 .. Len(List(operation)) + 1 /\ operation # "WELD"
  <2>1. OtherList(List(operation))
    BY <1>1, OtherLists
  <2>2. Len(List(operation)) \in 2 .. 5
    BY <2>1 DEF OtherList
  <2>. QED  BY <1>1, <2>2 DEF NoOperation
<1>. QED  BY <1>1, <1>2, <1>3 DEF HandsKnown, SequenceInv, HandsInv, Fresh, Leaving, Init, InitSequence

\* The steps that leave the list, its objects and the loader alone.
Elsewhere == PowerTask \/ ActuatorTask \/ PressureMessage \/ AlarmReset \/ Plant \/ Generator
               \/ UNCHANGED welder

LEMMA SequenceKept ==
  ASSUME Elsewhere
  PROVE  UNCHANGED <<operation, scIndex, scObj, actions, isRunning, isLoading, loading, setup>>
<1>1. CASE PressureMessage
  BY <1>1 DEF PressureMessage, AC_T!PressureSet, own
<1>2. CASE AlarmReset
  BY <1>2 DEF AlarmReset, rx, dispatch, loader
<1>3. CASE UNCHANGED welder
  BY <1>3 DEF welder, vars, rx, tx, own
<1>. QED  BY <1>1, <1>2, <1>3 DEF Elsewhere, PowerTask, ActuatorTask, Plant, Generator, own

LEMMA HandsStep ==
  ASSUME CommandsTyped, HandsKnown, [Next]_welder
  PROVE  /\ HandsKnown'
         /\ scObj = "READY" /\ scObj' = "SEEK_SONIC_ON" => hands \in {"on", "unknown"}
<1>. USE DEF HandsKnown
<1>1. CASE AuxClock
  BY <1>1, TickSequence, TickHands DEF AuxClock
<1>2. CASE ActuatorTask
  <2>1. UNCHANGED <<operation, scIndex, scObj, actions, isRunning, isLoading, loading, setup>>
    BY <1>2 DEF ActuatorTask, own
  <2>2. SequenceInv'
    BY <2>1 DEF SequenceInv, Fresh, List
  <2>3. CASE AC_T!ACRun /\ hands' = SeenHands
    BY <2>1, <2>2, <2>3, RunHands
  <2>4. CASE AC_T!ACReceive /\ UNCHANGED hands
    BY <2>1, <2>2, <2>4 DEF AC_T!ACReceive, AC_T!machine, HandsInv, Leaving, SwitchPressed
  <2>. QED  BY <1>2, <2>3, <2>4, <2>1 DEF ActuatorTask
<1>3. CASE ControlTask
  <2>1. setup' = setup
    BY <1>3 DEF ControlTask
  <2>2. scObj' \in {scObj, "ESTOP"}
    BY <1>3 DEF ControlTask, LoadBegin, ExecuteStateAction, LoadFinish, LoadRetry, LoadRefused,
                LoadDone, RunProcess, dispatch
  <2>. QED  BY <1>3, <2>1, <2>2, ControlHands
<1>4. CASE PowerTask \/ PressureMessage \/ AlarmReset \/ Plant \/ Generator \/ UNCHANGED welder
  <2>1. /\ UNCHANGED <<operation, scIndex, scObj, actions, isRunning, isLoading, loading>>
        /\ UNCHANGED <<acRx, acTx, hands, setup>>
    <3>1. CASE PressureMessage
      BY <3>1 DEF PressureMessage, AC_T!PressureSet, own
    <3>2. CASE AlarmReset
      BY <3>2 DEF AlarmReset, rx, dispatch, loader
    <3>3. CASE Plant
      BY <3>3 DEF Plant, AC_T!HornTravel, AC_T!StartSwitchInput, AC_T!EstopInput,
                  AC_T!machine, own
    <3>4. CASE UNCHANGED welder
      BY <3>4 DEF welder, vars, rx, tx, own
    <3>. QED  BY <1>4, <3>1, <3>2, <3>3, <3>4 DEF PowerTask, Generator, own
  <2>. QED  BY <2>1 DEF SequenceInv, HandsInv, Fresh, Leaving, List, SwitchPressed
<1>. QED  BY <1>1, <1>2, <1>3, <1>4 DEF Next

LEMMA AlwaysSequence == Spec => []HandsKnown
<1>1. CommandsTyped /\ HandsKnown /\ [Next]_welder => HandsKnown'
  BY HandsStep
<1>. QED  BY <1>1, InitHands, CommandsCorrect, PTL DEF Spec

\* What starts a cycle are two hands that have been off the switches and have both
\* come back since the last one, for every operation, load, alarm and E-stop and
\* for tasks that are late by any number of ticks.
THEOREM TwoHandsStart == Spec => TwoHandStart
<1>1. CommandsTyped /\ HandsKnown /\ [Next]_welder
        => [scObj = "READY" /\ scObj' = "SEEK_SONIC_ON" => hands \in {"on", "unknown"}]_welder
  BY HandsStep
<1>. QED  BY <1>1, AlwaysSequence, CommandsCorrect, PTL DEF Spec, TwoHandStart

-----------------------------------------------------------------------------
(* One operation at a time: then a load never takes the list from under a  *)
(* cycle, and only the object under the index has anything left to do.     *)

\* A load of the operation that is loaded finds the machine as it was built.
LoadInv ==
  /\ loading # NoLoad => isLoading
  /\ loading # NoOperation
  /\ operation # NoOperation /\ isLoading => ~isRunning
  /\ operation # NoOperation /\ ~isRunning
       => scObj = "ESTOP" /\ \A s \in SCSTATES : actions[s] = "INIT"

\* The object s runs, and the index stands at it.
Under(s) ==
  scObj = s /\ scIndex \in 1 .. Len(List(operation)) /\ List(operation)[scIndex] = s

ActiveInv ==
  /\ scObj \in SCSTATES
  /\ operation = NoOperation => scObj \in {"ALARM", "ESTOP"}
  /\ \A s \in SCSTATES :
        actions[s] # "INIT" => Under(s) \/ (operation = NoOperation /\ s = "ESTOP")

\* The index comes to an object from the one before it, to ALARM from any, and to the
\* first after ESTOP.
PlaceInv ==
  \/ scIndex = AlarmStateIndex
  \/ scIndex > 1 /\ scObj = List(operation)[scIndex - 1]
  \/ scIndex = 1 /\ (operation = NoOperation \/ scObj = "ESTOP")
  \/ Under(scObj) /\ actions[scObj] # "INIT"

OneInv == LoadInv /\ ActiveInv /\ PlaceInv

LEMMA ClosingPair ==
  ASSUME NEW op \in {"WELD", "TEST", "HEIGHT_CALIBRATE_READY", NoOperation}
  PROVE  /\ List(op)[Len(List(op)) - 1] = "ALARM" /\ List(op)[Len(List(op))] = "ESTOP"
         /\ Len(List(op)) \in Nat /\ Len(List(op)) >= 2
         /\ op = NoOperation => Len(List(op)) = 2
         /\ op # NoOperation => List(op)[1] \in {"PRE_READY", "READY_FOR_TRIGGER"}
<1>. DEFINE Body(body) == /\ body \in Seq(SCSTATES) /\ List(op) = body \o <<"ALARM", "ESTOP">>
                          /\ op = NoOperation => Len(body) = 0
                          /\ op # NoOperation
                               => Len(body) > 0 /\ body[1] \in {"PRE_READY", "READY_FOR_TRIGGER"}
<1>1. \E body : Body(body)
  <2>1. CASE op = "WELD"
    <3>. DEFINE body == <<"PRE_READY", "READY", "SEEK_SONIC_ON", "WAIT_FOR_TRIGGER", "SQUEEZE_TIME",
                          "WELD_PRESSURE_SET", "WELD_SONIC_ON", "HOLD", "WAIT_FOR_READY_POSITION">>
    <3>1. body \in Seq(SCSTATES) /\ Len(body) > 0 /\ body[1] \in {"PRE_READY", "READY_FOR_TRIGGER"}
      BY DEF SCSTATES
    <3>2. List(op) = body \o <<"ALARM", "ESTOP">> /\ op # NoOperation
      BY <2>1 DEF List, NoOperation
    <3>. HIDE DEF body
    <3>. QED  BY <3>1, <3>2
  <2>2. CASE op = "TEST"
    <3>. DEFINE body == <<"READY_FOR_TRIGGER", "SEEK_SONIC_ON", "TEST_SONIC_ON">>
    <3>1. body \in Seq(SCSTATES) /\ Len(body) > 0 /\ body[1] \in {"PRE_READY", "READY_FOR_TRIGGER"}
      BY DEF SCSTATES
    <3>2. List(op) = body \o <<"ALARM", "ESTOP">> /\ op # NoOperation
      BY <2>2 DEF List, NoOperation
    <3>. HIDE DEF body
    <3>. QED  BY <3>1, <3>2
  <2>3. CASE op = "HEIGHT_CALIBRATE_READY"
    <3>. DEFINE body == <<"READY_FOR_TRIGGER", "CALIBRATE">>
    <3>1. body \in Seq(SCSTATES) /\ Len(body) > 0 /\ body[1] \in {"PRE_READY", "READY_FOR_TRIGGER"}
      BY DEF SCSTATES
    <3>2. List(op) = body \o <<"ALARM", "ESTOP">> /\ op # NoOperation
      BY <2>3 DEF List, NoOperation
    <3>. HIDE DEF body
    <3>. QED  BY <3>1, <3>2
  <2>4. CASE op = NoOperation
    <3>. DEFINE body == << >>
    <3>1. body \in Seq(SCSTATES) /\ Len(body) = 0
      OBVIOUS
    <3>2. List(op) = body \o <<"ALARM", "ESTOP">>
      BY <2>4 DEF List, NoOperation
    <3>. HIDE DEF body
    <3>. QED  BY <2>4, <3>1, <3>2
  <2>. QED  BY <2>1, <2>2, <2>3, <2>4
<1>2. PICK body : Body(body)
  BY <1>1
<1>3. Closed(List(op), body)
  BY <1>2, ClosedList
<1>. QED  BY <1>2, <1>3 DEF Closed

\* What is left to do for the objects when the machine runs s.
LEMMA OnlyOneActive ==
  ASSUME SequenceInv, ActiveInv, NEW i, NEW s, RunsObject(i, s)
  PROVE  /\ s \in SCSTATES
         /\ \A t \in SCSTATES :
               t # s /\ actions[t] # "INIT" => operation = NoOperation /\ t = "ESTOP"
         /\ operation # NoOperation /\ actions[s] # "INIT" => scObj = s
         /\ operation # NoOperation /\ actions[s] = "INIT" => actions[scObj] = "INIT"
<1>1. s \in SCSTATES
  BY OthersFresh
<1>2. ASSUME NEW t \in SCSTATES, Under(t) PROVE t = s
  <2>1. Len(List(operation)) \in Nat
    BY ListLength
  <2>. QED  BY <1>2, <2>1 DEF RunsObject, Under
<1>3. \A t \in SCSTATES : actions[t] # "INIT" => t = s \/ (operation = NoOperation /\ t = "ESTOP")
  BY <1>2 DEF ActiveInv
<1>. QED  BY <1>1, <1>3 DEF ActiveInv, Under

LEMMA TickOne ==
  ASSUME CommandsTyped, SequenceInv, OneInv, RunStateMachine
  PROVE  OneInv'
<1>. DEFINE list == List(operation)
            n == Len(list)
<1>1. /\ UNCHANGED <<operation, loading, isLoading>>
      /\ list' = list /\ n' = n /\ AlarmStateIndex' = n - 1
      /\ list[n - 1] = "ALARM" /\ list[n] = "ESTOP" /\ n \in Nat /\ n >= 2
      /\ operation = NoOperation => n = 2
  <2>1. UNCHANGED <<operation, loading, isLoading>>
    BY TickCases
  <2>. QED  BY <2>1, ClosingPair DEF SequenceInv, AlarmStateIndex, List
<1>2. scIndex \in 1 .. n + 1 /\ AlarmStateIndex = n - 1
  BY DEF SequenceInv, AlarmStateIndex
<1>3. \A s : Under(s) <=> scObj = s /\ scIndex \in 1 .. n /\ list[scIndex] = s
  BY DEF Under
<1>4. \A s : Under(s)' <=> scObj' = s' /\ scIndex' \in 1 .. n /\ list[scIndex'] = s'
  BY <1>1 DEF Under
<1>. HIDE DEF n, list
<1>5. CASE isLoading /\ ~isRunning' /\ scIndex' = 1 /\ UNCHANGED <<rx, scObj, actions>>
  <2>1. LoadInv'
    BY <1>1, <1>5 DEF OneInv, LoadInv
  <2>2. operation = NoOperation => list[1] = "ALARM"
    BY <1>1
  <2>3. ASSUME NEW s \in SCSTATES, actions[s] # "INIT"
        PROVE  operation = NoOperation /\ (s = "ESTOP" \/ (scObj' = s /\ 1 \in 1 .. n /\ list[1] = s))
    BY <1>1, <1>3, <1>5, <2>2, <2>3 DEF OneInv, LoadInv, ActiveInv
  <2>4. ActiveInv'
    BY <1>1, <1>4, <1>5, <2>3 DEF OneInv, ActiveInv
  <2>5. PlaceInv'
    BY <1>1, <1>5 DEF OneInv, LoadInv, PlaceInv
  <2>. QED  BY <2>1, <2>4, <2>5 DEF OneInv
<1>6. CASE ~isLoading /\ isRunning' /\ RunEstop
  <2>1. /\ actions' = [actions EXCEPT ![scObj] = "INIT", !["ESTOP"] = EstopNext(actions["ESTOP"])]
        /\ scObj' = "ESTOP"
        /\ scIndex' = IF actions["ESTOP"] = "JUMP" THEN n + 1 ELSE n
    BY <1>6 DEF RunEstop, EStopStateIndex, n, list
  <2>2. ASSUME NEW s \in SCSTATES, actions'[s] # "INIT" PROVE s = "ESTOP" /\ scIndex' = n
    <3>1. s # "ESTOP" => s # scObj /\ actions[s] # "INIT"
      BY <2>1, <2>2 DEF SequenceInv
    <3>2. s = "ESTOP"
      BY <3>1 DEF OneInv, ActiveInv, Under
    <3>3. actions'["ESTOP"] = EstopNext(actions["ESTOP"])
      BY <2>1 DEF SequenceInv, SCSTATES
    <3>. QED  BY <2>1, <2>2, <3>2, <3>3 DEF EstopNext
  <2>3. LoadInv'
    BY <1>1, <1>6 DEF OneInv, LoadInv
  <2>4. ActiveInv'
    <3>1. "ESTOP" \in SCSTATES /\ n \in 1 .. n
      BY <1>1 DEF SCSTATES
    <3>. QED  BY <1>1, <1>4, <2>1, <2>2, <3>1 DEF ActiveInv
  <2>5. PlaceInv'
    <3>1. CASE actions["ESTOP"] = "JUMP"
      <4>1. scIndex' = n + 1 /\ scIndex' > 1 /\ list'[scIndex' - 1] = scObj'
        BY <1>1, <2>1, <3>1
      <4>. QED  BY <4>1 DEF PlaceInv, list
    <3>2. CASE actions["ESTOP"] # "JUMP"
      <4>1. Under(scObj)'
        BY <1>1, <1>4, <2>1, <3>2
      <4>2. actions'[scObj'] # "INIT"
        BY <2>1, <3>2 DEF EstopNext, SequenceInv, SCSTATES
      <4>. QED  BY <4>1, <4>2 DEF PlaceInv
    <3>. QED  BY <3>1, <3>2
  <2>. QED  BY <2>3, <2>4, <2>5 DEF OneInv
<1>7. ASSUME NEW i, NEW s, RunsObject(i, s) PROVE OneInv'
  <2>1. /\ s \in SCSTATES /\ i \in 1 .. n /\ s = list[i] /\ scObj' = s /\ ~isLoading /\ isRunning'
        /\ \A t \in SCSTATES :
              t # s /\ actions[t] # "INIT" => operation = NoOperation /\ t = "ESTOP"
    BY <1>7, OnlyOneActive DEF RunsObject, n, list, OneInv
  <2>2. LoadInv'
    BY <1>1, <2>1 DEF OneInv, LoadInv
  <2>3. operation = NoOperation => s \in {"ALARM", "ESTOP"}
    BY <1>1, <2>1
  <2>4. CASE scIndex' = i /\ Step(s)
    <3>1. PICK a \in StepActions \ {"INIT"} : actions' = [actions EXCEPT ![s] = a]
      BY <2>1, <2>4, StepEffect
    <3>2. \A t \in SCSTATES : t # s => actions'[t] = actions[t]
      BY <3>1 DEF SequenceInv
    <3>3. ActiveInv'
      BY <1>1, <1>4, <2>1, <2>3, <2>4, <3>2 DEF OneInv, ActiveInv
    <3>4. actions'[s] # "INIT"
      BY <2>1, <3>1 DEF SequenceInv
    <3>5. Under(s)'
      BY <1>1, <1>4, <2>1, <2>4
    <3>6. PlaceInv'
      BY <2>1, <3>4, <3>5 DEF PlaceInv
    <3>. QED  BY <2>2, <3>3, <3>6 DEF OneInv
  <2>5. ASSUME NEW next, Leave(s, next), next = i + 1 \/ next = n - 1 PROVE OneInv'
    <3>1. actions' = [actions EXCEPT ![s] = "INIT"] /\ scIndex' = next
      BY <2>5 DEF Leave, SetAction
    <3>2. \A t \in SCSTATES : actions'[t] = IF t = s THEN "INIT" ELSE actions[t]
      BY <3>1 DEF SequenceInv
    <3>3. ActiveInv'
      BY <1>1, <2>1, <2>3, <3>2 DEF ActiveInv
    <3>4. PlaceInv'
      <4>1. list'[i] = s /\ (next = i + 1 => next - 1 = i)
        BY <1>1, <2>1
      <4>. QED  BY <1>1, <2>1, <2>5, <3>1, <4>1 DEF PlaceInv, list
    <3>. QED  BY <2>2, <3>3, <3>4 DEF OneInv
  <2>. QED  BY <1>2, <1>7, <2>4, <2>5 DEF RunsObject
<1>. QED  BY <1>5, <1>6, <1>7, TickCases

LEMMA ControlOne ==
  ASSUME setup \in Setups, SequenceInv, OneInv, OneOperation', ControlTask
  PROVE  OneInv'
<1>1. ASSUME NEW op \in Operations, LoadBegin(op) PROVE OneInv'
  <2>1. /\ UNCHANGED <<operation, scIndex, scObj, actions, isRunning>>
        /\ isLoading' /\ loading' = op /\ (op # operation \/ (~isRunning /\ op # NoOperation))
    BY <1>1 DEF LoadBegin, dispatch
  <2>2. op # NoLoad
    BY SequenceAssumption DEF SetupsAllowed, Operations, NoLoad
  <2>3. LoadInv'
    BY <2>1, <2>2 DEF OneInv, LoadInv, OneOperation
  <2>. QED  BY <2>1, <2>3 DEF OneInv, ActiveInv, PlaceInv, Under, AlarmStateIndex, List
<1>2. ASSUME NEW s \in {"READY_FOR_TRIGGER", "TEST_SONIC_ON"}, ExecuteStateAction(s) PROVE OneInv'
  <2>1. /\ UNCHANGED <<operation, scIndex, scObj, isRunning, isLoading, loading>>
        /\ operation # NoOperation /\ actions[s] = "LOOP" /\ s \in SCSTATES
        /\ actions' = [actions EXCEPT ![s] = "JUMP"]
    BY <1>2 DEF ExecuteStateAction, dispatch, loader, SetAction, NoOperation, SCSTATES
  <2>2. \A t \in SCSTATES : actions'[t] # "INIT" => actions[t] # "INIT"
    BY <2>1 DEF SequenceInv
  <2>3. isRunning
    BY <2>1 DEF OneInv, LoadInv
  <2>4. actions[scObj] # "INIT" => actions'[scObj] # "INIT"
    BY <2>1 DEF SequenceInv, OneInv, ActiveInv
  <2>5. LoadInv'
    BY <2>1, <2>3 DEF OneInv, LoadInv
  <2>6. ActiveInv'
    BY <2>1, <2>2 DEF OneInv, ActiveInv, Under, List
  <2>7. PlaceInv'
    BY <2>1, <2>4 DEF OneInv, PlaceInv, Under, AlarmStateIndex, List
  <2>. QED  BY <2>5, <2>6, <2>7 DEF OneInv
<1>3. CASE LoadFinish
  <2>1. loading' = NoLoad /\ loading # NoLoad /\ UNCHANGED isRunning
    BY <1>3 DEF LoadFinish
  <2>2. operation # NoOperation => ~isRunning
    BY <2>1 DEF OneInv, LoadInv
  <2>3. CASE LoadRetry
    BY <2>1, <2>2, <2>3
    DEF LoadRetry, dispatch, OneInv, LoadInv, ActiveInv, PlaceInv, Under, AlarmStateIndex, List,
        NoLoad, NoOperation
  <2>4. CASE LoadRefused
    <3>1. operation = NoOperation
      BY <2>2, <2>4 DEF LoadRefused, MayDelete, Critical, OneInv, LoadInv, SCSTATES
    <3>. QED
      BY <2>1, <2>4, <3>1
      DEF LoadRefused, dispatch, OneInv, LoadInv, ActiveInv, PlaceInv, Under, AlarmStateIndex, List,
          NoLoad, NoOperation
  <2>5. CASE LoadDone
    <3>1. /\ ~isRunning /\ ~isLoading' /\ operation' = loading /\ scObj' = "ESTOP"
          /\ actions' = [s \in SCSTATES |-> "INIT"] /\ scIndex' = 1
      BY <2>5 DEF LoadDone, SequenceInv
    <3>2. LoadInv' /\ ActiveInv' /\ PlaceInv'
      BY <2>1, <3>1 DEF OneInv, LoadInv, ActiveInv, PlaceInv, SCSTATES, NoLoad, NoOperation
    <3>. QED  BY <3>2 DEF OneInv
  <2>. QED  BY <1>3, <2>3, <2>4, <2>5 DEF LoadFinish
<1>4. CASE RunProcess
  BY <1>4
  DEF RunProcess, dispatch, loader, OneInv, LoadInv, ActiveInv, PlaceInv, Under, AlarmStateIndex, List
<1>. QED  BY <1>1, <1>2, <1>3, <1>4 DEF ControlTask

LEMMA AlwaysOne == Spec /\ []OneOperation => []OneInv
<1>1. Init => OneInv
  <2>. SUFFICES ASSUME Init PROVE OneInv
    OBVIOUS
  <2>1. /\ operation = NoOperation /\ loading = NoLoad /\ scIndex = 1 /\ scObj = "ESTOP"
        /\ actions = [s \in SCSTATES |-> "INIT"]
    BY DEF Init, InitSequence
  <2>. QED
    BY <2>1 DEF OneInv, LoadInv, ActiveInv, PlaceInv, SCSTATES, NoLoad, NoOperation
<1>2. CommandsTyped /\ HandsKnown /\ OneInv /\ OneOperation' /\ [Next]_welder => OneInv'
  <2>. SUFFICES ASSUME CommandsTyped, HandsKnown, OneInv, OneOperation', [Next]_welder
                PROVE  OneInv'
    OBVIOUS
  <2>1. CASE AuxClock
    BY <2>1, TickOne DEF AuxClock, HandsKnown
  <2>2. CASE ControlTask
    BY <2>2, ControlOne DEF HandsKnown
  <2>3. CASE Elsewhere
    <3>1. UNCHANGED <<operation, scIndex, scObj, actions, isRunning, isLoading, loading>>
      BY <2>3, SequenceKept
    <3>2. LoadInv'
      BY <3>1 DEF OneInv, LoadInv
    <3>3. ActiveInv'
      BY <3>1 DEF OneInv, ActiveInv, Under, List
    <3>4. PlaceInv'
      BY <3>1 DEF OneInv, PlaceInv, Under, AlarmStateIndex, List
    <3>. QED  BY <3>2, <3>3, <3>4 DEF OneInv
  <2>. QED  BY <2>1, <2>2, <2>3 DEF Next, Elsewhere
<1>. QED  BY <1>1, <1>2, AlwaysSequence, CommandsCorrect, PTL DEF Spec

-----------------------------------------------------------------------------
(* What the SC asks of the power supply and of the actuator, and of which  *)
(* object.                                                                 *)

SonicObjects ==
  {"SEEK_SONIC_ON", "WAIT_FOR_TRIGGER", "WELD_SONIC_ON", "WAIT_FOR_READY_POSITION",
   "TEST_SONIC_ON"}

\* The command an object gives the power supply; a test is a weld to it.
PowerCommand(s) == IF s = "TEST_SONIC_ON" THEN "WELD_SONIC_ON" ELSE s

ActuatorObjects ==
  {"PRE_READY", "READY", "WELD_PRESSURE_SET", "WAIT_FOR_TRIGGER", "WAIT_FOR_READY_POSITION",
   "READY_FOR_TRIGGER"}

\* An Enter gives the command of its object or none; Loop and Fail take it back at most.
CommandStep(s) ==
  /\ \/ pcRx'.MasterState \in {pcRx.MasterState, "NO_STATE"}
     \/ actions[s] = "INIT" /\ s \in SonicObjects /\ pcRx'.MasterState = PowerCommand(s)
  /\ \/ acRx'.MasterState = acRx.MasterState
     \/ actions[s] = "INIT" /\ s \in ActuatorObjects /\ acRx'.MasterState = s
     \/ s = "CALIBRATE" /\ acRx'.MasterState \in {"DOWN_STROKE", "RETURN_STROKE"}
  /\ actions[s] = "INIT" /\ s \in ActuatorObjects \ {"WAIT_FOR_READY_POSITION"}
       => acRx'.MasterState = s

LEMMA StepCommand ==
  ASSUME CommandsTyped, NEW s, Step(s)
  PROVE  CommandStep(s)
<1>. DEFINE SamePC == pcRx'.MasterState \in {pcRx.MasterState, "NO_STATE"}
            SameAC == acRx'.MasterState = acRx.MasterState
<1>1. UNCHANGED rx => SamePC /\ SameAC
  BY DEF rx
<1>2. CASE actions[s] = "INIT" /\ Enter(s)
  <2>1. CASE s = "WELD_SONIC_ON"
    BY <1>2, <2>1
    DEF Enter, EnterWeld, Order, Bits, CommandStep, SonicObjects, PowerCommand, ActuatorObjects
  <2>2. CASE s # "WELD_SONIC_ON"
    <3>1. acRx' = EnterAC(s) /\ pcRx' = EnterPC(s)
      BY <1>2, <2>2 DEF Enter
    <3>2. SamePC \/ (s \in SonicObjects /\ pcRx'.MasterState = PowerCommand(s))
      BY <3>1 DEF EnterPC, Order, Bits, SonicObjects, PowerCommand
    <3>3. /\ SameAC \/ (s \in ActuatorObjects /\ acRx'.MasterState = s)
          /\ s \in ActuatorObjects \ {"WAIT_FOR_READY_POSITION"} => acRx'.MasterState = s
      BY <3>1 DEF EnterAC, Order, Bits, ActuatorObjects
    <3>. QED  BY <1>2, <3>2, <3>3 DEF CommandStep
  <2>. QED  BY <2>1, <2>2
<1>3. CASE actions[s] = "LOOP" /\ Loop(s)
  <2>1. Proceed(s) \/ GiveUp(s) \/ Remain \/ CountTime \/ Abort(s) => SamePC /\ SameAC
    BY <1>1 DEF Proceed, GiveUp, Remain, CountTime, Abort
  <2>2. ASSUME NEW ctrl, NEW duration, BurstStarts(s, ctrl) \/ BurstWaits(s)
                                         \/ BurstRuns(s, ctrl, duration)
        PROVE  SamePC /\ SameAC
    BY <1>1, <2>2 DEF BurstStarts, BurstWaits, BurstRuns, Bits, Order
  <2>3. ASSUME NEW acState, StrokeEnds(s, acState) PROVE SamePC /\ SameAC
    BY <1>1, <2>3 DEF StrokeEnds
  <2>4. SeekSonicOnLoop(s) => SamePC /\ SameAC
    BY <2>1 DEF SeekSonicOnLoop, CommandsTyped, RxPDO_PC
  <2>5. WaitForTriggerLoop(s) \/ WaitForReadyPositionLoop(s) => SamePC /\ SameAC
    BY <1>1, <2>1, <2>2, <2>3 DEF WaitForTriggerLoop, WaitForReadyPositionLoop, AfterBurstWait
  <2>6. CalibrateLoop(s)
          => SamePC /\ (SameAC \/ acRx'.MasterState \in {"DOWN_STROKE", "RETURN_STROKE"})
    BY <1>1, <2>1 DEF CalibrateLoop, Order
  <2>7. AlarmLoop(s) \/ EstopLoop(s) => SamePC /\ SameAC
    BY <1>1, <2>1 DEF AlarmLoop, EstopLoop, Bits, Order
  <2>8. PreReadyLoop(s) \/ ReadyLoop(s) \/ ReadyForTriggerLoop(s) \/ TestSonicOnLoop(s)
          \/ WeldSonicOnLoop(s) \/ (\E duration : DelayLoop(s, duration)) => SamePC /\ SameAC
    BY <1>1, <2>1 DEF PreReadyLoop, ReadyLoop, ReadyForTriggerLoop, TestSonicOnLoop,
                      WeldSonicOnLoop, DelayLoop
  <2>9. SamePC /\ \/ SameAC
                  \/ s = "CALIBRATE" /\ acRx'.MasterState \in {"DOWN_STROKE", "RETURN_STROKE"}
    BY <1>3, <2>4, <2>5, <2>6, <2>7, <2>8 DEF Loop
  <2>. QED  BY <1>3, <2>9 DEF CommandStep
<1>4. CASE actions[s] = "FAIL" /\ Fail(s)
  BY <1>1, <1>4 DEF Fail, CommandStep
<1>. QED  BY <1>2, <1>3, <1>4 DEF Step

\* An Exit takes back the command of its object, and leaves any other.
LEMMA ExitCommand ==
  ASSUME NEW s
  PROVE  /\ s \in SonicObjects => ExitPC(s).MasterState = "NO_STATE"
         /\ s \notin SonicObjects => ExitPC(s) = pcRx
         /\ s \in ActuatorObjects => ExitAC(s).MasterState = "NO_STATE"
         /\ s \notin ActuatorObjects => ExitAC(s) = acRx
BY DEF ExitPC, ExitAC, Order, SonicObjects, ActuatorObjects

\* Of the power supply nothing is asked but by the object that runs.
PowerInv ==
  \/ pcRx.MasterState \in {"PRE_READY", "NO_STATE"}
  \/ scObj \in SonicObjects /\ actions[scObj] # "INIT" /\ pcRx.MasterState = PowerCommand(scObj)

\* The same of the actuator; but the stroke of a calibration stays commanded until
\* the next command.
Resting == operation = NoOperation \/ ~isRunning

StrokeInv ==
  \/ operation = "HEIGHT_CALIBRATE_READY" /\ acRx.MasterState \in {"DOWN_STROKE", "RETURN_STROKE"}
  \/ acRx.MasterState = "NO_STATE"
  \/ Resting /\ acRx.MasterState = "PRE_READY"
  \/ scObj \in ActuatorObjects /\ actions[scObj] # "INIT" /\ acRx.MasterState = scObj

AskedInv == PowerInv /\ StrokeInv

\* What a tick finds, in one operation at a time: an E-stop takes the SC from an
\* object in the middle of an operation; and the object that runs is the one that
\* ran, or a new one when nothing is left to do for that.
LEMMA EstopTick ==
  ASSUME SequenceInv, OneInv, EstopDue
  PROVE  /\ scObj \in SCSTATES /\ scObj # "ESTOP"
         /\ operation # NoOperation => isRunning /\ actions["ESTOP"] = "INIT"
BY DEF OneInv, LoadInv, ActiveInv, EstopDue, Under, SCSTATES

LEMMA ObjectTick ==
  ASSUME CommandsTyped, SequenceInv, OneInv, NEW i, NEW s, RunsObject(i, s)
  PROVE  /\ s \in SCSTATES /\ scObj' = s /\ isRunning'
         /\ operation = NoOperation => s \in {"ALARM", "ESTOP"}
         /\ operation # NoOperation /\ actions[s] # "INIT" => scObj = s
         /\ operation # NoOperation /\ actions[s] = "INIT" => actions[scObj] = "INIT"
         /\ operation # NoOperation /\ ~isRunning
              => actions[s] = "INIT" /\ s \in {"PRE_READY", "READY_FOR_TRIGGER"}
         /\ \A t \in SCSTATES :
               t # s /\ actions[t] # "INIT" => operation = NoOperation /\ t = "ESTOP"
         /\ \/ scIndex' = i /\ Step(s) /\ \E a \in StepActions \ {"INIT"} :
                                             actions' = [actions EXCEPT ![s] = a]
            \/ /\ actions[s] \in {"JUMP", "ALJUMPNORM", "ABORT"}
               /\ \E next \in {i + 1, AlarmStateIndex} : Leave(s, next)
<1>1. /\ s \in SCSTATES
      /\ \A t \in SCSTATES :
            t # s /\ actions[t] # "INIT" => operation = NoOperation /\ t = "ESTOP"
      /\ operation # NoOperation /\ actions[s] # "INIT" => scObj = s
      /\ operation # NoOperation /\ actions[s] = "INIT" => actions[scObj] = "INIT"
  BY OnlyOneActive DEF OneInv
<1>2. scIndex' = i /\ Step(s) => \E a \in StepActions \ {"INIT"} : actions' = [actions EXCEPT ![s] = a]
  BY <1>1, StepEffect
<1>3. /\ operation = NoOperation => i \in {1, 2} /\ List(operation)[1] = "ALARM"
                                    /\ List(operation)[2] = "ESTOP"
      /\ operation # NoOperation => List(operation)[1] \in {"PRE_READY", "READY_FOR_TRIGGER"}
  <2>1. operation \in {"WELD", "TEST", "HEIGHT_CALIBRATE_READY", NoOperation}
    BY DEF SequenceInv
  <2>2. ASSUME operation = NoOperation
        PROVE  i \in 1 .. 2 /\ List(operation)[1] = "ALARM" /\ List(operation)[2] = "ESTOP"
    <3>. DEFINE n == Len(List(operation))
    <3>1. n = 2 /\ List(operation)[n - 1] = "ALARM" /\ List(operation)[n] = "ESTOP" /\ i \in 1 .. n
      BY <2>1, <2>2, ClosingPair DEF RunsObject
    <3>. HIDE DEF n
    <3>2. n - 1 = 1
      BY <3>1
    <3>. QED  BY <3>1, <3>2
  <2>3. operation # NoOperation => List(operation)[1] \in {"PRE_READY", "READY_FOR_TRIGGER"}
    BY <2>1, ClosingPair
  <2>. QED  BY <2>2, <2>3
<1>4. operation # NoOperation /\ ~isRunning => i = 1 /\ actions[s] = "INIT"
  <2>. DEFINE n == Len(List(operation))
  <2>1. n \in 2 .. 11
    BY ListLength
  <2>. HIDE DEF n
  <2>2. ~isRunning => i = 1
    BY <2>1 DEF RunsObject, SequenceInv, n
  <2>. QED  BY <1>1, <2>2 DEF OneInv, LoadInv
<1>. QED  BY <1>1, <1>2, <1>3, <1>4 DEF RunsObject, Leaving

\* The lists of the operations, object by object; WELD opens as WeldList says.
LEMMA WeldObjects ==
  /\ List("WELD")[4] = "WAIT_FOR_TRIGGER" /\ List("WELD")[5] = "SQUEEZE_TIME"
  /\ List("WELD")[6] = "WELD_PRESSURE_SET" /\ List("WELD")[7] = "WELD_SONIC_ON"
  /\ List("WELD")[8] = "HOLD" /\ List("WELD")[9] = "WAIT_FOR_READY_POSITION"
  /\ List("WELD")[10] = "ALARM" /\ List("WELD")[11] = "ESTOP"
<1>. DEFINE body == <<"PRE_READY", "READY", "SEEK_SONIC_ON", "WAIT_FOR_TRIGGER", "SQUEEZE_TIME",
                      "WELD_PRESSURE_SET", "WELD_SONIC_ON", "HOLD", "WAIT_FOR_READY_POSITION">>
<1>1. List("WELD") = body \o <<"ALARM", "ESTOP">>
  BY DEF List, NoOperation
<1>2. /\ body \in Seq(SCSTATES) /\ Len(body) = 9
      /\ body[4] = "WAIT_FOR_TRIGGER" /\ body[5] = "SQUEEZE_TIME"
      /\ body[6] = "WELD_PRESSURE_SET" /\ body[7] = "WELD_SONIC_ON"
      /\ body[8] = "HOLD" /\ body[9] = "WAIT_FOR_READY_POSITION"
  BY DEF SCSTATES
<1>. HIDE DEF body
<1>3. Closed(List("WELD"), body)
  BY <1>1, <1>2, ClosedList
<1>. QED  BY <1>2, <1>3 DEF Closed

LEMMA TestObjects ==
  /\ Len(List("TEST")) = 5
  /\ List("TEST")[1] = "READY_FOR_TRIGGER" /\ List("TEST")[2] = "SEEK_SONIC_ON"
  /\ List("TEST")[3] = "TEST_SONIC_ON"
  /\ List("TEST")[4] = "ALARM" /\ List("TEST")[5] = "ESTOP"
<1>. DEFINE body == <<"READY_FOR_TRIGGER", "SEEK_SONIC_ON", "TEST_SONIC_ON">>
<1>1. List("TEST") = body \o <<"ALARM", "ESTOP">>
  BY DEF List, NoOperation
<1>2. /\ body \in Seq(SCSTATES) /\ Len(body) = 3
      /\ body[1] = "READY_FOR_TRIGGER" /\ body[2] = "SEEK_SONIC_ON" /\ body[3] = "TEST_SONIC_ON"
  BY DEF SCSTATES
<1>. HIDE DEF body
<1>3. Closed(List("TEST"), body)
  BY <1>1, <1>2, ClosedList
<1>. QED  BY <1>2, <1>3 DEF Closed

LEMMA CalibrateObjects ==
  /\ Len(List("HEIGHT_CALIBRATE_READY")) = 4
  /\ List("HEIGHT_CALIBRATE_READY")[1] = "READY_FOR_TRIGGER"
  /\ List("HEIGHT_CALIBRATE_READY")[2] = "CALIBRATE"
  /\ List("HEIGHT_CALIBRATE_READY")[3] = "ALARM" /\ List("HEIGHT_CALIBRATE_READY")[4] = "ESTOP"
<1>. DEFINE body == <<"READY_FOR_TRIGGER", "CALIBRATE">>
<1>1. List("HEIGHT_CALIBRATE_READY") = body \o <<"ALARM", "ESTOP">>
  BY DEF List, NoOperation
<1>2. /\ body \in Seq(SCSTATES) /\ Len(body) = 2
      /\ body[1] = "READY_FOR_TRIGGER" /\ body[2] = "CALIBRATE"
  BY DEF SCSTATES
<1>. HIDE DEF body
<1>3. Closed(List("HEIGHT_CALIBRATE_READY"), body)
  BY <1>1, <1>2, ClosedList
<1>. QED  BY <1>2, <1>3 DEF Closed

\* Where the objects stand: CALIBRATE in the list of the calibration only, the weld at
\* its place, ALARM and ESTOP only at the end.
LEMMA ObjectOf ==
  ASSUME SequenceInv, NEW i \in 1 .. Len(List(operation))
  PROVE  /\ List(operation)[i] = "CALIBRATE" => operation = "HEIGHT_CALIBRATE_READY"
         /\ List(operation)[i] = "WAIT_FOR_TRIGGER" => operation = "WELD" /\ i = 4
         /\ List(operation)[i] = "SQUEEZE_TIME" => operation = "WELD" /\ i = 5
         /\ List(operation)[i] = "WELD_PRESSURE_SET" => operation = "WELD" /\ i = 6
         /\ List(operation)[i] = "WELD_SONIC_ON" => operation = "WELD" /\ i = 7
         /\ List(operation)[i] = "HOLD" => operation = "WELD" /\ i = 8
         /\ List(operation)[i] = "WAIT_FOR_READY_POSITION" => operation = "WELD" /\ i = 9
         /\ List(operation)[i] = "ALARM" => i = Len(List(operation)) - 1
         /\ List(operation)[i] = "ESTOP" => i = Len(List(operation))
<1>. DEFINE n == Len(List(operation))
            x == List(operation)[i]
            Place(weld) == /\ x = "WAIT_FOR_TRIGGER" => weld /\ i = 4
                           /\ x = "SQUEEZE_TIME" => weld /\ i = 5
                           /\ x = "WELD_PRESSURE_SET" => weld /\ i = 6
                           /\ x = "WELD_SONIC_ON" => weld /\ i = 7
                           /\ x = "HOLD" => weld /\ i = 8
                           /\ x = "WAIT_FOR_READY_POSITION" => weld /\ i = 9
                           /\ x = "ALARM" => i = n - 1
                           /\ x = "ESTOP" => i = n
<1>1. CASE operation = "WELD"
  <2>1. n = 11 /\ i \in 1 .. 11
    BY <1>1, WeldList
  <2>2. <<i, x>> \in {<<1, "PRE_READY">>, <<2, "READY">>, <<3, "SEEK_SONIC_ON">>,
                   <<4, "WAIT_FOR_TRIGGER">>, <<5, "SQUEEZE_TIME">>,
                   <<6, "WELD_PRESSURE_SET">>, <<7, "WELD_SONIC_ON">>, <<8, "HOLD">>,
                   <<9, "WAIT_FOR_READY_POSITION">>, <<10, "ALARM">>, <<11, "ESTOP">>}
    <3>1. \/ i = 1 \/ i = 2 \/ i = 3 \/ i = 4 \/ i = 5 \/ i = 6 \/ i = 7 \/ i = 8 \/ i = 9
          \/ i = 10 \/ i = 11
      BY <2>1
    <3>. QED  BY <1>1, <3>1, WeldList, WeldObjects
  <2>. HIDE DEF n, x
  <2>3. Place(TRUE) /\ x # "CALIBRATE"
    BY <2>1, <2>2
  <2>. QED  BY <1>1, <2>3 DEF x, n
<1>2. CASE operation = "TEST"
  <2>1. n = 5 /\ i \in 1 .. 5
    BY <1>2, TestObjects
  <2>2. <<i, x>> \in {<<1, "READY_FOR_TRIGGER">>, <<2, "SEEK_SONIC_ON">>,
                   <<3, "TEST_SONIC_ON">>, <<4, "ALARM">>, <<5, "ESTOP">>}
    <3>1. i = 1 \/ i = 2 \/ i = 3 \/ i = 4 \/ i = 5
      BY <2>1
    <3>. QED  BY <1>2, <3>1, TestObjects
  <2>. HIDE DEF n, x
  <2>. QED  BY <2>1, <2>2 DEF n, x
<1>3. CASE operation = "HEIGHT_CALIBRATE_READY"
  <2>1. n = 4 /\ i \in 1 .. 4
    BY <1>3, CalibrateObjects
  <2>2. <<i, x>> \in {<<1, "READY_FOR_TRIGGER">>, <<2, "CALIBRATE">>, <<3, "ALARM">>,
                   <<4, "ESTOP">>}
    <3>1. i = 1 \/ i = 2 \/ i = 3 \/ i = 4
      BY <2>1
    <3>. QED  BY <1>3, <3>1, CalibrateObjects
  <2>. HIDE DEF n, x
  <2>3. Place(FALSE)
    BY <2>1, <2>2
  <2>. QED  BY <1>3, <2>3 DEF x, n
<1>4. CASE operation = NoOperation
  <2>1. n = 2 /\ i \in 1 .. n /\ List(operation)[n - 1] = "ALARM" /\ List(operation)[n] = "ESTOP"
    BY <1>4, ClosingPair
  <2>. HIDE DEF n
  <2>2. n - 1 = 1 /\ (i = 1 \/ i = 2)
    BY <2>1
  <2>3. <<i, x>> \in {<<1, "ALARM">>, <<2, "ESTOP">>}
    BY <2>1, <2>2
  <2>. HIDE DEF x
  <2>. QED  BY <2>1, <2>3 DEF n, x
<1>. QED  BY <1>1, <1>2, <1>3, <1>4 DEF SequenceInv

\* The SC comes to ESTOP, but for the E-stop itself, only from ALARM or from ESTOP.
LEMMA EstopAfterAlarm ==
  ASSUME SequenceInv, PlaceInv, NEW i, RunsObject(i, "ESTOP")
  PROVE  operation # NoOperation => scObj \in {"ALARM", "ESTOP"}
<1>. SUFFICES ASSUME operation # NoOperation PROVE scObj \in {"ALARM", "ESTOP"}
  OBVIOUS
<1>. DEFINE n == Len(List(operation))
<1>1. i = n /\ (i = scIndex \/ i = 1) /\ n \in 2 .. 11
  BY ObjectOf, ListLength DEF RunsObject
<1>2. List(operation)[n - 1] = "ALARM" /\ List(operation)[n] = "ESTOP"
  BY ClosingPair DEF SequenceInv
<1>3. AlarmStateIndex = n - 1
  BY DEF AlarmStateIndex
<1>. HIDE DEF n
<1>4. scIndex = n /\ n > 1 /\ n # n - 1
  BY <1>1
<1>5. scObj = List(operation)[n - 1] \/ Under(scObj)
  BY <1>1, <1>3, <1>4 DEF PlaceInv
<1>. QED  BY <1>2, <1>4, <1>5 DEF Under

LEMMA TickAsked ==
  ASSUME CommandsTyped, SequenceInv, OneInv, AskedInv, RunStateMachine
  PROVE  AskedInv'
<1>1. UNCHANGED operation
  BY TickCases
<1>2. CASE isLoading /\ ~isRunning' /\ UNCHANGED <<rx, scObj, actions>>
  BY <1>1, <1>2 DEF AskedInv, PowerInv, StrokeInv, Resting, rx
<1>3. CASE isRunning' /\ EstopDue /\ RunEstop
  <2>1. /\ acRx' = ExitAC(scObj) /\ scObj' = "ESTOP"
        /\ pcRx'.MasterState = ExitPC(scObj).MasterState
    BY <1>3 DEF RunEstop, Bits, Order
  <2>2. PowerInv'
    BY <2>1, ExitCommand DEF AskedInv, PowerInv
  <2>3. StrokeInv'
    BY <1>1, <1>3, <2>1, ExitCommand, EstopTick DEF AskedInv, StrokeInv, Resting
  <2>. QED  BY <2>2, <2>3 DEF AskedInv
<1>4. ASSUME NEW i, NEW s, RunsObject(i, s) PROVE AskedInv'
  <2>1. /\ s \in SCSTATES /\ scObj' = s /\ isRunning'
        /\ operation = NoOperation => s \in {"ALARM", "ESTOP"}
        /\ operation # NoOperation /\ actions[s] # "INIT" => scObj = s
        /\ operation # NoOperation /\ actions[s] = "INIT" => actions[scObj] = "INIT"
        /\ operation # NoOperation /\ ~isRunning
              => actions[s] = "INIT" /\ s \in {"PRE_READY", "READY_FOR_TRIGGER"}
    BY <1>4, ObjectTick
  <2>2. operation = NoOperation => scObj \in {"ALARM", "ESTOP"}
    BY DEF OneInv, ActiveInv
  <2>3. CASE \E a \in StepActions \ {"INIT"} : actions' = [actions EXCEPT ![s] = a] /\ Step(s)
    <3>1. actions'[s] # "INIT"
      BY <2>1, <2>3 DEF SequenceInv
    <3>2. CommandStep(s)
      BY <2>3, StepCommand
    <3>3. PowerInv'
      BY <2>1, <2>2, <3>1, <3>2 DEF CommandStep, AskedInv, PowerInv, SonicObjects
    <3>4. StrokeInv'
      <4>1. s = "CALIBRATE" => operation = "HEIGHT_CALIBRATE_READY"
        BY <1>4, ObjectOf DEF RunsObject
      <4>. QED
        BY <1>1, <2>1, <2>2, <3>1, <3>2, <4>1
        DEF CommandStep, AskedInv, StrokeInv, Resting, ActuatorObjects
    <3>. QED  BY <3>3, <3>4 DEF AskedInv
  <2>4. CASE actions[s] # "INIT" /\ \E next : Leave(s, next)
    <3>1. acRx' = ExitAC(s) /\ pcRx' = ExitPC(s)
      BY <2>4 DEF Leave
    <3>2. PowerInv'
      BY <2>1, <2>2, <2>4, <3>1, ExitCommand DEF AskedInv, PowerInv, SonicObjects
    <3>3. StrokeInv'
      BY <1>1, <2>1, <2>2, <2>4, <3>1, ExitCommand
      DEF AskedInv, StrokeInv, Resting, ActuatorObjects
    <3>. QED  BY <3>2, <3>3 DEF AskedInv
  <2>. QED  BY <1>4, <2>3, <2>4, ObjectTick
<1>. QED  BY <1>2, <1>3, <1>4, TickCases

\* What the control task does, in one operation at a time: a load builds the list the
\* machine does not run, a button ends an object of a test or a calibration, and the
\* rest leaves the objects as they are.
ListBuilt ==
  /\ ~isRunning /\ ~isRunning' /\ scObj' = "ESTOP" /\ actions' = [s \in SCSTATES |-> "INIT"]
  /\ timers' = NoTime /\ UNCHANGED <<scIndex, faults>>
  /\ operation' # NoOperation
  /\ operation # NoOperation
       => operation' = operation /\ scObj = "ESTOP" /\ actions = [s \in SCSTATES |-> "INIT"]

ObjectEnded ==
  /\ \E s \in {"READY_FOR_TRIGGER", "TEST_SONIC_ON"} :
        actions[s] = "LOOP" /\ actions' = [actions EXCEPT ![s] = "JUMP"]
  /\ operation \in {"TEST", "HEIGHT_CALIBRATE_READY"}
  /\ UNCHANGED <<operation, scIndex, scObj, isRunning, timers, faults>>

ObjectsKept ==
  /\ UNCHANGED <<operation, scIndex, scObj, actions, isRunning, timers, alarms>>
  /\ \/ UNCHANGED <<scCore, response>>
     \/ response /\ ~response' /\ (UNCHANGED scCore \/ scCore' = scCore \cup {"BATCH_SIZE"})

LEMMA ControlCases ==
  ASSUME SequenceInv, OneInv, OneOperation, ControlTask
  PROVE  /\ UNCHANGED <<rx, tx, psRest, acRest, setup>>
         /\ ListBuilt \/ ObjectEnded \/ ObjectsKept
<1>1. UNCHANGED <<psRest, acRest, setup>>
  BY DEF ControlTask
<1>2. ASSUME NEW op, LoadBegin(op) PROVE UNCHANGED <<rx, tx>> /\ ObjectsKept
  BY <1>2 DEF LoadBegin, ObjectsKept, dispatch, faults
<1>3. ASSUME NEW s \in {"READY_FOR_TRIGGER", "TEST_SONIC_ON"}, ExecuteStateAction(s)
      PROVE  UNCHANGED <<rx, tx>> /\ ObjectEnded
  BY <1>3 DEF ExecuteStateAction, ObjectEnded, dispatch, SetAction
<1>4. CASE LoadFinish
  <2>1. UNCHANGED <<rx, tx, faults, isRunning>> /\ loading # NoLoad
    BY <1>4 DEF LoadFinish
  <2>2. LoadRetry \/ LoadRefused => ObjectsKept
    BY <2>1 DEF LoadRetry, LoadRefused, ObjectsKept, dispatch, faults
  <2>3. ASSUME LoadDone PROVE ListBuilt
    <3>1. ~isRunning /\ operation' = loading /\ scObj' = "ESTOP" /\ timers' = NoTime
          /\ actions' = [s \in SCSTATES |-> "INIT"] /\ UNCHANGED scIndex
      BY <2>3 DEF LoadDone
    <3>2. operation # NoOperation
            => loading = operation /\ scObj = "ESTOP" /\ \A s \in SCSTATES : actions[s] = "INIT"
      BY <2>1, <3>1 DEF OneOperation, OneInv, LoadInv
    <3>3. operation # NoOperation => actions = [s \in SCSTATES |-> "INIT"]
      BY <3>2 DEF SequenceInv
    <3>4. operation' # NoOperation
      BY <3>1 DEF OneInv, LoadInv
    <3>. QED  BY <2>1, <3>1, <3>2, <3>3, <3>4 DEF ListBuilt
  <2>. QED  BY <1>1, <1>4, <2>1, <2>2, <2>3 DEF LoadFinish
<1>5. RunProcess => UNCHANGED <<rx, tx>> /\ ObjectsKept
  BY DEF RunProcess, ObjectsKept, dispatch
<1>6. \/ \E op \in Operations : LoadBegin(op)
      \/ \E s \in {"READY_FOR_TRIGGER", "TEST_SONIC_ON"} : ExecuteStateAction(s)
      \/ LoadFinish \/ RunProcess
  BY DEF ControlTask
<1>7. UNCHANGED <<rx, tx>> /\ (ListBuilt \/ ObjectEnded \/ ObjectsKept)
  <2>1. CASE LoadFinish
    BY <1>4, <2>1 DEF rx, tx
  <2>. QED  BY <1>2, <1>3, <1>5, <1>6, <2>1
<1>. QED  BY <1>1, <1>7

LEMMA ControlAsked ==
  ASSUME SequenceInv, OneInv, OneOperation, AskedInv, ControlTask
  PROVE  AskedInv'
<1>1. UNCHANGED rx
  BY ControlCases
<1>2. CASE ListBuilt
  <2>1. pcRx.MasterState \in {"PRE_READY", "NO_STATE"}
    BY <1>2 DEF ListBuilt, AskedInv, PowerInv, OneInv, ActiveInv, SonicObjects
  <2>2. /\ acRx.MasterState \in {"PRE_READY", "NO_STATE"}
           \/ (operation' = "HEIGHT_CALIBRATE_READY"
                 /\ acRx.MasterState \in {"DOWN_STROKE", "RETURN_STROKE"})
    BY <1>2
    DEF ListBuilt, AskedInv, StrokeInv, OneInv, ActiveInv, ActuatorObjects, Resting, NoOperation
  <2>. QED  BY <1>1, <1>2, <2>1, <2>2 DEF ListBuilt, AskedInv, PowerInv, StrokeInv, Resting, rx
<1>3. CASE ObjectEnded
  <2>1. actions[scObj] # "INIT" => actions'[scObj] # "INIT"
    BY <1>3 DEF ObjectEnded, SequenceInv, SCSTATES
  <2>. QED
    BY <1>1, <1>3, <2>1 DEF ObjectEnded, AskedInv, PowerInv, StrokeInv, Resting, rx
<1>4. CASE ObjectsKept
  BY <1>1, <1>4 DEF ObjectsKept, AskedInv, PowerInv, StrokeInv, Resting, rx
<1>. QED  BY <1>2, <1>3, <1>4, ControlCases

\* The tasks leave the commands as they are.
LEMMA CommandsKept ==
  ASSUME CommandsTyped, Elsewhere
  PROVE  pcRx'.MasterState = pcRx.MasterState /\ acRx'.MasterState = acRx.MasterState
<1>1. CASE PowerTask
  <2>1. PS!PSRun => pcRx'.MasterState = pcRx.MasterState
    BY PowerRunTypes
  <2>2. acRx' = acRx /\ (PS!PSReceive \/ PS!PSRun)
    BY <1>1 DEF PowerTask
  <2>. QED  BY <2>1, <2>2 DEF PS!PSReceive
<1>2. CASE ActuatorTask
  <2>1. pcRx' = pcRx /\ (AC_T!ACReceive \/ AC_T!ACRun)
    BY <1>2 DEF ActuatorTask
  <2>. QED  BY <2>1, ActuatorRunTypes DEF AC_T!ACReceive, AC_T!machine
<1>3. CASE PressureMessage
  BY <1>3 DEF PressureMessage, AC_T!PressureSet
<1>4. CASE AlarmReset
  BY <1>4 DEF AlarmReset, rx
<1>5. CASE Plant
  BY <1>5 DEF Plant, AC_T!HornTravel, AC_T!StartSwitchInput, AC_T!EstopInput, AC_T!machine
<1>6. CASE Generator
  BY <1>6 DEF Generator, PS!OverloadInput
<1>7. CASE UNCHANGED welder
  BY <1>7 DEF welder, vars, rx
<1>. QED  BY <1>1, <1>2, <1>3, <1>4, <1>5, <1>6, <1>7 DEF Elsewhere

LEMMA AlwaysAsked == Spec /\ []OneOperation => []AskedInv
<1>1. Init => AskedInv
  BY DEF Init, InitSequence, PS!InitPower, AC_T!InitActuator, AskedInv, PowerInv, StrokeInv, Resting
<1>2. CommandsTyped /\ HandsKnown /\ OneInv /\ OneOperation /\ AskedInv /\ [Next]_welder
        => AskedInv'
  <2>. SUFFICES ASSUME CommandsTyped, HandsKnown, OneInv, OneOperation, AskedInv, [Next]_welder
                PROVE  AskedInv'
    OBVIOUS
  <2>1. CASE AuxClock
    BY <2>1, TickAsked DEF AuxClock, HandsKnown
  <2>2. CASE ControlTask
    BY <2>2, ControlAsked DEF HandsKnown
  <2>3. CASE Elsewhere
    BY <2>3, SequenceKept, CommandsKept DEF AskedInv, PowerInv, StrokeInv, Resting
  <2>. QED  BY <2>1, <2>2, <2>3 DEF Next, Elsewhere
<1>. QED  BY <1>1, <1>2, AlwaysSequence, AlwaysOne, CommandsCorrect, PTL DEF Spec


\* A run lowers the horn only as the answer to a command to go down.
LEMMA HornByRun ==
  ASSUME AC_T!ACRun, horn = "UP", horn' = "DOWN"
  PROVE  acRx.MasterState \in {"WAIT_FOR_TRIGGER", "DOWN_STROKE"}
<1>1. PICK core, ev : AC_T!RunStateMachine(core, ev)
  BY DEF AC_T!ACRun
<1>2. ASSUME NEW next, NEW st, NEW e, AC_T!ChangeState(next, st, e)
      PROVE  next = "AC_DOWN_STROKE"
  BY <1>2 DEF AC_T!ChangeState, AC_T!EnterHorn
<1>3. ASSUME NEW next, NEW c, NEW e, AC_T!Go(next, c, e) PROVE next = "AC_DOWN_STROKE"
  BY <1>2, <1>3 DEF AC_T!Go
<1>4. \A st, e : ~AC_T!Stay(st, e)
  BY DEF AC_T!Stay
<1>5. CASE AC_T!ReadyLoop(core, ev)
  BY <1>2, <1>3, <1>4, <1>5 DEF AC_T!ReadyLoop, AC_T!Idle, AC_T!GetPB1, AC_T!Command
<1>6. ~AC_T!StrokeDownLoop(core, ev)
  BY <1>4 DEF AC_T!StrokeDownLoop, AC_T!Raise
<1>7. ~AC_T!StartSwitchLoop(core, ev)
  BY <1>2, <1>4 DEF AC_T!StartSwitchLoop, AC_T!Raise, AC_T!Wait
<1>8. ~AC_T!StrokeUpLoop(core, ev) /\ ~AC_T!WeldHoldLoop(core, ev)
  BY <1>3, <1>4 DEF AC_T!StrokeUpLoop, AC_T!WeldHoldLoop, AC_T!Raise, AC_T!Wait, AC_T!Idle
<1>9. ~AC_T!PowerUpLoop(core, ev) /\ ~AC_T!AlarmLoop(core, ev) /\ ~AC_T!EstopLoop(core, ev)
  BY <1>3, <1>4 DEF AC_T!PowerUpLoop, AC_T!AlarmLoop, AC_T!EstopLoop, AC_T!Idle
<1>. QED  BY <1>1, <1>3, <1>5, <1>6, <1>7, <1>8, <1>9 DEF AC_T!RunStateMachine

\* Without a calibration, which leaves its stroke commanded when an E-stop or an alarm
\* ends it, the horn goes down only while the SC waits for the trigger, and this for
\* tasks that are late by any number of ticks: the actuator obeys only the command of
\* the object that still runs.  With another operation loaded amid a cycle it would
\* not, for the old object is deleted without its Exit.
THEOREM StrokeWithCycle ==
  Spec /\ []OneOperation /\ [](operation # "HEIGHT_CALIBRATE_READY") => StrokeBelongsToCycle
<1>1. AskedInv /\ operation # "HEIGHT_CALIBRATE_READY" /\ [Next]_welder
        => [horn = "UP" /\ horn' = "DOWN" => scObj \in {"WAIT_FOR_TRIGGER", "CALIBRATE"}]_welder
  <2>. SUFFICES ASSUME AskedInv, operation # "HEIGHT_CALIBRATE_READY", Next,
                       horn = "UP", horn' = "DOWN"
                PROVE  scObj = "WAIT_FOR_TRIGGER"
    OBVIOUS
  <2>1. AC_T!ACRun
    BY DEF Next, AuxClock, PowerTask, ActuatorTask, PressureMessage, ControlTask, AlarmReset, Plant,
           Generator, acRest, AC_T!ACReceive, AC_T!PressureSet, AC_T!HornTravel,
           AC_T!StartSwitchInput, AC_T!EstopInput, AC_T!machine
  <2>2. acRx.MasterState \in {"WAIT_FOR_TRIGGER", "DOWN_STROKE"}
    BY <2>1, HornByRun
  <2>. QED  BY <2>2 DEF AskedInv, StrokeInv, ActuatorObjects
<1>. QED  BY <1>1, AlwaysAsked, PTL DEF Spec, StrokeBelongsToCycle

-----------------------------------------------------------------------------
(* The sonics, for tasks in time: the power supply has acted on a tick     *)
(* before the next one comes.                                              *)

\* The commands on which the power supply runs the sonics, and goes on running them.
RunCommands == {"WELD_SONIC_ON", "WAIT_FOR_TRIGGER", "WAIT_FOR_READY_POSITION"}

PowerTyped == pcTx \in TxPDO_PC /\ psOut \subseteq PS!Outputs

\* The power supply does what it is told, or has yet to see that it is told to stop.
Following(commands) ==
  pcRx.MasterState \in commands \/ (~Powered /\ pcRx.MasterState = "NO_STATE")

SonicInv ==
  /\ PowerTyped
  /\ PS!OutputsBelongToState
  /\ PC("PC_WELD_RUN") => Following(RunCommands)
  /\ PC("PC_SEEK_RUN") => Following({"SEEK_SONIC_ON"})

\* The test output outlives its seek in an alarm of the power supply, and then only
\* until the machine has left ALARM or gone to the E-stop.
TestInv ==
  /\ operation = NoOperation => psOut = {}
  /\ "TEST" \in psOut
       => \/ scObj \notin {"ALARM", "ESTOP"}
          \/ scObj = "ALARM" /\ actions["ALARM"] = "LOOP"
          \/ scObj = "ESTOP" /\ "CTRL_ESTOP" \in pcRx.MasterEvents /\ ~Powered

\* A run changes the state or stays in it, as the command says.
PowerChange(next) ==
  /\ \E status \in SUBSET PC_STATUS_EVENTS : PS!ChangeState(next, status)
  /\ next = "PC_WELD_RUN" => PC("PC_READY") /\ pcRx.MasterState \in RunCommands
  /\ next = "PC_SEEK_RUN" => PC("PC_READY") /\ pcRx.MasterState = "SEEK_SONIC_ON"
  /\ PS!Ctrl("CTRL_ESTOP") => next = "PC_ESTOP"

PowerStay ==
  /\ \E status \in SUBSET PC_STATUS_EVENTS : PS!StayInState(status)
  /\ PC("PC_WELD_RUN") => pcRx.MasterState # "NO_STATE"
  /\ PC("PC_SEEK_RUN") => pcRx.MasterState = "SEEK_SONIC_ON"
  /\ PS!Ctrl("CTRL_ESTOP") => PC("PC_ESTOP")

LEMMA PowerRunCases ==
  ASSUME PowerTyped, PS!PSRun
  PROVE  PowerStay \/ \E next \in PCSTATES : PowerChange(next)
<1>1. PICK fault : PS!RunStateMachine(fault)
  BY DEF PS!PSRun
<1>2. /\ PS!Status \in SUBSET PC_STATUS_EVENTS
      /\ \A stat \in PC_STATUS_EVENTS : PS!Status \cup {stat} \in SUBSET PC_STATUS_EVENTS
      /\ \A stat \in PC_STATUS_EVENTS : PS!Status \ {stat} \in SUBSET PC_STATUS_EVENTS
  BY DEF PS!Status, PowerTyped, TxPDO_PC
<1>3. {"STATUS_PREBURST_ENABLE", "STATUS_AFTERBURST_ENABLE"} \subseteq PC_STATUS_EVENTS
      /\ {"PC_READY", "PC_WELD_RUN", "PC_SEEK_RUN", "PC_ALARM", "PC_ESTOP"} \subseteq PCSTATES
  BY DEF PC_STATUS_EVENTS, PCSTATES
<1>4. CASE PS!Ctrl("CTRL_ESTOP") /\ PS!ChangeState("PC_ESTOP", PS!Status)
  BY <1>2, <1>3, <1>4 DEF PowerChange
<1>5. CASE PS!EstopLoop
  BY <1>2, <1>3, <1>5 DEF PS!EstopLoop, PowerChange, PowerStay, PC
<1>6. CASE ~PS!Ctrl("CTRL_ESTOP") /\ PS!ReadyLoop(fault)
  <2>1. PC("PC_READY") /\ (PS!ChangeState("PC_ALARM", PS!Status) \/ PS!ReadyCommand)
    BY <1>6 DEF PS!ReadyLoop, PC
  <2>2. ASSUME NEW ctrl, NEW stat \in PC_STATUS_EVENTS, PS!Burst(ctrl, stat),
               pcRx.MasterState \in RunCommands
        PROVE  PowerStay \/ PowerChange("PC_WELD_RUN")
    BY <1>2, <1>6, <2>1, <2>2 DEF PS!Burst, PowerChange, PowerStay, PC
  <2>3. PS!ChangeState("PC_ALARM", PS!Status) => PowerChange("PC_ALARM")
    BY <1>2, <1>6 DEF PowerChange
  <2>4. PS!ReadyCommand => PowerStay \/ PowerChange("PC_WELD_RUN") \/ PowerChange("PC_SEEK_RUN")
    <3>1. pcRx.MasterState = "WELD_SONIC_ON" /\ PS!ChangeState("PC_WELD_RUN", PS!Status)
            => PowerChange("PC_WELD_RUN")
      BY <1>2, <1>6, <2>1 DEF PowerChange, RunCommands
    <3>2. pcRx.MasterState = "SEEK_SONIC_ON" /\ PS!ChangeState("PC_SEEK_RUN", PS!Status)
            => PowerChange("PC_SEEK_RUN")
      BY <1>2, <1>6, <2>1 DEF PowerChange
    <3>3. PS!StayInState(PS!Status) => PowerStay
      BY <1>2, <1>6, <2>1 DEF PowerStay, PC
    <3>. QED  BY <1>3, <2>2, <3>1, <3>2, <3>3 DEF PS!ReadyCommand, RunCommands
  <2>. QED  BY <1>3, <2>1, <2>3, <2>4
<1>7. CASE ~PS!Ctrl("CTRL_ESTOP") /\ PS!WeldRunLoop(fault)
  BY <1>2, <1>3, <1>7
  DEF PS!WeldRunLoop, PS!WeldRunEnds, PowerChange, PowerStay, PC
<1>8. CASE ~PS!Ctrl("CTRL_ESTOP") /\ (PS!SeekRunLoop(fault) \/ PS!AlarmLoop(fault))
  BY <1>2, <1>3, <1>8 DEF PS!SeekRunLoop, PS!AlarmLoop, PowerChange, PowerStay, PC
<1>. QED  BY <1>1, <1>4, <1>5, <1>6, <1>7, <1>8 DEF PS!RunStateMachine

\* No output outlives its state, in whatever system the power supply works.
LEMMA PowerRunOutputs ==
  ASSUME CommandsTyped, PowerTyped, PS!OutputsBelongToState, PS!PSRun
  PROVE  /\ PowerTyped' /\ PS!OutputsBelongToState'
         /\ pcTx'.PCState = "PC_WELD_RUN"
              => pcRx.MasterState \in RunCommands
                 \/ (PC("PC_WELD_RUN") /\ pcRx.MasterState # "NO_STATE")
         /\ pcTx'.PCState = "PC_SEEK_RUN" => pcRx.MasterState = "SEEK_SONIC_ON"
         /\ PS!Ctrl("CTRL_ESTOP") => psOut' = {}
         /\ ~(psOut' \subseteq psOut) => pcRx.MasterState \in RunCommands \cup {"SEEK_SONIC_ON"}
         /\ "TEST" \in psOut' => "TEST" \in psOut \/ pcRx.MasterState = "SEEK_SONIC_ON"
<1>1. CASE PowerStay
  <2>1. psOut' = psOut /\ pcTx'.PCState = pcTx.PCState /\ pcTx' \in TxPDO_PC
    BY <1>1 DEF PowerStay, PS!StayInState, PowerTyped, TxPDO_PC
  <2>2. PC("PC_ESTOP") => psOut = {}
    BY DEF PC, PS!OutputsBelongToState, PowerTyped, PS!Outputs
  <2>. QED  BY <1>1, <2>1, <2>2 DEF PowerStay, PowerTyped, PS!OutputsBelongToState, PC
<1>2. ASSUME NEW next \in PCSTATES, PowerChange(next)
      PROVE  /\ PowerTyped' /\ PS!OutputsBelongToState'
             /\ pcTx'.PCState = next
             /\ next \in {"PC_READY", "PC_ESTOP"} => psOut' = {}
             /\ ~(psOut' \subseteq psOut) => next \in {"PC_WELD_RUN", "PC_SEEK_RUN"}
             /\ "TEST" \in psOut' => "TEST" \in psOut \/ next = "PC_SEEK_RUN"
  <2>1. /\ pcTx'.PCState = next /\ pcTx' \in TxPDO_PC
        /\ psOut' = PS!EnterOutputs(next, PS!ExitOutputs)
    BY <1>2 DEF PowerChange, PS!ChangeState, TxPDO_PC
  <2>2. PS!ExitOutputs \subseteq psOut /\ PS!ExitOutputs \subseteq PS!Outputs
    BY DEF PS!ExitOutputs, PowerTyped
  <2>3. CASE next \in {"PC_READY", "PC_ESTOP"}
    BY <2>1, <2>3 DEF PS!EnterOutputs, PS!OutputsBelongToState, PowerTyped
  <2>4. CASE next = "PC_ALARM"
    <3>1. psOut' = PS!ExitOutputs \ {"RUN", "SEEK"}
      BY <2>1, <2>4 DEF PS!EnterOutputs, PS!AlarmEnterOutputs
    <3>2. "SONICS" \notin psOut'
      BY <3>1 DEF PS!ExitOutputs, PS!OutputsBelongToState
    <3>. QED  BY <2>1, <2>2, <2>4, <3>1, <3>2 DEF PS!OutputsBelongToState, PowerTyped
  <2>5. CASE next \in {"PC_WELD_RUN", "PC_SEEK_RUN"}
    <3>1. PS!ExitOutputs = {}
      BY <1>2, <2>2, <2>5 DEF PowerChange, PC, PS!ExitOutputs, PS!OutputsBelongToState, PowerTyped,
                              PS!Outputs
    <3>. QED
      BY <2>1, <2>5, <3>1 DEF PS!EnterOutputs, PS!WeldEnterOutputs, PS!SeekEnterOutputs,
         PS!SeekOutput, PS!OutputsBelongToState, PowerTyped, PS!Outputs
  <2>. QED  BY <2>3, <2>4, <2>5 DEF PCSTATES
<1>3. ASSUME NEW next \in PCSTATES, PowerChange(next)
      PROVE  /\ next = "PC_WELD_RUN" => pcRx.MasterState \in RunCommands
             /\ next = "PC_SEEK_RUN" => pcRx.MasterState = "SEEK_SONIC_ON"
             /\ PS!Ctrl("CTRL_ESTOP") => next = "PC_ESTOP"
  BY <1>3 DEF PowerChange
<1>4. CASE \E next \in PCSTATES : PowerChange(next)
  <2>1. PICK next \in PCSTATES : PowerChange(next)
    BY <1>4
  <2>2. /\ next = "PC_WELD_RUN" => pcRx.MasterState \in RunCommands
        /\ next = "PC_SEEK_RUN" => pcRx.MasterState = "SEEK_SONIC_ON"
        /\ PS!Ctrl("CTRL_ESTOP") => next = "PC_ESTOP"
    BY <1>3, <2>1
  <2>. QED  BY <1>2, <2>1, <2>2
<1>. QED  BY <1>1, <1>4, PowerRunCases

\* A tick takes a command to the power supply back, but puts no other in its place.
LEMMA TickKeepsCommand ==
  ASSUME CommandsTyped, SequenceInv, OneInv, PowerInv, RunStateMachine,
         pcRx.MasterState \notin {"PRE_READY", "NO_STATE"}
  PROVE  pcRx'.MasterState \in {pcRx.MasterState, "NO_STATE"}
<1>1. CASE UNCHANGED rx
  BY <1>1 DEF rx
<1>2. CASE RunEstop
  <2>1. pcRx'.MasterState = ExitPC(scObj).MasterState
    BY <1>2 DEF RunEstop, Bits, Order
  <2>. QED  BY <2>1, ExitCommand
<1>3. ASSUME NEW i, NEW s, RunsObject(i, s) PROVE pcRx'.MasterState \in {pcRx.MasterState, "NO_STATE"}
  <2>1. operation # NoOperation /\ actions[scObj] # "INIT"
    BY DEF PowerInv, OneInv, ActiveInv, SonicObjects
  <2>2. actions[s] # "INIT"
    BY <1>3, <2>1, ObjectTick
  <2>3. Step(s) \/ \E next : Leave(s, next)
    BY <1>3, ObjectTick
  <2>4. Step(s) => pcRx'.MasterState \in {pcRx.MasterState, "NO_STATE"}
    BY <2>2, StepCommand DEF CommandStep
  <2>5. (\E next : Leave(s, next)) => pcRx' = ExitPC(s)
    BY DEF Leave
  <2>. QED  BY <2>3, <2>4, <2>5, ExitCommand
<1>. QED  BY <1>1, <1>2, <1>3, TickCases

LEMMA ClockSonic ==
  ASSUME CommandsTyped, SequenceInv, OneInv, PowerInv, SonicInv, Powered, AuxClock
  PROVE  SonicInv'
<1>1. UNCHANGED <<pcTx, psOut>> /\ psEvent' /\ RunStateMachine
  BY DEF AuxClock, RunStateMachine, tx
<1>2. /\ PC("PC_WELD_RUN") => pcRx.MasterState \in RunCommands
      /\ PC("PC_SEEK_RUN") => pcRx.MasterState = "SEEK_SONIC_ON"
  BY DEF SonicInv, Following
<1>3. PC("PC_WELD_RUN") \/ PC("PC_SEEK_RUN")
        => pcRx'.MasterState \in {pcRx.MasterState, "NO_STATE"}
  BY <1>1, <1>2, TickKeepsCommand DEF RunCommands
<1>4. ~Powered'
  BY <1>1 DEF Powered
<1>5. PowerTyped' /\ PS!OutputsBelongToState'
  BY <1>1 DEF SonicInv, PowerTyped, PS!OutputsBelongToState
<1>. QED  BY <1>1, <1>2, <1>3, <1>4, <1>5 DEF SonicInv, Following, PC

\* The steps that leave the power supply alone.
LEMMA PowerKept ==
  ASSUME [Next]_welder, ~AuxClock, ~PowerTask
  PROVE  UNCHANGED <<pcRx, pcTx, psOut, psEvent, psBusy>>
<1>1. CASE ControlTask
  BY <1>1 DEF ControlTask, LoadBegin, ExecuteStateAction, LoadFinish, RunProcess, rx, tx, psRest
<1>2. CASE AlarmReset
  BY <1>2 DEF AlarmReset, rx, psRest
<1>3. CASE Generator
  BY <1>3 DEF Generator, PS!OverloadInput
<1>4. CASE UNCHANGED welder
  BY <1>4 DEF welder, vars, rx, tx, psRest
<1>5. CASE ActuatorTask \/ PressureMessage \/ Plant
  BY <1>5 DEF ActuatorTask, PressureMessage, Plant, psRest
<1>. QED  BY <1>1, <1>2, <1>3, <1>4, <1>5 DEF Next

LEMMA PowerTaskSonic ==
  ASSUME CommandsTyped, SonicInv, PowerTask
  PROVE  SonicInv'
<1>1. CASE PS!PSReceive
  BY <1>1 DEF PS!PSReceive, SonicInv, PowerTyped, PS!OutputsBelongToState, Following, Powered, PC
<1>2. CASE PS!PSRun
  <2>1. /\ PowerTyped' /\ PS!OutputsBelongToState'
        /\ pcTx'.PCState = "PC_WELD_RUN"
             => pcRx.MasterState \in RunCommands
                \/ (PC("PC_WELD_RUN") /\ pcRx.MasterState # "NO_STATE")
        /\ pcTx'.PCState = "PC_SEEK_RUN" => pcRx.MasterState = "SEEK_SONIC_ON"
    BY <1>2, PowerRunOutputs DEF SonicInv
  <2>2. pcRx'.MasterState = pcRx.MasterState
    BY <1>2, PowerRunTypes
  <2>3. PC("PC_WELD_RUN") /\ pcRx.MasterState # "NO_STATE" => pcRx.MasterState \in RunCommands
    BY DEF SonicInv, Following
  <2>. QED  BY <2>1, <2>2, <2>3 DEF SonicInv, Following, PC
<1>. QED  BY <1>1, <1>2 DEF PowerTask

LEMMA AlwaysSonic == ~Overrun => (Spec /\ []OneOperation => []SonicInv)
<1>. SUFFICES ASSUME ~Overrun PROVE Spec /\ []OneOperation => []SonicInv
  OBVIOUS
<1>1. Init => SonicInv
  BY DEF Init, PS!InitPower, SonicInv, PowerTyped, PS!OutputsBelongToState, PC, TxPDO_PC, PCSTATES
<1>2. CommandsTyped /\ HandsKnown /\ OneInv /\ AskedInv /\ SonicInv /\ [Next]_welder => SonicInv'
  <2>. SUFFICES ASSUME CommandsTyped, HandsKnown, OneInv, AskedInv, SonicInv, [Next]_welder
                PROVE  SonicInv'
    OBVIOUS
  <2>1. CASE AuxClock
    BY <2>1, ClockSonic DEF AuxClock, Settled, Quiet, Powered, HandsKnown, AskedInv
  <2>2. CASE ~AuxClock /\ ~PowerTask
    BY <2>2, PowerKept DEF SonicInv, PowerTyped, PS!OutputsBelongToState, Following, Powered, PC
  <2>. QED  BY <2>1, <2>2, PowerTaskSonic
<1>. QED  BY <1>1, <1>2, AlwaysSequence, AlwaysOne, AlwaysAsked, CommandsCorrect, PTL DEF Spec

\* Sonics that are on belong to the object that runs: with the tasks in time, one
\* operation at a time and a power supply that has acted on the last tick, it is one
\* that asked for them - through every E-stop, alarm, abort and reload.
THEOREM SonicsWithCycle == ~Overrun => (Spec /\ []OneOperation => []SonicsBelongToCycle)
<1>. SUFFICES ASSUME ~Overrun PROVE Spec /\ []OneOperation => []SonicsBelongToCycle
  OBVIOUS
<1>1. AskedInv /\ SonicInv => SonicsBelongToCycle
  <2>. SUFFICES ASSUME AskedInv, SonicInv, Powered, "RUN" \in psOut PROVE scObj \in SonicStates
    BY DEF SonicsBelongToCycle
  <2>1. pcRx.MasterState \in RunCommands
    BY DEF SonicInv, PS!OutputsBelongToState, Following, PC
  <2>. QED  BY <2>1 DEF AskedInv, PowerInv, PowerCommand, RunCommands, SonicObjects, SonicStates
<1>. QED  BY <1>1, AlwaysAsked, AlwaysSonic, PTL

LEMMA ClockTest ==
  ASSUME CommandsTyped, SequenceInv, OneInv, AskedInv, SonicInv, TestInv, Powered, AuxClock
  PROVE  TestInv'
<1>1. /\ UNCHANGED <<operation, pcTx, psOut, acTx>> /\ ~Powered' /\ RunStateMachine
      /\ operation = NoOperation => psOut = {}
  BY DEF AuxClock, RunStateMachine, tx, Powered, TestInv
<1>. SUFFICES ASSUME "TEST" \in psOut, operation # NoOperation
              PROVE  \/ scObj' \notin {"ALARM", "ESTOP"}
                     \/ scObj' = "ALARM" /\ actions'["ALARM"] = "LOOP"
                     \/ scObj' = "ESTOP" /\ "CTRL_ESTOP" \in pcRx'.MasterEvents
  BY <1>1 DEF TestInv
<1>2. scObj # "ESTOP" /\ (scObj = "ALARM" => actions["ALARM"] = "LOOP")
  BY DEF TestInv
<1>3. \/ PC("PC_ALARM")
      \/ scObj = "SEEK_SONIC_ON" /\ actions["SEEK_SONIC_ON"] # "INIT"
  <2>1. PC("PC_SEEK_RUN") => pcRx.MasterState = "SEEK_SONIC_ON"
    BY DEF SonicInv, Following
  <2>. QED  BY <2>1 DEF SonicInv, PS!OutputsBelongToState, PC, AskedInv, PowerInv, PowerCommand
<1>4. CASE UNCHANGED <<scObj, actions>>
  BY <1>2, <1>4
<1>5. CASE EstopDue /\ RunEstop
  BY <1>5, EstopTick DEF RunEstop, Bits, Order
<1>6. ASSUME NEW i, NEW s, RunsObject(i, s)
      PROVE  \/ scObj' \notin {"ALARM", "ESTOP"}
             \/ scObj' = "ALARM" /\ actions'["ALARM"] = "LOOP"
  <2>1. /\ s \in SCSTATES /\ scObj' = s
        /\ actions[s] # "INIT" => scObj = s
        /\ actions[s] = "INIT" => actions[scObj] = "INIT"
        /\ Step(s) \/ actions[s] \in {"JUMP", "ALJUMPNORM", "ABORT"}
    BY <1>6, ObjectTick
  <2>2. s # "ESTOP"
    <3>. SUFFICES ASSUME s = "ESTOP" PROVE FALSE
      OBVIOUS
    <3>1. actions[s] = "INIT" /\ actions[scObj] = "INIT"
      BY <1>2, <2>1
    <3>2. scObj = "ALARM"
      BY <1>2, <1>6, EstopAfterAlarm DEF OneInv
    <3>. QED  BY <1>2, <3>1, <3>2
  <2>3. CASE s = "ALARM"
    <3>1. PC("PC_ALARM")
      <4>1. scObj = "SEEK_SONIC_ON" => actions["SEEK_SONIC_ON"] = "INIT"
        BY <2>1, <2>3
      <4>. QED  BY <1>3, <4>1
    <3>2. ~NoAlarm
      BY <3>1 DEF NoAlarm
    <3>3. actions[s] \in {"INIT", "LOOP"} /\ Step(s)
      BY <1>2, <2>1, <2>3
    <3>4. CASE actions[s] = "INIT"
      <4>1. actions' = [actions EXCEPT !["ALARM"] = "LOOP"]
        BY <2>3, <3>2, <3>3, <3>4 DEF Step, Enter, EnterAction, SetAction
      <4>. QED  BY <2>1, <2>3, <4>1 DEF SequenceInv
    <3>5. CASE actions[s] = "LOOP"
      <4>1. UNCHANGED actions
        BY <2>3, <3>2, <3>3, <3>5 DEF Step, Loop, AlarmLoop, CountTime
      <4>. QED  BY <2>1, <2>3, <3>5, <4>1
    <3>. QED  BY <3>3, <3>4, <3>5
  <2>. QED  BY <2>1, <2>2, <2>3
<1>. QED  BY <1>1, <1>4, <1>5, <1>6, TickCases

LEMMA PowerTaskTest ==
  ASSUME CommandsTyped, OneInv, AskedInv, SonicInv, TestInv, PowerTask
  PROVE  TestInv'
<1>0. UNCHANGED <<operation, scObj, actions>>
  BY DEF PowerTask, own
<1>1. CASE PS!PSReceive
  BY <1>0, <1>1 DEF PS!PSReceive, TestInv, Powered
<1>2. CASE PS!PSRun
  <2>1. /\ PS!Ctrl("CTRL_ESTOP") => psOut' = {}
        /\ ~(psOut' \subseteq psOut) => pcRx.MasterState \in RunCommands \cup {"SEEK_SONIC_ON"}
        /\ "TEST" \in psOut' => "TEST" \in psOut \/ pcRx.MasterState = "SEEK_SONIC_ON"
    BY <1>2, PowerRunOutputs DEF SonicInv
  <2>2. operation = NoOperation => psOut' = {}
    <3>1. operation = NoOperation => pcRx.MasterState \in {"PRE_READY", "NO_STATE"}
      BY DEF AskedInv, PowerInv, OneInv, ActiveInv, SonicObjects
    <3>. QED  BY <2>1, <3>1 DEF TestInv, RunCommands
  <2>3. ASSUME "TEST" \in psOut'
        PROVE  scObj \notin {"ALARM", "ESTOP"} \/ (scObj = "ALARM" /\ actions["ALARM"] = "LOOP")
    <3>1. "CTRL_ESTOP" \notin pcRx.MasterEvents
      BY <2>1, <2>3 DEF PS!Ctrl
    <3>2. pcRx.MasterState = "SEEK_SONIC_ON" => scObj \notin {"ALARM", "ESTOP"}
      BY DEF AskedInv, PowerInv, SonicObjects
    <3>. QED  BY <2>1, <2>3, <3>1, <3>2 DEF TestInv
  <2>. QED  BY <1>0, <2>2, <2>3 DEF TestInv
<1>. QED  BY <1>1, <1>2 DEF PowerTask

LEMMA AlwaysTest == ~Overrun => (Spec /\ []OneOperation => []TestInv)
<1>. SUFFICES ASSUME ~Overrun PROVE Spec /\ []OneOperation => []TestInv
  OBVIOUS
<1>1. Init => TestInv
  BY DEF Init, PS!InitPower, TestInv
<1>2. CommandsTyped /\ HandsKnown /\ OneInv /\ OneOperation /\ AskedInv /\ SonicInv /\ TestInv
        /\ [Next]_welder => TestInv'
  <2>. SUFFICES ASSUME CommandsTyped, HandsKnown, OneInv, OneOperation, AskedInv, SonicInv, TestInv,
                       [Next]_welder
                PROVE  TestInv'
    OBVIOUS
  <2>1. CASE AuxClock
    BY <2>1, ClockTest DEF AuxClock, Settled, Quiet, Powered, HandsKnown
  <2>2. CASE PowerTask
    BY <2>2, PowerTaskTest
  <2>3. CASE ControlTask /\ ~AuxClock /\ ~PowerTask
    <3>1. UNCHANGED <<pcRx, psOut, psEvent, psBusy>>
      BY <2>3, PowerKept
    <3>2. CASE ListBuilt
      BY <3>1, <3>2 DEF ListBuilt, TestInv, Powered, SCSTATES
    <3>3. CASE ObjectEnded
      <4>1. actions'["ALARM"] = actions["ALARM"]
        BY <3>3 DEF ObjectEnded, HandsKnown, SequenceInv
      <4>. QED  BY <3>1, <3>3, <4>1 DEF ObjectEnded, TestInv, Powered
    <3>4. CASE ObjectsKept
      BY <3>1, <3>4 DEF ObjectsKept, TestInv, Powered
    <3>. QED  BY <2>3, <3>2, <3>3, <3>4, ControlCases DEF HandsKnown
  <2>4. CASE Elsewhere /\ ~AuxClock /\ ~PowerTask
    BY <2>4, SequenceKept, PowerKept DEF TestInv, Powered
  <2>. QED  BY <2>1, <2>2, <2>3, <2>4 DEF Next, Elsewhere
<1>. QED
  BY <1>1, <1>2, AlwaysSequence, AlwaysOne, AlwaysAsked, AlwaysSonic, CommandsCorrect, PTL DEF Spec

\* With the E-stop in force and the tasks up to date nothing is on, whatever the power
\* supply did when the E-stop came, in one operation at a time.
THEOREM EstopSilences == ~Overrun => (Spec /\ []OneOperation => []EstopSilence)
<1>. SUFFICES ASSUME ~Overrun PROVE Spec /\ []OneOperation => []EstopSilence
  OBVIOUS
<1>1. AskedInv /\ SonicInv /\ TestInv => EstopSilence
  <2>. SUFFICES ASSUME AskedInv, SonicInv, TestInv, scObj = "ESTOP", Powered PROVE psOut = {}
    BY DEF EstopSilence
  <2>1. ~PC("PC_WELD_RUN") /\ ~PC("PC_SEEK_RUN")
    BY DEF SonicInv, Following, AskedInv, PowerInv, SonicObjects, RunCommands
  <2>2. "TEST" \notin psOut
    BY DEF TestInv
  <2>. QED  BY <2>1, <2>2 DEF SonicInv, PS!OutputsBelongToState, PowerTyped, PS!Outputs, PC
<1>. QED  BY <1>1, AlwaysAsked, AlwaysSonic, AlwaysTest, PTL

-----------------------------------------------------------------------------
(* The stroke: what a run of the actuator does to the horn, as a step from *)
(* one of its states to another on the command it finds.                   *)

\* core is what the run finds set after the upload of the pressure.
ActuatorTurn(core) ==
  \/ /\ acTx'.ACState = "AC_ESTOP" /\ acTx.ACState \notin {"AC_POWERUP", "AC_ESTOP"}
     /\ horn' = horn
  \/ acTx'.ACState = "AC_ALARM" /\ core # {} /\ horn' = horn
  \/ /\ acTx'.ACState = acTx.ACState /\ horn' = horn /\ acTx.ACState # "AC_POWERUP"
     /\ AC("AC_HOLD")
          => /\ acCore' = {}
             /\ acRx.MasterState
                  \notin {"RETURN_STROKE", "WAIT_FOR_READY_POSITION", "PRE_READY"}
  \/ /\ acTx'.ACState = "AC_READY" /\ horn' = "UP"
     /\ \/ acTx.ACState \in {"AC_POWERUP", "AC_STARTSWICH", "AC_RETURN_STROKE", "AC_ESTOP"}
        \/ acTx.ACState \in {"AC_DOWN_STROKE", "AC_HOLD"} /\ acRx.MasterState = "PRE_READY"
        \/ acTx.ACState = "AC_ALARM" /\ core = {}
  \/ /\ acTx'.ACState = "AC_DOWN_STROKE" /\ AC("AC_READY") /\ horn' = "DOWN"
     /\ acRx.MasterState \in {"WAIT_FOR_TRIGGER", "DOWN_STROKE"}
  \/ /\ acTx'.ACState = "AC_HOLD" /\ AC("AC_DOWN_STROKE") /\ acCore' = {}
     /\ horn' = IF acRx.MasterState = "PRE_READY" THEN "UP" ELSE horn
  \/ /\ acTx'.ACState = "AC_RETURN_STROKE" /\ AC("AC_HOLD") /\ horn' = "UP"
     /\ acRx.MasterState \in {"RETURN_STROKE", "WAIT_FOR_READY_POSITION"}
  \/ /\ acTx'.ACState = "AC_STARTSWICH" /\ AC("AC_READY") /\ horn' = horn
     /\ acRx.MasterState = "READY"

LEMMA ActuatorRunCases ==
  ASSUME AC_T!ACRun
  PROVE  \E core : AC_T!Upload(core) /\ ActuatorTurn(core)
<1>1. PICK core, ev : AC_T!Upload(core) /\ AC_T!RunStateMachine(core, ev)
  BY DEF AC_T!ACRun
<1>2. ASSUME NEW next, NEW st, NEW e, AC_T!ChangeState(next, st, e)
      PROVE  /\ acTx'.ACState = next
             /\ horn' = AC_T!EnterHorn(next, AC_T!ExitEvents(acTx.ACState, e))
  BY <1>2 DEF AC_T!ChangeState, AC_T!Publish
<1>3. ASSUME NEW next, NEW e, AC_T!Go(next, core, e)
      PROVE  /\ acTx'.ACState = next /\ acCore' = core
             /\ horn' = AC_T!EnterHorn(next, AC_T!ExitEvents(acTx.ACState, e))
  BY <1>2, <1>3 DEF AC_T!Go
<1>4. ASSUME NEW st, NEW e, AC_T!Stay(st, e) PROVE acTx'.ACState = acTx.ACState /\ horn' = horn
  BY <1>4 DEF AC_T!Stay, AC_T!Publish
<1>5. CASE AC_T!Go("AC_ESTOP", core, ev) /\ AC_T!EstopDue(ev)
  <2>1. ActuatorTurn(core)
    BY <1>3, <1>5 DEF AC_T!EnterHorn, AC_T!EstopDue, AC_T!In, ActuatorTurn
  <2>. QED  BY <1>1, <2>1
<1>6. CASE AC_T!Go("AC_ALARM", core, ev) /\ AC_T!AlarmDue(core, ev)
  <2>1. ActuatorTurn(core)
    BY <1>3, <1>6 DEF AC_T!EnterHorn, AC_T!AlarmDue, ActuatorTurn
  <2>. QED  BY <1>1, <2>1
<1>7. CASE ~AC_T!EstopDue(ev) /\ ~AC_T!AlarmDue(core, ev)
  <2>1. core = {} \/ AC("AC_ALARM")
    BY <1>7 DEF AC_T!AlarmDue, AC_T!In, AC
  <2>2. AC_T!PowerUpLoop(core, ev) => ActuatorTurn(core)
    BY <1>3 DEF AC_T!PowerUpLoop, AC_T!In, AC_T!EnterHorn, ActuatorTurn
  <2>3. AC_T!ReadyLoop(core, ev) => ActuatorTurn(core)
    <3>. SUFFICES ASSUME AC_T!ReadyLoop(core, ev) PROVE ActuatorTurn(core)
      OBVIOUS
    <3>1. acTx.ACState = "AC_READY"
      BY DEF AC_T!ReadyLoop, AC_T!In
    <3>2. (\E st : AC_T!Idle(core, st, ev)) => ActuatorTurn(core)
      BY <1>4, <3>1 DEF AC_T!Idle, ActuatorTurn, AC
    <3>3. AC_T!GetPB1(core, ev) /\ acRx.MasterState = "READY" => ActuatorTurn(core)
      BY <1>2, <1>4, <3>1 DEF AC_T!GetPB1, AC_T!EnterHorn, ActuatorTurn, AC
    <3>4. ASSUME AC_T!Go("AC_DOWN_STROKE", core, ev \ {"CTRL_AC_MOVE_DISABLE"}),
                 acRx.MasterState \in {"WAIT_FOR_TRIGGER", "DOWN_STROKE"}
          PROVE  ActuatorTurn(core)
      <4>1. horn' = "DOWN"
        BY <1>3, <3>1, <3>4 DEF AC_T!EnterHorn, AC_T!ExitEvents, AC_T!MayMove
      <4>. QED  BY <1>3, <3>1, <3>4, <4>1 DEF ActuatorTurn, AC
    <3>. QED  BY <3>2, <3>3, <3>4 DEF AC_T!ReadyLoop, AC_T!Command
  <2>4. AC_T!StartSwitchLoop(core, ev) => ActuatorTurn(core)
    <3>. SUFFICES ASSUME AC_T!StartSwitchLoop(core, ev) PROVE ActuatorTurn(core)
      OBVIOUS
    <3>1. acTx.ACState = "AC_STARTSWICH"
      BY DEF AC_T!StartSwitchLoop, AC_T!In
    <3>2. CASE \E st : AC_T!ChangeState("AC_READY", st, ev)
      BY <1>2, <3>1, <3>2 DEF AC_T!EnterHorn, ActuatorTurn, AC
    <3>3. CASE AC_T!Raise(core, "ERR_STARTSWITCH_LOST", ev) \/ AC_T!Wait(core, AC_T!Status, ev)
      BY <1>4, <3>1, <3>3 DEF AC_T!Raise, AC_T!Wait, ActuatorTurn, AC
    <3>. QED  BY <3>2, <3>3 DEF AC_T!StartSwitchLoop
  <2>5. AC_T!StrokeDownLoop(core, ev) => ActuatorTurn(core)
    <3>. SUFFICES ASSUME AC_T!StrokeDownLoop(core, ev) PROVE ActuatorTurn(core)
      OBVIOUS
    <3>1. acTx.ACState = "AC_DOWN_STROKE" /\ core = {}
      BY <2>1 DEF AC_T!StrokeDownLoop, AC_T!In, AC
    <3>2. CASE AC_T!Raise(core, "ERR_HEIGHT_SYSTEM", ev)
      BY <1>4, <3>1, <3>2 DEF AC_T!Raise, ActuatorTurn, AC
    <3>3. CASE ~AC_T!Raise(core, "ERR_HEIGHT_SYSTEM", ev)
      <4>1. /\ acTx'.ACState = AC_T!StrokeDownState(ev) /\ acCore' = core
            /\ horn' = IF acRx.MasterState = "PRE_READY" THEN "UP" ELSE horn
        BY <3>3 DEF AC_T!StrokeDownLoop, AC_T!Publish, AC_T!Command
      <4>2. \/ acTx'.ACState = "AC_HOLD"
            \/ acTx'.ACState = "AC_READY" /\ acRx.MasterState = "PRE_READY"
            \/ acTx'.ACState = "AC_DOWN_STROKE" /\ acRx.MasterState # "PRE_READY"
        BY <4>1 DEF AC_T!StrokeDownState, AC_T!Command
      <4>. QED  BY <3>1, <4>1, <4>2 DEF ActuatorTurn, AC
    <3>. QED  BY <3>2, <3>3
  <2>6. AC_T!StrokeUpLoop(core, ev) => ActuatorTurn(core)
    <3>. SUFFICES ASSUME AC_T!StrokeUpLoop(core, ev) PROVE ActuatorTurn(core)
      OBVIOUS
    <3>1. acTx.ACState = "AC_RETURN_STROKE"
      BY DEF AC_T!StrokeUpLoop, AC_T!In
    <3>2. CASE AC_T!Go("AC_READY", core, ev)
      BY <1>3, <3>1, <3>2 DEF AC_T!EnterHorn, ActuatorTurn, AC
    <3>3. CASE AC_T!Raise(core, "ERR_HOME_POSITION", ev) \/ \E st : AC_T!Wait(core, st, ev)
      BY <1>4, <3>1, <3>3 DEF AC_T!Raise, AC_T!Wait, ActuatorTurn, AC
    <3>. QED  BY <3>2, <3>3 DEF AC_T!StrokeUpLoop
  <2>7. AC_T!WeldHoldLoop(core, ev) => ActuatorTurn(core)
    <3>. SUFFICES ASSUME AC_T!WeldHoldLoop(core, ev) PROVE ActuatorTurn(core)
      OBVIOUS
    <3>1. acTx.ACState = "AC_HOLD" /\ core = {}
      BY <2>1 DEF AC_T!WeldHoldLoop, AC_T!In, AC
    <3>2. CASE /\ AC_T!Go("AC_RETURN_STROKE", core, ev)
               /\ acRx.MasterState \in {"RETURN_STROKE", "WAIT_FOR_READY_POSITION"}
      <4>1. horn' = "UP"
        BY <1>3, <3>1, <3>2 DEF AC_T!EnterHorn, AC_T!ExitEvents, AC_T!MayMove
      <4>. QED  BY <1>3, <3>1, <3>2, <4>1 DEF ActuatorTurn, AC
    <3>3. CASE AC_T!Go("AC_READY", core, ev) /\ acRx.MasterState = "PRE_READY"
      BY <1>3, <3>1, <3>3 DEF AC_T!EnterHorn, ActuatorTurn, AC
    <3>4. CASE /\ AC_T!Idle(core, AC_T!Status, ev)
               /\ acRx.MasterState \notin {"RETURN_STROKE", "WAIT_FOR_READY_POSITION", "PRE_READY"}
      BY <1>4, <3>1, <3>4 DEF AC_T!Idle, ActuatorTurn, AC
    <3>. QED  BY <3>2, <3>3, <3>4 DEF AC_T!WeldHoldLoop, AC_T!Command
  <2>8. AC_T!AlarmLoop(core, ev) => ActuatorTurn(core)
    BY <1>3, <1>4 DEF AC_T!AlarmLoop, AC_T!Idle, AC_T!In, AC_T!EnterHorn, ActuatorTurn, AC
  <2>9. AC_T!EstopLoop(core, ev) => ActuatorTurn(core)
    BY <1>3, <1>4 DEF AC_T!EstopLoop, AC_T!Idle, AC_T!In, AC_T!EnterHorn, ActuatorTurn, AC
  <2>. QED
    BY <1>1, <1>7, <2>2, <2>3, <2>4, <2>5, <2>6, <2>7, <2>8, <2>9 DEF AC_T!RunStateMachine
<1>. QED  BY <1>1, <1>5, <1>6, <1>7 DEF AC_T!RunStateMachine

\* The errors of the SC come from the seek, the trigger and the weld, and from the
\* batch count of the control task.
LEMMA StepFaults ==
  ASSUME NEW s, Step(s)
  PROVE  /\ response' = response
         /\ s \notin {"SEEK_SONIC_ON", "WAIT_FOR_TRIGGER", "WELD_SONIC_ON"} => scCore' = scCore
<1>. DEFINE Same == response' = response /\ scCore' = scCore
<1>1. Proceed(s) \/ GiveUp(s) \/ Remain \/ CountTime => Same
  BY DEF Proceed, GiveUp, Remain, CountTime, faults
<1>2. CASE actions[s] = "INIT" /\ Enter(s)
  BY <1>2 DEF Enter, EnterWeld
<1>3. CASE actions[s] = "LOOP" /\ Loop(s)
  <2>1. ASSUME NEW ctrl, NEW duration, BurstStarts(s, ctrl) \/ BurstWaits(s)
                                         \/ BurstRuns(s, ctrl, duration)
        PROVE  Same
    BY <2>1 DEF BurstStarts, BurstWaits, BurstRuns, faults
  <2>2. ASSUME NEW acState, StrokeEnds(s, acState) PROVE Same
    BY <2>2 DEF StrokeEnds, faults
  <2>3. Abort(s) => response' = response
    BY DEF Abort
  <2>4. SeekSonicOnLoop(s) => response' = response
    BY <1>1, <2>3 DEF SeekSonicOnLoop, faults
  <2>5. WaitForTriggerLoop(s) => response' = response
    BY <2>1, <2>2, <2>3, <1>1 DEF WaitForTriggerLoop
  <2>6. WaitForReadyPositionLoop(s) => Same
    BY <1>1, <2>1, <2>2 DEF WaitForReadyPositionLoop, AfterBurstWait, faults
  <2>7. WeldSonicOnLoop(s) => response' = response
    BY DEF WeldSonicOnLoop
  <2>8. CalibrateLoop(s) => Same
    BY <1>1 DEF CalibrateLoop, faults
  <2>9. AlarmLoop(s) \/ EstopLoop(s) => Same
    BY <1>1 DEF AlarmLoop, EstopLoop, faults
  <2>10. PreReadyLoop(s) \/ ReadyLoop(s) \/ ReadyForTriggerLoop(s) \/ TestSonicOnLoop(s)
          \/ (\E duration : DelayLoop(s, duration)) => Same
    BY <1>1 DEF PreReadyLoop, ReadyLoop, ReadyForTriggerLoop, TestSonicOnLoop, DelayLoop
  <2>. QED  BY <1>3, <2>4, <2>5, <2>6, <2>7, <2>8, <2>9, <2>10 DEF Loop
<1>4. CASE actions[s] = "FAIL" /\ Fail(s)
  BY <1>4 DEF Fail, FailCore
<1>. QED  BY <1>2, <1>3, <1>4 DEF Step

\* Only a run of the actuator changes its state and moves the horn; and the tasks
\* do not touch what the SC records, but for the reset of the alarms.
LEMMA ActuatorKept ==
  ASSUME [Next]_welder, ~ActuatorTask
  PROVE  UNCHANGED <<acTx, horn>>
<1>1. CASE AuxClock
  BY <1>1 DEF AuxClock, RunStateMachine, tx
<1>2. CASE ControlTask
  BY <1>2 DEF ControlTask, LoadBegin, ExecuteStateAction, LoadFinish, RunProcess, tx, acRest
<1>3. CASE PowerTask \/ Generator \/ AlarmReset
  BY <1>3 DEF PowerTask, Generator, AlarmReset, acRest
<1>4. CASE PressureMessage
  BY <1>4 DEF PressureMessage, AC_T!PressureSet
<1>5. CASE Plant
  BY <1>5 DEF Plant, AC_T!HornTravel, AC_T!StartSwitchInput, AC_T!EstopInput, AC_T!machine
<1>6. CASE UNCHANGED welder
  BY <1>6 DEF welder, vars, tx, acRest
<1>. QED  BY <1>1, <1>2, <1>3, <1>4, <1>5, <1>6 DEF Next

LEMMA RecordKept ==
  ASSUME Elsewhere
  PROVE  /\ UNCHANGED <<timers, response, setup>>
         /\ UNCHANGED scCore \/ scCore' = {}
BY DEF Elsewhere, PowerTask, ActuatorTask, PressureMessage, AlarmReset, Plant, Generator, welder,
       vars, own

\* Before the first cycle nothing has been asked of the actuator, and nothing has
\* gone wrong.
RestInv ==
  Resting => /\ acRx.MasterState \in {"PRE_READY", "NO_STATE"}
             /\ acTx.ACState \in {"AC_POWERUP", "AC_READY", "AC_ALARM", "AC_ESTOP"}
             /\ scCore = {} /\ ~response

LEMMA TickRest ==
  ASSUME CommandsTyped, SequenceInv, OneInv, RestInv, RunStateMachine
  PROVE  RestInv'
<1>1. UNCHANGED <<operation, acTx>>
  BY TickCases DEF RunStateMachine, tx
<1>2. CASE isLoading /\ ~isRunning' /\ UNCHANGED <<rx, scObj, actions>>
  <2>1. Resting
    BY <1>2 DEF OneInv, LoadInv, Resting
  <2>2. UNCHANGED <<scCore, response>>
    BY <1>2 DEF RunStateMachine, faults
  <2>. QED  BY <1>1, <1>2, <2>1, <2>2 DEF RestInv, rx
<1>3. CASE isRunning' /\ EstopDue /\ RunEstop
  <2>. SUFFICES ASSUME operation = NoOperation PROVE RestInv'
    BY <1>1, <1>3 DEF RestInv, Resting
  <2>1. scObj = "ALARM"
    BY <1>3, EstopTick DEF OneInv, ActiveInv
  <2>2. acRx' = acRx /\ UNCHANGED scCore /\ ~response'
    BY <1>3, <2>1 DEF RunEstop, ExitAC, ExitCore, RestInv, Resting
  <2>. QED  BY <1>1, <2>2 DEF RestInv, Resting
<1>4. ASSUME NEW i, NEW s, RunsObject(i, s) PROVE RestInv'
  <2>1. isRunning' /\ (operation = NoOperation => s \in {"ALARM", "ESTOP"})
        /\ (Step(s) \/ \E next : Leave(s, next))
    BY <1>4, ObjectTick
  <2>. SUFFICES ASSUME operation = NoOperation PROVE RestInv'
    BY <1>1, <2>1 DEF RestInv, Resting
  <2>2. CASE Step(s)
    <3>1. acRx'.MasterState = acRx.MasterState
      BY <2>1, <2>2, StepCommand DEF CommandStep, ActuatorObjects
    <3>2. UNCHANGED <<scCore, response>>
      BY <2>1, <2>2, StepFaults
    <3>. QED  BY <1>1, <3>1, <3>2 DEF RestInv, Resting
  <2>3. CASE \E next : Leave(s, next)
    <3>1. acRx' = acRx /\ UNCHANGED scCore /\ ~response'
      BY <2>1, <2>3 DEF Leave, ExitAC, ExitCore, RestInv, Resting
    <3>. QED  BY <1>1, <3>1 DEF RestInv, Resting
  <2>. QED  BY <2>1, <2>2, <2>3
<1>. QED  BY <1>2, <1>3, <1>4, TickCases

LEMMA AlwaysRest == Spec /\ []OneOperation => []RestInv
<1>1. Init => RestInv
  BY DEF Init, InitSequence, AC_T!InitActuator, RestInv
<1>2. CommandsTyped /\ HandsKnown /\ OneInv /\ OneOperation /\ RestInv /\ [Next]_welder => RestInv'
  <2>. SUFFICES ASSUME CommandsTyped, HandsKnown, OneInv, OneOperation, RestInv, [Next]_welder
                PROVE  RestInv'
    OBVIOUS
  <2>1. CASE AuxClock
    BY <2>1, TickRest DEF AuxClock, HandsKnown
  <2>2. CASE ControlTask
    <3>1. UNCHANGED <<acRx, acTx>>
      BY <2>2, ControlCases DEF HandsKnown, rx, tx
    <3>2. ListBuilt => RestInv'
      BY <3>1 DEF ListBuilt, RestInv, Resting, faults
    <3>3. ObjectEnded => RestInv'
      BY <3>1 DEF ObjectEnded, RestInv, Resting, faults
    <3>4. ObjectsKept => RestInv'
      BY <3>1 DEF ObjectsKept, RestInv, Resting
    <3>. QED  BY <2>2, <3>2, <3>3, <3>4, ControlCases DEF HandsKnown
  <2>3. CASE Elsewhere
    <3>. SUFFICES ASSUME Resting PROVE RestInv'
      BY <2>3, SequenceKept DEF RestInv, Resting
    <3>1. acRx'.MasterState = acRx.MasterState /\ ~response' /\ scCore' = {}
      BY <2>3, CommandsKept, RecordKept DEF RestInv
    <3>2. acTx'.ACState \in {"AC_POWERUP", "AC_READY", "AC_ALARM", "AC_ESTOP"}
      <4>1. CASE ActuatorTask /\ AC_T!ACRun
        <5>1. PICK core : ActuatorTurn(core)
          BY <4>1, ActuatorRunCases
        <5>. QED  BY <5>1 DEF ActuatorTurn, RestInv, AC
      <4>2. CASE ~ActuatorTask \/ AC_T!ACReceive
        BY <4>2, ActuatorKept DEF RestInv, AC_T!ACReceive, AC_T!machine
      <4>. QED  BY <4>1, <4>2 DEF ActuatorTask
    <3>. QED  BY <3>1, <3>2 DEF RestInv
  <2>. QED  BY <2>1, <2>2, <2>3 DEF Next, Elsewhere
<1>. QED  BY <1>1, <1>2, AlwaysSequence, AlwaysOne, CommandsCorrect, PTL DEF Spec

-----------------------------------------------------------------------------
(* The counters of the objects stay within their times.                    *)

Timers ==
  [timeout : 0 .. MaxTime, delay : 0 .. MaxTime, wentDown : BOOLEAN, wentUp : BOOLEAN]

\* A weld that goes on may count once more, even one that was refused its place and
\* finds the count of another object.
TimersTyped ==
  /\ timers \in Timers
  /\ actions["WELD_SONIC_ON"] = "LOOP" => timers.timeout < MaxTime

LEMMA TimeBounds ==
  ASSUME setup \in Setups
  PROVE  /\ MaxTime \in Nat /\ 0 < MaxTime
         /\ {AbsMaxTime, PreBurst, AfterBurst, AfterBurstDelay, SqueezeTime, HoldTime, PressureDelay,
             SeekTime, CalibrateDelay, BeepDelay} \subseteq 0 .. MaxTime - 1
<1>1. setup \in SetupsAllowed
  BY SequenceAssumption
<1>2. {AbsMaxTime, TimeMin, PreBurst, AfterBurst, AfterBurstDelay, TestSeekTime} \subseteq Nat
  BY <1>1 DEF SetupsAllowed, AbsMaxTime, TimeMin, PreBurst, AfterBurst, AfterBurstDelay, TestSeekTime
<1>3. {TimeMax, SqueezeTime, HoldTime, PressureDelay, WeldSeekTime, CalibrateDelay, BeepDelay}
        \subseteq Nat
  BY SequenceAssumption
<1>4. SeekTime \in {TestSeekTime, WeldSeekTime}
  BY DEF SeekTime
<1>5. MaxTime \in Nat /\ 0 < MaxTime
  BY <1>2, <1>3 DEF MaxTime
<1>6. \A d \in {AbsMaxTime, PreBurst, AfterBurst, AfterBurstDelay, SqueezeTime} : d < MaxTime
  BY <1>2, <1>3 DEF MaxTime
<1>7. \A d \in {HoldTime, PressureDelay, TestSeekTime, WeldSeekTime, CalibrateDelay, BeepDelay} :
         d < MaxTime
  BY <1>2, <1>3 DEF MaxTime
<1>. QED  BY <1>2, <1>3, <1>4, <1>5, <1>6, <1>7

\* A pass of an object other than the weld counts at most up to its own time.
TimersStep ==
  /\ timers' \in Timers
  /\ timers'.timeout <= timers.timeout \/ timers'.timeout < MaxTime

LEMMA StepTimers ==
  ASSUME setup \in Setups, TimersTyped, NEW s, Step(s)
  PROVE  /\ timers' \in Timers
         /\ s # "WELD_SONIC_ON" => TimersStep
         /\ s = "WELD_SONIC_ON" /\ actions \in [SCSTATES -> StepActions]
              /\ actions'["WELD_SONIC_ON"] = "LOOP" => timers'.timeout < MaxTime
<1>. DEFINE m == MaxTime
<1>1. /\ m \in Nat /\ 0 < m
      /\ {AbsMaxTime, PreBurst, AfterBurst, AfterBurstDelay, SqueezeTime, HoldTime, PressureDelay,
          SeekTime, CalibrateDelay, BeepDelay} \subseteq 0 .. m - 1
  BY TimeBounds
<1>2. timers \in Timers /\ Timers = [timeout : 0 .. m, delay : 0 .. m, wentDown : BOOLEAN,
                                      wentUp : BOOLEAN]
  BY DEF TimersTyped, Timers
<1>3. TimersStep <=> /\ timers' \in [timeout : 0 .. m, delay : 0 .. m, wentDown : BOOLEAN,
                                      wentUp : BOOLEAN]
                     /\ timers'.timeout <= timers.timeout \/ timers'.timeout < m
  <2>1. m' = m \/ TRUE
    OBVIOUS
  <2>. QED  BY <1>2 DEF TimersStep
<1>. HIDE DEF m
<1>4. UNCHANGED timers => TimersStep
  BY <1>1, <1>2, <1>3
<1>5. timers' = NoTime => TimersStep /\ timers'.timeout = 0
  BY <1>1, <1>2, <1>3 DEF NoTime
<1>6. ASSUME NEW d \in 0 .. m - 1, timers.timeout < d,
             timers' = [timers EXCEPT !.timeout = @ + 1]
      PROVE  TimersStep
  <2>1. timers' = [timeout |-> timers.timeout + 1, delay |-> timers.delay,
                   wentDown |-> timers.wentDown, wentUp |-> timers.wentUp]
    BY <1>2, <1>6
  <2>2. timers.timeout + 1 \in 0 .. m /\ timers.timeout + 1 < m
    BY <1>1, <1>2, <1>6
  <2>. QED  BY <1>2, <1>3, <2>1, <2>2
<1>7. ASSUME NEW d \in 0 .. m - 1, timers.delay < d,
             \/ timers' = [timers EXCEPT !.delay = @ + 1]
             \/ timers' = [timers EXCEPT !.delay = @ + 1, !.wentDown = FALSE]
      PROVE  TimersStep
  <2>1. \E down \in BOOLEAN :
           timers' = [timeout |-> timers.timeout, delay |-> timers.delay + 1,
                      wentDown |-> down, wentUp |-> timers.wentUp]
    BY <1>2, <1>7
  <2>2. timers.delay + 1 \in 0 .. m /\ timers.timeout <= timers.timeout
    BY <1>1, <1>2, <1>7
  <2>. QED  BY <1>2, <1>3, <2>1, <2>2
<1>8. ASSUME \/ timers' = [timers EXCEPT !.wentDown = TRUE]
             \/ timers' = [timers EXCEPT !.wentDown = FALSE]
             \/ timers' = [timers EXCEPT !.wentUp = TRUE]
      PROVE  TimersStep
  <2>1. \E down, up \in BOOLEAN :
           timers' = [timeout |-> timers.timeout, delay |-> timers.delay,
                      wentDown |-> down, wentUp |-> up]
    BY <1>2, <1>8
  <2>2. timers.timeout <= timers.timeout
    BY <1>1, <1>2
  <2>. QED  BY <1>2, <1>3, <2>1, <2>2
<1>9. Proceed(s) \/ GiveUp(s) \/ Remain \/ Abort(s) \/ Fail(s) => UNCHANGED timers
  BY DEF Proceed, GiveUp, Remain, Abort, Fail
<1>10. CASE actions[s] = "INIT" /\ Enter(s)
  <2>1. timers' = NoTime
    BY <1>10 DEF Enter, EnterWeld
  <2>. QED  BY <1>1, <1>2, <1>3, <1>5, <2>1 DEF m
<1>11. CASE actions[s] = "FAIL" /\ Fail(s)
  <2>1. TimersStep
    BY <1>4, <1>9, <1>11
  <2>2. s = "WELD_SONIC_ON" /\ actions \in [SCSTATES -> StepActions]
          => actions'["WELD_SONIC_ON"] # "LOOP"
    BY <1>11 DEF Fail, SetAction, SCSTATES
  <2>. QED  BY <1>2, <1>3, <2>1, <2>2
<1>12. CASE actions[s] = "LOOP" /\ Loop(s) /\ s # "WELD_SONIC_ON"
  <2>1. ASSUME NEW d \in 0 .. m - 1, CountTime, timers.timeout < d PROVE TimersStep
    BY <1>6, <2>1 DEF CountTime
  <2>2. PreReadyLoop(s) \/ ReadyLoop(s) \/ ReadyForTriggerLoop(s) \/ TestSonicOnLoop(s)
          => TimersStep
    BY <1>4, <1>9 DEF PreReadyLoop, ReadyLoop, ReadyForTriggerLoop, TestSonicOnLoop
  <2>3. ASSUME NEW d \in 0 .. m - 1, DelayLoop(s, d) PROVE TimersStep
    BY <1>4, <1>9, <2>1, <2>3 DEF DelayLoop
  <2>4. SeekSonicOnLoop(s) => TimersStep
    BY <1>1, <1>4, <1>9, <2>1 DEF SeekSonicOnLoop
  <2>5. ASSUME NEW ctrl, NEW d \in 0 .. m - 1, NEW acState,
               BurstStarts(s, ctrl) \/ BurstWaits(s) \/ BurstRuns(s, ctrl, d) \/ StrokeEnds(s, acState)
        PROVE  TimersStep
    BY <1>4, <1>6, <2>5 DEF BurstStarts, BurstWaits, BurstRuns, StrokeEnds
  <2>6. WaitForTriggerLoop(s) => TimersStep
    BY <1>1, <1>4, <1>9, <2>5 DEF WaitForTriggerLoop
  <2>7. AfterBurstWait(s) => TimersStep
    <3>1. timers.delay < AfterBurstDelay <=> ~DelayEnds
      BY <1>1, <1>2 DEF DelayEnds
    <3>. QED  BY <1>1, <1>7, <2>5, <3>1 DEF AfterBurstWait
  <2>8. WaitForReadyPositionLoop(s) => TimersStep
    BY <1>1, <1>4, <1>9, <2>5, <2>7 DEF WaitForReadyPositionLoop
  <2>9. CalibrateLoop(s) => TimersStep
    <3>1. \A count \in {timers.timeout, timers.delay} :
             count < CalibrateDelay <=> ~CalibrationDelayEnds(count)
      BY <1>1, <1>2 DEF CalibrationDelayEnds
    <3>. QED  BY <1>1, <1>4, <1>7, <1>8, <1>9, <2>1, <3>1 DEF CalibrateLoop
  <2>10. AlarmLoop(s) => TimersStep
    BY <1>1, <1>5, <1>9, <1>4, <2>1 DEF AlarmLoop
  <2>11. EstopLoop(s) => TimersStep
    BY <1>4, <1>9 DEF EstopLoop
  <2>. QED
    BY <1>1, <1>2, <1>3, <1>12, <2>2, <2>3, <2>4, <2>6, <2>8, <2>9, <2>10, <2>11 DEF Loop
<1>13. CASE actions[s] = "LOOP" /\ Loop(s) /\ s = "WELD_SONIC_ON"
  <2>1. WeldSonicOnLoop("WELD_SONIC_ON") /\ timers.timeout < m
    BY <1>13 DEF Loop, TimersTyped, m
  <2>2. timers' = [timers EXCEPT !.timeout = WeldTime] /\ WeldTime = timers.timeout + 1
    BY <2>1 DEF WeldSonicOnLoop, WeldTime
  <2>3. timers' \in Timers /\ timers'.timeout = WeldTime
    BY <1>1, <1>2, <2>1, <2>2
  <2>4. ASSUME actions \in [SCSTATES -> StepActions], actions'["WELD_SONIC_ON"] = "LOOP"
        PROVE  WeldTime < m
    <3>1. ~(WeldTime > AbsMaxTime)
      BY <1>1, <1>2, <2>1, <2>2, <2>4 DEF WeldSonicOnLoop, SetAction, SCSTATES
    <3>. QED  BY <1>1, <1>2, <2>2, <3>1
  <2>. QED  BY <1>13, <2>3, <2>4 DEF m
<1>. QED  BY <1>10, <1>11, <1>12, <1>13 DEF Step

LEMMA TickTimers ==
  ASSUME setup \in Setups, setup' = setup, CommandsTyped, SequenceInv, TimersTyped, RunStateMachine
  PROVE  TimersTyped'
<1>1. MaxTime' = MaxTime /\ Timers' = Timers
  BY DEF MaxTime, AbsMaxTime, TimeMin, PreBurst, AfterBurst, AfterBurstDelay, TestSeekTime, Timers
<1>2. MaxTime \in Nat /\ 0 < MaxTime /\ timers.timeout \in 0 .. MaxTime
  BY TimeBounds DEF TimersTyped, Timers
<1>3. CASE UNCHANGED <<timers, actions>>
  BY <1>1, <1>3 DEF TimersTyped
<1>4. CASE timers' = NoTime
  BY <1>1, <1>2, <1>4 DEF TimersTyped, Timers, NoTime
<1>5. ASSUME NEW i, NEW s, RunsObject(i, s) PROVE TimersTyped'
  <2>1. s \in SCSTATES
    BY <1>5, OthersFresh
  <2>2. CASE Step(s)
    <3>1. PICK a \in StepActions \ {"INIT"} : actions' = [actions EXCEPT ![s] = a]
      BY <2>1, <2>2, StepEffect
    <3>2. timers' \in Timers
      BY <2>2, StepTimers
    <3>3. CASE s = "WELD_SONIC_ON"
      BY <1>1, <2>2, <3>2, <3>3, StepTimers DEF TimersTyped, SequenceInv
    <3>4. CASE s # "WELD_SONIC_ON"
      <4>1. actions'["WELD_SONIC_ON"] = actions["WELD_SONIC_ON"]
        BY <3>1, <3>4 DEF SequenceInv
      <4>2. timers'.timeout <= timers.timeout \/ timers'.timeout < MaxTime
        BY <2>2, <3>4, StepTimers DEF TimersStep
      <4>3. timers'.timeout \in 0 .. MaxTime
        BY <3>2 DEF Timers
      <4>. QED  BY <1>1, <1>2, <3>2, <4>1, <4>2, <4>3 DEF TimersTyped
    <3>. QED  BY <3>3, <3>4
  <2>3. CASE \E next : Leave(s, next)
    <3>1. timers' = timers /\ actions' = [actions EXCEPT ![s] = "INIT"]
      BY <2>3 DEF Leave, SetAction
    <3>2. actions'["WELD_SONIC_ON"] = "LOOP" => actions["WELD_SONIC_ON"] = "LOOP"
      BY <2>1, <3>1 DEF SequenceInv
    <3>. QED  BY <1>1, <3>1, <3>2 DEF TimersTyped
  <2>. QED  BY <1>5, <2>2, <2>3 DEF RunsObject
<1>6. \/ UNCHANGED <<timers, actions>> \/ timers' = NoTime \/ \E i, s : RunsObject(i, s)
  <2>1. isLoading => UNCHANGED <<timers, actions>>
    BY DEF RunStateMachine
  <2>2. RunEstop => timers' = NoTime
    BY DEF RunEstop
  <2>. QED  BY <2>1, <2>2, TickCases
<1>. QED  BY <1>3, <1>4, <1>5, <1>6

\* For every interleaving, late tasks and operations that replace each other included.
LEMMA AlwaysTimers == Spec => []TimersTyped
<1>1. Init => TimersTyped
  <2>. SUFFICES ASSUME Init PROVE TimersTyped
    OBVIOUS
  <2>1. setup \in Setups /\ timers = NoTime
    BY DEF Init, InitSequence
  <2>2. MaxTime \in Nat /\ 0 < MaxTime
    BY <2>1, TimeBounds
  <2>. QED  BY <2>1, <2>2 DEF TimersTyped, Timers, NoTime
<1>2. CommandsTyped /\ HandsKnown /\ TimersTyped /\ [Next]_welder => TimersTyped'
  <2>. SUFFICES ASSUME CommandsTyped, HandsKnown, TimersTyped, [Next]_welder PROVE TimersTyped'
    OBVIOUS
  <2>1. setup \in Setups /\ actions \in [SCSTATES -> StepActions] /\ SequenceInv
    BY DEF HandsKnown, SequenceInv
  <2>2. MaxTime \in Nat /\ 0 < MaxTime
    BY <2>1, TimeBounds
  <2>3. setup' = setup => MaxTime' = MaxTime /\ Timers' = Timers
    BY DEF MaxTime, AbsMaxTime, TimeMin, PreBurst, AfterBurst, AfterBurstDelay, TestSeekTime, Timers
  <2>4. CASE AuxClock
    BY <2>1, <2>4, TickTimers DEF AuxClock
  <2>5. CASE ControlTask
    <3>1. setup' = setup
      BY <2>5 DEF ControlTask
    <3>2. \/ timers' = NoTime
          \/ timers' = timers /\ (actions'["WELD_SONIC_ON"] = "LOOP"
                                     => actions["WELD_SONIC_ON"] = "LOOP")
      <4>1. ASSUME NEW op, LoadBegin(op) PROVE UNCHANGED <<timers, actions>>
        BY <4>1 DEF LoadBegin
      <4>2. ASSUME NEW s, ExecuteStateAction(s) PROVE timers' = timers /\ SetAction(s, "JUMP")
        BY <4>2 DEF ExecuteStateAction
      <4>3. LoadFinish => UNCHANGED <<timers, actions>> \/ timers' = NoTime
        BY DEF LoadFinish, LoadRetry, LoadRefused, LoadDone
      <4>4. RunProcess => UNCHANGED <<timers, actions>>
        BY DEF RunProcess
      <4>5. \A s : SetAction(s, "JUMP") /\ actions'["WELD_SONIC_ON"] = "LOOP"
                     => actions["WELD_SONIC_ON"] = "LOOP"
        BY <2>1 DEF SetAction, SCSTATES
      <4>. QED  BY <2>5, <4>1, <4>2, <4>3, <4>4, <4>5 DEF ControlTask
    <3>3. CASE timers' = NoTime
      BY <2>2, <2>3, <3>1, <3>3 DEF TimersTyped, Timers, NoTime
    <3>. QED  BY <2>3, <3>1, <3>2, <3>3 DEF TimersTyped
  <2>6. CASE Elsewhere
    BY <2>3, <2>6, SequenceKept, RecordKept DEF TimersTyped
  <2>. QED  BY <2>4, <2>5, <2>6 DEF Next, Elsewhere
<1>. QED  BY <1>1, <1>2, AlwaysSequence, CommandsCorrect, PTL DEF Spec

-----------------------------------------------------------------------------
(* The calibration stroke.                                                 *)

\* The horn is down only where the actuator knows it.
HornInv ==
  /\ horn \in {"UP", "DOWN"}
  /\ horn = "DOWN" => acTx.ACState \in {"AC_DOWN_STROKE", "AC_HOLD", "AC_ALARM", "AC_ESTOP"}

LEMMA AlwaysHorn == Spec => []HornInv
<1>1. Init => HornInv
  BY DEF Init, AC_T!InitActuator, HornInv
<1>2. HornInv /\ [Next]_welder => HornInv'
  <2>. SUFFICES ASSUME HornInv, [Next]_welder PROVE HornInv'
    OBVIOUS
  <2>1. CASE ~ActuatorTask
    BY <2>1, ActuatorKept DEF HornInv
  <2>2. CASE AC_T!ACReceive
    BY <2>2 DEF AC_T!ACReceive, AC_T!machine, HornInv
  <2>3. CASE AC_T!ACRun
    <3>1. PICK core : ActuatorTurn(core)
      BY <2>3, ActuatorRunCases
    <3>. QED  BY <3>1 DEF ActuatorTurn, HornInv, AC
  <2>. QED  BY <2>1, <2>2, <2>3 DEF ActuatorTask
<1>. QED  BY <1>1, <1>2, PTL DEF Spec

\* The horn has rested on the part for the whole delay.
Measured == actions["CALIBRATE"] = "LOOP" /\ timers.delay >= CalibrateDelay

CalInv ==
  operation = "HEIGHT_CALIBRATE_READY" =>
    /\ AC("AC_RETURN_STROKE") => Measured
    /\ acRx.MasterState = "RETURN_STROKE"
         => Measured \/ acTx.ACState \notin {"AC_HOLD", "AC_DOWN_STROKE"}
    /\ actions["CALIBRATE"] = "LOOP" /\ timers.wentUp => timers.delay >= CalibrateDelay

LEMMA CalibrateRuns ==
  ASSUME SequenceInv, OneInv, actions["CALIBRATE"] # "INIT"
  PROVE  operation = "HEIGHT_CALIBRATE_READY" /\ scObj = "CALIBRATE"
<1>1. Under("CALIBRATE")
  BY DEF OneInv, ActiveInv, SCSTATES
<1>. QED  BY <1>1, ObjectOf DEF Under

\* A pass of the calibration, where it stands, how long it has rested, and when it ends.
LEMMA CalibratePass ==
  ASSUME timers \in Timers, CalibrateDelay \in Nat, actions \in [SCSTATES -> StepActions],
         CalibrateLoop("CALIBRATE")
  PROVE  /\ timers'.delay >= CalibrateDelay \/ timers.delay < CalibrateDelay
         /\ timers'.wentUp => timers.wentUp \/ AC("AC_RETURN_STROKE")
         /\ acTx.ACState \in {"AC_DOWN_STROKE", "AC_HOLD", "AC_RETURN_STROKE"}
              => actions' = actions
         /\ actions'["CALIBRATE"] = "JUMP" /\ actions["CALIBRATE"] # "JUMP"
              => AC("AC_READY") /\ timers.wentUp
         /\ \/ acRx' = acRx
            \/ acRx'.MasterState = "DOWN_STROKE"
            \/ acRx'.MasterState = "RETURN_STROKE" /\ AC("AC_HOLD") /\ actions' = actions
               /\ timers'.delay >= CalibrateDelay
<1>. DEFINE s == "CALIBRATE"
<1>1. timers.delay \in Nat /\ timers.timeout \in Nat /\ timers.wentUp \in BOOLEAN
  BY DEF Timers
<1>2. CASE AC("AC_ALARM") /\ GiveUp(s)
  <2>1. acRx' = acRx /\ timers' = timers /\ actions' = [actions EXCEPT ![s] = "FAIL"]
    BY <1>2 DEF GiveUp, SetAction, rx
  <2>2. actions'[s] = "FAIL"
    BY <2>1 DEF SCSTATES
  <2>. QED  BY <1>1, <1>2, <2>1, <2>2 DEF AC
<1>3. CASE AC("AC_READY") /\ timers.wentUp /\ Proceed(s)
  BY <1>1, <1>3 DEF Proceed, AC, rx
<1>4. CASE Remain
  BY <1>1, <1>4 DEF Remain, rx
<1>5. CASE AC("AC_READY") /\ CountTime
  <2>1. timers'.delay = timers.delay /\ timers'.wentUp = timers.wentUp /\ acRx' = acRx
        /\ actions' = actions
    BY <1>5 DEF CountTime, Timers, rx
  <2>. QED  BY <1>1, <2>1
<1>6. CASE /\ acRx' = Order(acRx, "DOWN_STROKE", {}, {"CTRL_PART_CONTACT_ENABLE"})
           /\ UNCHANGED <<timers, actions>>
  BY <1>1, <1>6 DEF Order
<1>7. CASE AC("AC_DOWN_STROKE") /\ timers' = [timers EXCEPT !.wentDown = TRUE]
           /\ UNCHANGED <<rx, actions>>
  <2>1. timers'.delay = timers.delay /\ timers'.wentUp = timers.wentUp
    BY <1>7 DEF Timers
  <2>. QED  BY <1>1, <1>7, <2>1 DEF rx
<1>8. CASE /\ AC("AC_HOLD") /\ ~CalibrationDelayEnds(timers.delay)
           /\ timers' = [timers EXCEPT !.delay = @ + 1, !.wentDown = FALSE]
           /\ UNCHANGED <<rx, actions>>
  <2>1. timers'.wentUp = timers.wentUp /\ timers.delay < CalibrateDelay
    BY <1>1, <1>8 DEF Timers, CalibrationDelayEnds
  <2>. QED  BY <1>1, <1>8, <2>1 DEF rx
<1>9. CASE /\ AC("AC_HOLD") /\ CalibrationDelayEnds(timers.delay)
            /\ acRx' = Order(acRx, "RETURN_STROKE", {}, {"CTRL_ULS_ENABLE"})
            /\ timers' = [timers EXCEPT !.wentDown = FALSE] /\ UNCHANGED actions
  <2>1. timers'.wentUp = timers.wentUp /\ timers'.delay = timers.delay
        /\ timers.delay >= CalibrateDelay
    BY <1>1, <1>9 DEF Timers, CalibrationDelayEnds
  <2>. QED  BY <1>1, <1>9, <2>1 DEF Order
<1>10. CASE AC("AC_RETURN_STROKE") /\ timers' = [timers EXCEPT !.wentUp = TRUE]
            /\ UNCHANGED <<rx, actions>>
  <2>1. timers'.delay = timers.delay
    BY <1>10 DEF Timers
  <2>. QED  BY <1>1, <1>10, <2>1 DEF rx
<1>. QED
  BY <1>2, <1>3, <1>4, <1>5, <1>6, <1>7, <1>8, <1>9, <1>10 DEF CalibrateLoop

LEMMA TickCalibrate ==
  ASSUME setup \in Setups, CommandsTyped, SequenceInv, OneInv, TimersTyped, CalInv, RunStateMachine
  PROVE  CalInv'
<1>. SUFFICES ASSUME operation = "HEIGHT_CALIBRATE_READY" PROVE CalInv'
  BY TickCases DEF CalInv
<1>1. UNCHANGED <<operation, acTx>> /\ operation # NoOperation
  BY TickCases DEF NoOperation
<1>2. CalibrateDelay \in Nat /\ timers.delay \in Nat /\ timers \in Timers
  BY TimeBounds DEF TimersTyped, Timers
<1>3. CASE UNCHANGED <<rx, actions, timers>>
  BY <1>1, <1>3 DEF CalInv, Measured, AC, rx
<1>4. CASE EstopDue /\ RunEstop
  <2>1. acRx' = ExitAC(scObj) /\ timers' = NoTime /\ AC("AC_ESTOP")
    BY <1>4 DEF RunEstop, EstopDue
  <2>. QED  BY <1>1, <2>1 DEF CalInv, Measured, AC, NoTime
<1>5. ASSUME NEW i, NEW s, RunsObject(i, s) PROVE CalInv'
  <2>1. /\ s \in SCSTATES
        /\ actions[s] # "INIT" => scObj = s
        /\ actions[s] = "INIT" => actions[scObj] = "INIT"
    BY <1>1, <1>5, ObjectTick
  <2>2. actions["CALIBRATE"] # "INIT" => s = "CALIBRATE"
    BY <2>1, CalibrateRuns
  <2>3. CASE Step(s) /\ s # "CALIBRATE"
    <3>1. PICK a \in StepActions \ {"INIT"} : actions' = [actions EXCEPT ![s] = a]
      BY <2>1, <2>3, StepEffect
    <3>2. actions["CALIBRATE"] = "INIT" /\ actions'["CALIBRATE"] = "INIT"
      BY <2>1, <2>2, <2>3, <3>1 DEF SequenceInv, SCSTATES
    <3>3. acRx'.MasterState = "RETURN_STROKE" => acRx.MasterState = "RETURN_STROKE"
      BY <2>3, StepCommand DEF CommandStep, ActuatorObjects
    <3>. QED  BY <1>1, <3>2, <3>3 DEF CalInv, Measured, AC
  <2>4. CASE Step(s) /\ s = "CALIBRATE" /\ actions[s] = "INIT"
    <3>1. timers' = NoTime /\ acRx'.MasterState = acRx.MasterState
      BY <2>4 DEF Step, Enter, EnterAC, Bits, Order
    <3>. QED  BY <1>1, <2>4, <3>1 DEF CalInv, Measured, AC, NoTime
  <2>5. CASE Step(s) /\ s = "CALIBRATE" /\ actions[s] = "LOOP"
    <3>1. CalibrateLoop("CALIBRATE")
      BY <2>5 DEF Step, Loop
    <3>2. /\ timers'.delay >= CalibrateDelay \/ timers.delay < CalibrateDelay
          /\ timers'.wentUp => timers.wentUp \/ AC("AC_RETURN_STROKE")
          /\ acTx.ACState \in {"AC_DOWN_STROKE", "AC_HOLD", "AC_RETURN_STROKE"}
              => actions' = actions
          /\ \/ acRx' = acRx
             \/ acRx'.MasterState = "DOWN_STROKE"
             \/ acRx'.MasterState = "RETURN_STROKE" /\ AC("AC_HOLD") /\ actions' = actions
                /\ timers'.delay >= CalibrateDelay
      BY <1>2, <3>1, CalibratePass DEF SequenceInv
    <3>3. /\ AC("AC_RETURN_STROKE") => timers.delay >= CalibrateDelay
          /\ timers.wentUp => timers.delay >= CalibrateDelay
          /\ acRx.MasterState = "RETURN_STROKE"
               => timers.delay >= CalibrateDelay \/ acTx.ACState \notin {"AC_HOLD", "AC_DOWN_STROKE"}
      BY <2>5 DEF CalInv, Measured
    <3>4. timers.delay >= CalibrateDelay => timers'.delay >= CalibrateDelay
      BY <1>2, <3>2
    <3>5. (AC("AC_RETURN_STROKE") => Measured)'
      BY <1>1, <2>5, <3>2, <3>3, <3>4 DEF Measured, AC
    <3>6. timers'.wentUp => timers'.delay >= CalibrateDelay
      BY <3>2, <3>3, <3>4
    <3>7. acRx'.MasterState = "RETURN_STROKE"
            => Measured' \/ acTx'.ACState \notin {"AC_HOLD", "AC_DOWN_STROKE"}
      BY <1>1, <2>5, <3>2, <3>3, <3>4 DEF Measured, AC
    <3>. QED  BY <3>5, <3>6, <3>7 DEF CalInv
  <2>6. CASE \/ Step(s) /\ s = "CALIBRATE" /\ actions[s] = "FAIL"
             \/ actions[s] \in {"JUMP", "ALJUMPNORM", "ABORT"} /\ \E next : Leave(s, next)
    <3>1. actions'["CALIBRATE"] # "LOOP"
      BY <2>1, <2>2, <2>6 DEF Step, Fail, Leave, SetAction, SequenceInv, SCSTATES
    <3>2. actions["CALIBRATE"] # "LOOP"
      BY <2>2, <2>6
    <3>3. acRx'.MasterState \in {acRx.MasterState, "NO_STATE"}
      BY <2>6 DEF Step, Fail, Leave, ExitAC, Order, rx
    <3>. QED  BY <1>1, <3>1, <3>2, <3>3 DEF CalInv, Measured, AC
  <2>. QED  BY <1>5, <2>1, <2>3, <2>4, <2>5, <2>6, ObjectTick DEF Step
<1>6. isLoading => UNCHANGED <<rx, actions, timers>>
  BY DEF RunStateMachine
<1>. QED  BY <1>3, <1>4, <1>5, <1>6, TickCases

LEMMA ActuatorCalibrate ==
  ASSUME SequenceInv, OneInv, AskedInv, CalInv, operation = "HEIGHT_CALIBRATE_READY",
         NEW core, ActuatorTurn(core),
         UNCHANGED <<operation, actions, timers>>, acRx'.MasterState = acRx.MasterState
  PROVE  CalInv'
<1>1. acRx.MasterState # "WAIT_FOR_READY_POSITION"
  <2>. SUFFICES ASSUME scObj = "WAIT_FOR_READY_POSITION", actions[scObj] # "INIT" PROVE FALSE
    BY DEF AskedInv, StrokeInv
  <2>1. Under("WAIT_FOR_READY_POSITION")
    BY DEF OneInv, ActiveInv, NoOperation
  <2>. QED  BY <2>1, ObjectOf DEF Under
<1>2. acTx'.ACState = "AC_RETURN_STROKE"
        => AC("AC_RETURN_STROKE") \/ (AC("AC_HOLD") /\ acRx.MasterState = "RETURN_STROKE")
  BY <1>1 DEF ActuatorTurn, AC
<1>3. acRx.MasterState = "RETURN_STROKE" /\ acTx'.ACState \in {"AC_HOLD", "AC_DOWN_STROKE"}
        => acTx.ACState \in {"AC_HOLD", "AC_DOWN_STROKE"}
  BY DEF ActuatorTurn, AC
<1>. QED  BY <1>2, <1>3 DEF CalInv, Measured, AC

LEMMA AlwaysCalibrate == Spec /\ []OneOperation => []CalInv
<1>1. Init => CalInv
  BY DEF Init, InitSequence, CalInv, NoOperation
<1>2. CommandsTyped /\ HandsKnown /\ OneInv /\ OneOperation /\ AskedInv /\ RestInv /\ TimersTyped
        /\ CalInv /\ [Next]_welder => CalInv'
  <2>. SUFFICES ASSUME CommandsTyped, HandsKnown, OneInv, OneOperation, AskedInv, RestInv,
                       TimersTyped, CalInv, [Next]_welder
                PROVE  CalInv'
    OBVIOUS
  <2>1. CASE AuxClock
    BY <2>1, TickCalibrate DEF AuxClock, HandsKnown
  <2>2. CASE ControlTask
    <3>1. UNCHANGED <<acRx, acTx>>
      BY <2>2, ControlCases DEF HandsKnown, rx, tx
    <3>2. CASE ListBuilt
      <4>1. actions'["CALIBRATE"] = "INIT" /\ Resting
        BY <3>2 DEF ListBuilt, SCSTATES, Resting
      <4>. QED  BY <3>1, <4>1 DEF RestInv, CalInv, AC
    <3>3. CASE ObjectEnded
      <4>1. actions'["CALIBRATE"] = actions["CALIBRATE"]
        BY <3>3 DEF ObjectEnded, HandsKnown, SequenceInv
      <4>. QED  BY <3>1, <3>3, <4>1 DEF ObjectEnded, CalInv, Measured, AC
    <3>4. CASE ObjectsKept
      BY <3>1, <3>4 DEF ObjectsKept, CalInv, Measured, AC
    <3>. QED  BY <2>2, <3>2, <3>3, <3>4, ControlCases DEF HandsKnown
  <2>3. CASE Elsewhere
    <3>1. /\ UNCHANGED <<operation, actions, timers>>
          /\ acRx'.MasterState = acRx.MasterState
      BY <2>3, SequenceKept, CommandsKept, RecordKept
    <3>2. CASE ActuatorTask /\ AC_T!ACRun
      <4>1. PICK core : ActuatorTurn(core)
        BY <3>2, ActuatorRunCases
      <4>. QED  BY <3>1, <4>1, ActuatorCalibrate DEF HandsKnown, CalInv
    <3>3. CASE ~ActuatorTask \/ AC_T!ACReceive
      <4>1. acTx' = acTx
        BY <3>3, ActuatorKept DEF AC_T!ACReceive, AC_T!machine
      <4>. QED  BY <3>1, <4>1 DEF CalInv, Measured, AC
    <3>. QED  BY <3>2, <3>3 DEF ActuatorTask
  <2>. QED  BY <2>1, <2>2, <2>3 DEF Next, Elsewhere
<1>. QED
  BY <1>1, <1>2, AlwaysSequence, AlwaysOne, AlwaysAsked, AlwaysRest, AlwaysTimers,
     CommandsCorrect, PTL DEF Spec

\* A calibration ends well only with the horn lifted after a whole delay on the part,
\* through every alarm, E-stop and reload of the calibration, and for tasks that are
\* late by any number of ticks.
THEOREM CalibrationsMeasured == Spec /\ []OneOperation => CalibrationMeasured
<1>. DEFINE A == actions["CALIBRATE"] = "LOOP" /\ actions'["CALIBRATE"] = "JUMP"
                   => timers.delay >= CalibrateDelay /\ horn = "UP"
<1>1. CommandsTyped /\ HandsKnown /\ OneInv /\ OneOperation /\ TimersTyped /\ HornInv /\ CalInv
        /\ [Next]_welder => [A]_welder
  <2>. SUFFICES ASSUME CommandsTyped, HandsKnown, OneInv, OneOperation, TimersTyped, HornInv, CalInv,
                       Next, actions["CALIBRATE"] = "LOOP", actions'["CALIBRATE"] = "JUMP"
                PROVE  timers.delay >= CalibrateDelay /\ horn = "UP"
    OBVIOUS
  <2>1. operation = "HEIGHT_CALIBRATE_READY" /\ scObj = "CALIBRATE" /\ operation # NoOperation
        /\ SequenceInv
    BY CalibrateRuns DEF HandsKnown, NoOperation
  <2>2. AuxClock
    <3>1. Elsewhere => actions' = actions
      BY SequenceKept
    <3>2. ~ControlTask
      BY <2>1, ControlCases DEF ListBuilt, ObjectEnded, ObjectsKept, SequenceInv, SCSTATES
    <3>. QED  BY <3>1, <3>2 DEF Next, Elsewhere
  <2>3. RunStateMachine
    BY <2>2 DEF AuxClock
  <2>4. PICK i, s : RunsObject(i, s)
    <3>1. ~RunEstop
      BY <2>1 DEF RunEstop, EstopNext, SequenceInv, SCSTATES
    <3>. QED  BY <2>1, <2>3, <3>1, TickCases
  <2>5. s = "CALIBRATE"
    BY <2>1, <2>4, ObjectTick
  <2>6. CalibrateLoop("CALIBRATE")
    BY <2>4, <2>5, ObjectTick, <2>1 DEF Step, Loop
  <2>7. AC("AC_READY") /\ timers.wentUp
    BY <2>1, <2>6, CalibratePass, TimeBounds DEF HandsKnown, TimersTyped, SequenceInv
  <2>. QED  BY <2>1, <2>7 DEF CalInv, HornInv, AC
<1>. QED
  BY <1>1, AlwaysSequence, AlwaysOne, AlwaysTimers, AlwaysHorn, AlwaysCalibrate, CommandsCorrect,
     PTL DEF Spec, CalibrationMeasured

-----------------------------------------------------------------------------
(* The part of a weld that went wrong.                                     *)

\* The horn is up, or the actuator is in one of the states that hold the part.
Safe == horn = "UP" \/ AC("AC_ALARM") \/ AC("AC_ESTOP")

\* The commands that lift the horn off the part.
LiftCommands == {"RETURN_STROKE", "WAIT_FOR_READY_POSITION", "PRE_READY"}

LockInv ==
  /\ scObj = "WELD_SONIC_ON" => operation = "WELD"
  /\ response => /\ acRx.MasterState = "NO_STATE"
                 /\ scObj = "WELD_SONIC_ON" \/ (scObj = "ESTOP" /\ actions["ESTOP"] = "LOOP")
  /\ operation = "HEIGHT_CALIBRATE_READY" => scCore = {} /\ ~response
  /\ LockOnAlarm /\ acRx.MasterState \in LiftCommands => scCore = {} \/ Safe
  /\ scObj = "ALARM" /\ actions["ALARM"] # "LOOP" => scCore = {}
  /\ scObj = "ESTOP" /\ actions["ESTOP"] # "LOOP" => scCore = {} \/ Safe

\* An object other than the weld leaves no response; and other than the seek and the
\* trigger it leaves the errors of the SC alone.
LEMMA ObjectFaults ==
  ASSUME NEW s, Step(s) \/ \E next : Leave(s, next), ~response
  PROVE  /\ s # "WELD_SONIC_ON" \/ Step(s) => ~response'
         /\ s \notin {"SEEK_SONIC_ON", "WAIT_FOR_TRIGGER", "WELD_SONIC_ON"} => scCore' = scCore
<1>1. CASE Step(s)
  BY <1>1, StepFaults
<1>2. CASE ~Step(s) /\ \E next : Leave(s, next)
  BY <1>2 DEF Leave, ExitCore
<1>. QED  BY <1>1, <1>2

\* PRE_READY is entered from the end of the list.
LEMMA PreReadyAfterEstop ==
  ASSUME SequenceInv, PlaceInv, NEW i, RunsObject(i, "PRE_READY"), actions["PRE_READY"] = "INIT"
  PROVE  scObj = "ESTOP"
<1>. DEFINE n == Len(List(operation))
<1>1. operation = "WELD" /\ i = 1 /\ operation # NoOperation /\ n = 11
  BY OthersFresh, ListLength DEF NoOperation
<1>2. List(operation)[n] = "ESTOP" /\ List(operation)[1] = "PRE_READY" /\ AlarmStateIndex = n - 1
  BY <1>1, WeldList, ClosingPair DEF SequenceInv, AlarmStateIndex
<1>3. scIndex \in {1, n + 1}
  BY <1>1 DEF RunsObject
<1>. HIDE DEF n
<1>4. CASE scIndex = 1
  BY <1>1, <1>2, <1>4 DEF PlaceInv, Under
<1>5. CASE scIndex = n + 1
  <2>1. ~Under(scObj)
    BY <1>1, <1>5 DEF Under, n
  <2>. QED  BY <1>1, <1>2, <1>5, <2>1 DEF PlaceInv, n
<1>. QED  BY <1>3, <1>4, <1>5

\* What makes the SC command a lift.
LEMMA LiftOrdered ==
  ASSUME CommandsTyped, NEW s, Step(s), acRx'.MasterState \in LiftCommands
  PROVE  \/ acRx'.MasterState = acRx.MasterState
         \/ s = "PRE_READY" /\ actions[s] = "INIT"
         \/ s = "WAIT_FOR_READY_POSITION" /\ actions[s] = "INIT" /\ ~Locked
         \/ s = "CALIBRATE"
<1>1. /\ acRx'.MasterState # acRx.MasterState /\ s # "CALIBRATE"
         => actions[s] = "INIT" /\ s \in ActuatorObjects /\ acRx'.MasterState = s
  BY StepCommand DEF CommandStep
<1>2. actions[s] = "INIT" /\ s = "WAIT_FOR_READY_POSITION" /\ Locked
        => acRx'.MasterState = acRx.MasterState
  BY DEF Step, Enter, EnterAC, Order
<1>. QED  BY <1>1, <1>2 DEF LiftCommands, ActuatorObjects

LEMMA ClockLock ==
  ASSUME setup \in Setups, CommandsTyped, SequenceInv, OneInv, AskedInv, RestInv, RestInv', HornInv,
         LockInv, ~response, AuxClock
  PROVE  LockInv'
<1>1. /\ UNCHANGED <<operation, acTx, horn, setup>> /\ RunStateMachine
      /\ LockOnAlarm' = LockOnAlarm /\ Safe' = Safe
  BY DEF AuxClock, RunStateMachine, tx, LockOnAlarm, Safe, AC
<1>2. CASE UNCHANGED <<rx, scObj, actions, scCore, response>>
  BY <1>1, <1>2 DEF LockInv, rx
<1>3. CASE EstopDue /\ RunEstop
  <2>1. /\ scObj \in SCSTATES /\ scObj # "ESTOP"
        /\ operation # NoOperation => isRunning /\ actions["ESTOP"] = "INIT"
    BY <1>3, EstopTick
  <2>2. /\ acRx' = ExitAC(scObj) /\ scObj' = "ESTOP"
        /\ actions' = [actions EXCEPT ![scObj] = "INIT", !["ESTOP"] = EstopNext(actions["ESTOP"])]
        /\ response' <=> scObj = "WELD_SONIC_ON"
        /\ scObj # "WELD_SONIC_ON" => scCore' = scCore
    BY <1>3 DEF RunEstop, ExitCore
  <2>3. operation # NoOperation => actions'["ESTOP"] = "LOOP"
    BY <2>1, <2>2 DEF EstopNext, SequenceInv, SCSTATES
  <2>4. operation = NoOperation => scCore' = {} /\ ~response'
    BY <1>1, <2>2 DEF RestInv, Resting, OneInv, ActiveInv
  <2>5. scObj = "WELD_SONIC_ON" => acRx'.MasterState = "NO_STATE" /\ operation = "WELD"
    <3>1. scObj = "WELD_SONIC_ON"
            => operation = "WELD" /\ acRx' = acRx /\ operation # "HEIGHT_CALIBRATE_READY" /\ ~Resting
      BY <2>1, <2>2 DEF LockInv, ExitAC, Resting, NoOperation
    <3>. QED  BY <3>1 DEF AskedInv, StrokeInv, ActuatorObjects
  <2>6. LockOnAlarm /\ acRx'.MasterState \in LiftCommands => scCore' = {} \/ Safe
    <3>1. acRx'.MasterState \in LiftCommands => acRx' = acRx
      BY <2>2 DEF ExitAC, Order, LiftCommands
    <3>2. scObj = "WELD_SONIC_ON" => acRx'.MasterState \notin LiftCommands
      BY <2>5 DEF LiftCommands
    <3>. QED  BY <2>2, <3>1, <3>2 DEF LockInv
  <2>. QED  BY <1>1, <2>2, <2>3, <2>4, <2>5, <2>6 DEF LockInv
<1>4. ASSUME NEW i, NEW s, RunsObject(i, s) PROVE LockInv'
  <2>1. /\ s \in SCSTATES /\ scObj' = s /\ isRunning'
        /\ operation = NoOperation => s \in {"ALARM", "ESTOP"}
        /\ operation # NoOperation /\ actions[s] # "INIT" => scObj = s
        /\ operation # NoOperation /\ actions[s] = "INIT" => actions[scObj] = "INIT"
        /\ operation # NoOperation /\ ~isRunning
             => actions[s] = "INIT" /\ s \in {"PRE_READY", "READY_FOR_TRIGGER"}
        /\ \/ Step(s) /\ \E a \in StepActions \ {"INIT"} : actions' = [actions EXCEPT ![s] = a]
           \/ actions[s] \in {"JUMP", "ALJUMPNORM", "ABORT"} /\ \E next : Leave(s, next)
    BY <1>4, ObjectTick
  <2>2. /\ s # "WELD_SONIC_ON" \/ Step(s) => ~response'
        /\ s \notin {"SEEK_SONIC_ON", "WAIT_FOR_TRIGGER", "WELD_SONIC_ON"} => scCore' = scCore
    BY <2>1, ObjectFaults
  <2>3. /\ i \in 1 .. Len(List(operation)) /\ s = List(operation)[i]
    BY <1>4 DEF RunsObject
  <2>4. /\ s \in {"WELD_SONIC_ON", "WAIT_FOR_TRIGGER", "WAIT_FOR_READY_POSITION"}
             => operation = "WELD"
        /\ s = "CALIBRATE" => operation = "HEIGHT_CALIBRATE_READY"
    BY <2>3, ObjectOf
  <2>5. operation = "HEIGHT_CALIBRATE_READY" => s # "SEEK_SONIC_ON"
    BY <2>3, CalibrateObjects
  <2>6. operation = "HEIGHT_CALIBRATE_READY" => scCore' = {} /\ ~response'
    BY <2>2, <2>4, <2>5 DEF LockInv
  <2>7. response' => acRx'.MasterState = "NO_STATE" /\ s = "WELD_SONIC_ON"
    <3>. SUFFICES ASSUME response' PROVE acRx'.MasterState = "NO_STATE" /\ s = "WELD_SONIC_ON"
      OBVIOUS
    <3>1. s = "WELD_SONIC_ON" /\ ~Step(s)
      BY <2>2
    <3>2. /\ operation = "WELD" /\ scObj = s /\ acRx' = acRx /\ isRunning
          /\ operation \notin {"HEIGHT_CALIBRATE_READY", NoOperation}
      BY <2>1, <2>4, <3>1 DEF Leave, ExitAC, NoOperation
    <3>. QED  BY <3>1, <3>2 DEF AskedInv, StrokeInv, Resting, ActuatorObjects
  <2>8. ASSUME LockOnAlarm, acRx'.MasterState = acRx.MasterState, acRx.MasterState \in LiftCommands,
               s \in ActuatorObjects => Step(s)
        PROVE  scCore' = {} \/ Safe
    <3>1. CASE operation = "HEIGHT_CALIBRATE_READY"
      BY <2>6, <3>1
    <3>2. CASE Resting
      <4>1. s \in {"ALARM", "ESTOP", "PRE_READY", "READY_FOR_TRIGGER"} /\ scCore = {}
        BY <2>1, <3>2 DEF Resting, RestInv
      <4>. QED  BY <2>2, <4>1
    <3>3. CASE /\ scObj \in ActuatorObjects /\ actions[scObj] # "INIT" /\ acRx.MasterState = scObj
               /\ ~Resting
      <4>1. scObj = s /\ s \in {"WAIT_FOR_READY_POSITION", "PRE_READY"}
        BY <2>1, <2>8, <3>3 DEF Resting, LiftCommands, ActuatorObjects
      <4>. QED  BY <2>2, <2>8, <4>1 DEF LockInv
    <3>. QED  BY <2>8, <3>1, <3>2, <3>3 DEF AskedInv, StrokeInv, LiftCommands
  <2>9. LockOnAlarm /\ acRx'.MasterState \in LiftCommands => scCore' = {} \/ Safe
    <3>. SUFFICES ASSUME LockOnAlarm, acRx'.MasterState \in LiftCommands PROVE scCore' = {} \/ Safe
      OBVIOUS
    <3>1. CASE \E next : Leave(s, next)
      <4>1. acRx' = acRx /\ s \notin ActuatorObjects
        BY <3>1 DEF Leave, ExitAC, Order, ActuatorObjects, LiftCommands
      <4>. QED  BY <2>8, <4>1
    <3>2. CASE Step(s) /\ acRx'.MasterState = acRx.MasterState
      BY <2>8, <3>2
    <3>3. CASE s = "PRE_READY" /\ actions[s] = "INIT"
      <4>1. scObj = "ESTOP" /\ operation # NoOperation
        BY <1>4, <2>1, <3>3, PreReadyAfterEstop DEF OneInv
      <4>2. actions["ESTOP"] = "INIT"
        BY <2>1, <3>3, <4>1
      <4>. QED  BY <2>2, <3>3, <4>1, <4>2 DEF LockInv
    <3>4. CASE s = "WAIT_FOR_READY_POSITION" /\ ~Locked
      BY <2>2, <3>4 DEF Locked
    <3>5. CASE s = "CALIBRATE"
      BY <2>4, <2>6, <3>5
    <3>. QED  BY <2>1, <3>1, <3>2, <3>3, <3>4, <3>5, LiftOrdered
  <2>10. CASE s = "ALARM"
    <3>1. scCore' = scCore
      BY <2>2, <2>10
    <3>2. actions'["ALARM"] # "LOOP" => scCore = {}
      <4>1. CASE operation = NoOperation
        BY <4>1 DEF RestInv, Resting
      <4>2. CASE actions[s] = "INIT" /\ Step(s)
        <5>1. actions' = [actions EXCEPT !["ALARM"] = IF NoAlarm THEN "JUMP" ELSE "LOOP"]
          BY <2>10, <4>2 DEF Step, Enter, EnterAction, SetAction
        <5>2. actions'["ALARM"] # "LOOP" => NoAlarm
          BY <5>1 DEF SequenceInv, SCSTATES
        <5>. QED  BY <5>2 DEF NoAlarm
      <4>3. CASE actions[s] = "LOOP" /\ Step(s)
        <5>1. NoAlarm \/ UNCHANGED actions
          BY <2>10, <4>3 DEF Step, Loop, AlarmLoop, CountTime
        <5>. QED  BY <2>10, <4>3, <5>1 DEF NoAlarm
      <4>4. CASE operation # NoOperation /\ actions[s] \notin {"INIT", "LOOP"}
        BY <2>1, <2>10, <4>4 DEF LockInv
      <4>. QED  BY <2>1, <4>1, <4>2, <4>3, <4>4
    <3>. QED  BY <1>1, <2>1, <2>6, <2>7, <2>9, <2>10, <3>1, <3>2 DEF LockInv
  <2>11. CASE s = "ESTOP"
    <3>1. scCore' = scCore
      BY <2>2, <2>11
    <3>2. actions'["ESTOP"] # "LOOP" => scCore = {} \/ Safe
      <4>1. CASE operation = NoOperation
        BY <4>1 DEF RestInv, Resting
      <4>2. CASE operation # NoOperation /\ actions[s] = "INIT"
        <5>1. scObj \in {"ALARM", "ESTOP"} /\ actions[scObj] = "INIT"
          BY <1>4, <2>1, <2>11, <4>2, EstopAfterAlarm DEF OneInv
        <5>. QED  BY <5>1 DEF LockInv
      <4>3. CASE actions[s] = "LOOP" /\ Step(s)
        <5>1. AC("AC_READY") \/ UNCHANGED actions
          BY <2>11, <4>3 DEF Step, Loop, EstopLoop, Remain
        <5>2. AC("AC_READY") => Safe
          BY DEF HornInv, Safe, AC
        <5>. QED  BY <2>11, <4>3, <5>1, <5>2
      <4>4. CASE operation # NoOperation /\ actions[s] \notin {"INIT", "LOOP"}
        BY <2>1, <2>11, <4>4 DEF LockInv
      <4>. QED  BY <2>1, <4>1, <4>2, <4>3, <4>4
    <3>. QED  BY <1>1, <2>1, <2>6, <2>7, <2>9, <2>11, <3>1, <3>2 DEF LockInv
  <2>12. CASE s \notin {"ALARM", "ESTOP"}
    BY <1>1, <2>1, <2>4, <2>6, <2>7, <2>9, <2>12 DEF LockInv
  <2>. QED  BY <2>10, <2>11, <2>12
<1>5. isLoading => UNCHANGED <<scCore, response>>
  BY <1>1 DEF RunStateMachine, faults
<1>. QED  BY <1>1, <1>2, <1>3, <1>4, <1>5, TickCases

\* What a run of the actuator does to the part: nothing lowers the horn where it matters.
LEMMA ActuatorLock ==
  ASSUME OneInv, AskedInv, HornInv, LockInv, NEW core, ActuatorTurn(core),
         UNCHANGED <<operation, scObj, actions, scCore, response, setup>>,
         acRx'.MasterState = acRx.MasterState
  PROVE  LockInv'
<1>1. Safe => Safe' \/ acRx.MasterState \in {"WAIT_FOR_TRIGGER", "DOWN_STROKE"}
  BY DEF ActuatorTurn, Safe, AC
<1>2. scObj = "ESTOP" /\ acRx.MasterState \in {"WAIT_FOR_TRIGGER", "DOWN_STROKE"} => scCore = {}
  BY DEF AskedInv, StrokeInv, ActuatorObjects, LockInv
<1>3. scObj = "ESTOP" /\ actions["ESTOP"] # "LOOP" => scCore = {} \/ Safe'
  BY <1>1, <1>2 DEF LockInv
<1>4. LockOnAlarm' = LockOnAlarm
  BY DEF LockOnAlarm
<1>5. LockOnAlarm /\ acRx.MasterState \in LiftCommands => scCore = {} \/ Safe'
  BY <1>1 DEF LockInv, LiftCommands
<1>. QED  BY <1>3, <1>4, <1>5 DEF LockInv

LEMMA AlwaysLock == ~Overrun => (Spec /\ []OneOperation => []LockInv)
<1>. SUFFICES ASSUME ~Overrun PROVE Spec /\ []OneOperation => []LockInv
  OBVIOUS
<1>1. Init => LockInv
  BY DEF Init, InitSequence, LockInv, NoOperation
<1>2. CommandsTyped /\ HandsKnown /\ OneInv /\ OneOperation /\ AskedInv /\ RestInv /\ RestInv'
        /\ HornInv /\ LockInv /\ [Next]_welder => LockInv'
  <2>. SUFFICES ASSUME CommandsTyped, HandsKnown, OneInv, OneOperation, AskedInv, RestInv, RestInv',
                       HornInv, LockInv, [Next]_welder
                PROVE  LockInv'
    OBVIOUS
  <2>1. CASE AuxClock
    BY <2>1, ClockLock DEF AuxClock, Settled, Quiet, HandsKnown
  <2>2. CASE ControlTask
    <3>1. UNCHANGED <<acRx, acTx, horn, setup>>
      BY <2>2, ControlCases DEF HandsKnown, rx, tx, acRest
    <3>2. LockOnAlarm' = LockOnAlarm /\ Safe' = Safe
      BY <3>1 DEF LockOnAlarm, Safe, AC
    <3>3. CASE ListBuilt
      <4>1. scCore = {} /\ ~response /\ scObj' = "ESTOP" /\ UNCHANGED <<scCore, response>>
        BY <3>3 DEF ListBuilt, RestInv, Resting, faults
      <4>. QED  BY <4>1 DEF LockInv
    <3>4. CASE ObjectEnded
      <4>1. actions'["ALARM"] = actions["ALARM"] /\ actions'["ESTOP"] = actions["ESTOP"]
        BY <3>4 DEF ObjectEnded, HandsKnown, SequenceInv
      <4>2. UNCHANGED <<operation, scObj, scCore, response>>
        BY <3>4 DEF ObjectEnded, faults
      <4>. QED  BY <3>1, <3>2, <4>1, <4>2 DEF LockInv
    <3>5. CASE ObjectsKept /\ UNCHANGED <<scCore, response>>
      BY <3>1, <3>2, <3>5 DEF ObjectsKept, LockInv
    <3>6. CASE ObjectsKept /\ response /\ ~response'
      BY <3>1, <3>2, <3>6 DEF ObjectsKept, LockInv, LiftCommands
    <3>. QED  BY <2>2, <3>3, <3>4, <3>5, <3>6, ControlCases DEF HandsKnown, ObjectsKept
  <2>3. CASE Elsewhere /\ ~ActuatorTask
    <3>1. /\ UNCHANGED <<operation, scObj, actions, response, setup, acTx, horn>>
          /\ acRx'.MasterState = acRx.MasterState
          /\ UNCHANGED scCore \/ scCore' = {}
      BY <2>3, SequenceKept, CommandsKept, RecordKept, ActuatorKept
    <3>2. LockOnAlarm' = LockOnAlarm /\ Safe' = Safe
      BY <3>1 DEF LockOnAlarm, Safe, AC
    <3>. QED  BY <3>1, <3>2 DEF LockInv
  <2>4. CASE ActuatorTask
    <3>1. UNCHANGED <<operation, scObj, actions, scCore, response, setup>>
      BY <2>4 DEF ActuatorTask, own
    <3>2. acRx'.MasterState = acRx.MasterState
      BY <2>4, CommandsKept DEF Elsewhere
    <3>3. CASE AC_T!ACRun
      <4>1. PICK core : ActuatorTurn(core)
        BY <3>3, ActuatorRunCases
      <4>. QED  BY <3>1, <3>2, <4>1, ActuatorLock
    <3>4. CASE AC_T!ACReceive
      <4>1. UNCHANGED <<acTx, horn>> /\ LockOnAlarm' = LockOnAlarm
        BY <3>1, <3>4 DEF AC_T!ACReceive, AC_T!machine, LockOnAlarm
      <4>. QED  BY <3>1, <3>2, <4>1 DEF LockInv, Safe, AC
    <3>. QED  BY <2>4, <3>3, <3>4 DEF ActuatorTask
  <2>. QED  BY <2>1, <2>2, <2>3, <2>4 DEF Next, Elsewhere
<1>. QED
  BY <1>1, <1>2, AlwaysSequence, AlwaysOne, AlwaysAsked, AlwaysRest, AlwaysHorn, CommandsCorrect,
     PTL DEF Spec

\* With LOCK_ON_ALARM a weld that went wrong keeps its part, with the tasks in time and
\* one operation at a time: through the response of the control task, alarms, aborts
\* and E-stops no lift is commanded while an error of the SC is set.
THEOREM PartsLocked == ~Overrun => (Spec /\ []OneOperation => PartLocked)
<1>. SUFFICES ASSUME ~Overrun PROVE Spec /\ []OneOperation => PartLocked
  OBVIOUS
<1>1. HornInv /\ LockInv /\ [Next]_welder
        => [LockOnAlarm /\ horn = "DOWN" /\ horn' = "UP"
              => scCore = {} \/ acTx.ACState \in {"AC_ALARM", "AC_ESTOP"}]_welder
  <2>. SUFFICES ASSUME HornInv, LockInv, Next, LockOnAlarm, horn = "DOWN", horn' = "UP"
                PROVE  scCore = {} \/ acTx.ACState \in {"AC_ALARM", "AC_ESTOP"}
    OBVIOUS
  <2>1. AC_T!ACRun
    BY ActuatorKept DEF ActuatorTask, AC_T!ACReceive, AC_T!machine
  <2>2. PICK core : ActuatorTurn(core)
    BY <2>1, ActuatorRunCases
  <2>3. \/ acTx.ACState \in {"AC_ALARM", "AC_ESTOP"}
        \/ acRx.MasterState \in LiftCommands
    BY <2>2 DEF ActuatorTurn, HornInv, LiftCommands, AC
  <2>. QED  BY <2>3 DEF LockInv, Safe, AC
<1>. QED  BY <1>1, AlwaysHorn, AlwaysLock, PTL DEF Spec, PartLocked

-----------------------------------------------------------------------------
(* The horn on the part while the SC welds.                                *)

\* The actuator holds the part without an error, and with the horn up only until it has
\* obeyed PRE_READY, which the SC does not take back before.
HoldInv ==
  /\ AC("AC_HOLD") => acCore = {}
  /\ AC("AC_DOWN_STROKE") => horn = "DOWN"
  /\ AC("AC_HOLD") /\ horn = "UP" => acRx.MasterState = "PRE_READY"
  /\ actions["PRE_READY"] \notin {"INIT", "LOOP"}
       => acTx.ACState \notin {"AC_DOWN_STROKE", "AC_HOLD"}
  /\ \A s \in {"PRE_READY", "WAIT_FOR_TRIGGER"} :
        actions[s] # "INIT" => acRx.MasterState = s

\* Whatever runs, the other objects have nothing left to do.
LEMMA OthersIdle ==
  ASSUME CommandsTyped, SequenceInv, OneInv, NEW s, RunStateMachine,
         (EstopDue /\ RunEstop /\ s = "ESTOP") \/ \E i : RunsObject(i, s)
  PROVE  \A t \in SCSTATES \ {s, "ESTOP"} : actions'[t] = "INIT" /\ (RunEstop \/ actions[t] = "INIT")
<1>. SUFFICES ASSUME NEW t \in SCSTATES \ {s, "ESTOP"}
              PROVE  actions'[t] = "INIT" /\ (RunEstop \/ actions[t] = "INIT")
  OBVIOUS
<1>1. CASE EstopDue /\ RunEstop
  <2>1. actions' = [actions EXCEPT ![scObj] = "INIT", !["ESTOP"] = EstopNext(actions["ESTOP"])]
    BY <1>1 DEF RunEstop
  <2>2. actions[t] # "INIT" => t = scObj
    BY DEF OneInv, ActiveInv, Under
  <2>. QED  BY <1>1, <2>1, <2>2 DEF SequenceInv
<1>2. ASSUME NEW i, RunsObject(i, s) PROVE actions[t] = "INIT" /\ actions'[t] = "INIT"
  <2>1. actions[t] = "INIT"
    BY <1>2, ObjectTick
  <2>2. \E a : actions' = [actions EXCEPT ![s] = a]
    BY <1>2, ObjectTick DEF Leave, SetAction
  <2>. QED  BY <2>1, <2>2 DEF SequenceInv
<1>. QED  BY <1>1, <1>2

\* PRE_READY ends only with the actuator at rest or in alarm.
LEMMA PreReadyPass ==
  ASSUME SequenceInv, Step("PRE_READY"), actions'["PRE_READY"] \notin {"INIT", "LOOP"}
  PROVE  \/ acTx.ACState \in {"AC_READY", "AC_ALARM"}
         \/ actions["PRE_READY"] \notin {"INIT", "LOOP"}
<1>1. CASE actions["PRE_READY"] = "INIT" /\ Enter("PRE_READY")
  BY <1>1 DEF Enter, EnterAction, SetAction, SequenceInv, SCSTATES
<1>2. CASE actions["PRE_READY"] = "LOOP" /\ Loop("PRE_READY")
  BY <1>2 DEF Loop, PreReadyLoop, Remain, AC
<1>. QED  BY <1>1, <1>2 DEF Step

\* The wait for the trigger ends well only when the actuator holds the part.
LEMMA TriggerPass ==
  ASSUME SequenceInv, Step("WAIT_FOR_TRIGGER"),
         actions'["WAIT_FOR_TRIGGER"] \in {"JUMP", "ALJUMPNORM"}
  PROVE  AC("AC_HOLD") /\ actions["WAIT_FOR_TRIGGER"] = "LOOP"
<1>. DEFINE s == "WAIT_FOR_TRIGGER"
<1>0. \A a : SetAction(s, a) => actions'[s] = a
  BY DEF SetAction, SequenceInv, SCSTATES
<1>1. CASE actions[s] = "INIT" /\ Enter(s)
  <2>1. actions'[s] = "LOOP"
    BY <1>0, <1>1 DEF Enter, EnterAction
  <2>. QED  BY <2>1
<1>2. CASE actions[s] = "LOOP" /\ Loop(s)
  <2>1. WaitForTriggerLoop(s)
    BY <1>2 DEF Loop
  <2>2. FailOf(s) \in {"FAIL", "LOOP"}
    BY <1>2 DEF FailOf
  <2>3. ASSUME NEW ctrl, NEW duration, BurstStarts(s, ctrl) \/ BurstWaits(s)
                                         \/ BurstRuns(s, ctrl, duration)
        PROVE  FALSE
    <3>1. SetAction(s, FailOf(s))
      BY <2>3 DEF BurstStarts, BurstWaits, BurstRuns
    <3>. QED  BY <1>0, <2>2, <3>1
  <2>4. ~Abort(s) /\ ~GiveUp(s)
    BY <1>0 DEF Abort, GiveUp
  <2>5. StrokeEnds(s, "AC_HOLD")
    BY <2>1, <2>3, <2>4 DEF WaitForTriggerLoop
  <2>. QED  BY <1>0, <1>2, <2>2, <2>5 DEF StrokeEnds
<1>3. CASE actions[s] = "FAIL" /\ Fail(s)
  <2>1. actions'[s] = "ABORT"
    BY <1>0, <1>3 DEF Fail
  <2>. QED  BY <2>1
<1>. QED  BY <1>1, <1>2, <1>3 DEF Step

LEMMA TickHold ==
  ASSUME CommandsTyped, SequenceInv, OneInv, AskedInv, RestInv, HoldInv, RunStateMachine,
         UNCHANGED <<acCore, horn>>
  PROVE  HoldInv'
<1>1. UNCHANGED <<operation, acTx>>
  BY TickCases
<1>2. CASE UNCHANGED <<rx, actions>>
  BY <1>1, <1>2 DEF HoldInv, AC, rx
<1>3. CASE EstopDue /\ RunEstop
  <2>1. \A t \in {"PRE_READY", "WAIT_FOR_TRIGGER"} : actions'[t] = "INIT"
    BY <1>3, OthersIdle DEF SCSTATES
  <2>2. acTx.ACState = "AC_ESTOP"
    BY <1>3 DEF EstopDue, AC
  <2>. QED  BY <1>1, <2>1, <2>2 DEF HoldInv, AC
<1>4. ASSUME NEW i, NEW s, RunsObject(i, s) PROVE HoldInv'
  <2>1. /\ s \in SCSTATES /\ scObj' = s
        /\ operation # NoOperation /\ actions[s] # "INIT" => scObj = s
        /\ operation # NoOperation /\ actions[s] = "INIT" => actions[scObj] = "INIT"
        /\ Step(s) \/ (actions[s] \in {"JUMP", "ALJUMPNORM", "ABORT"} /\ \E next : Leave(s, next))
    BY <1>4, ObjectTick
  <2>2. \A t \in {"PRE_READY", "WAIT_FOR_TRIGGER"} \ {s} : actions'[t] = "INIT"
    BY <1>4, OthersIdle DEF SCSTATES
  <2>3. ASSUME AC("AC_HOLD"), horn = "UP" PROVE acRx'.MasterState = "PRE_READY"
    <3>1. /\ scObj = "PRE_READY" /\ actions["PRE_READY"] = "LOOP"
          /\ acRx.MasterState = "PRE_READY" /\ operation # NoOperation
      BY <2>3 DEF HoldInv, AskedInv, StrokeInv, RestInv, Resting, AC
    <3>2. s = "PRE_READY" /\ Step(s)
      BY <2>1, <3>1
    <3>. QED  BY <3>1, <3>2, StepCommand DEF CommandStep
  <2>4. ASSUME actions'["PRE_READY"] \notin {"INIT", "LOOP"}
        PROVE  acTx.ACState \notin {"AC_DOWN_STROKE", "AC_HOLD"}
    <3>1. s = "PRE_READY"
      BY <2>2, <2>4
    <3>2. CASE Step(s)
      BY <2>4, <3>1, <3>2, PreReadyPass DEF HoldInv
    <3>3. CASE \E next : Leave(s, next)
      BY <2>4, <3>1, <3>3 DEF Leave, SetAction, SequenceInv, SCSTATES
    <3>. QED  BY <2>1, <3>2, <3>3
  <2>5. ASSUME NEW t \in {"PRE_READY", "WAIT_FOR_TRIGGER"}, actions'[t] # "INIT"
        PROVE  acRx'.MasterState = t
    <3>1. s = t
      BY <2>2, <2>5
    <3>2. Step(s)
      BY <2>1, <2>5, <3>1 DEF Leave, SetAction, SequenceInv, SCSTATES
    <3>3. actions[s] = "INIT" => acRx'.MasterState = s
      BY <3>1, <3>2, StepCommand DEF CommandStep, ActuatorObjects
    <3>4. actions[s] # "INIT" => acRx'.MasterState = acRx.MasterState /\ acRx.MasterState = s
      BY <3>1, <3>2, StepCommand DEF CommandStep, HoldInv
    <3>. QED  BY <3>1, <3>3, <3>4
  <2>. QED  BY <1>1, <2>3, <2>4, <2>5 DEF HoldInv, AC
<1>. QED  BY <1>2, <1>3, <1>4, TickCases

LEMMA ActuatorHold ==
  ASSUME HoldInv, NEW core, ActuatorTurn(core), HornInv, UNCHANGED actions,
         acRx'.MasterState = acRx.MasterState
  PROVE  HoldInv'
<1>1. AC("AC_HOLD")' => acCore' = {}
  BY DEF ActuatorTurn, AC
<1>2. AC("AC_DOWN_STROKE")' => horn' = "DOWN"
  BY DEF ActuatorTurn, AC, HoldInv
<1>3. AC("AC_HOLD")' /\ horn' = "UP" => acRx.MasterState = "PRE_READY"
  BY DEF ActuatorTurn, AC, HoldInv
<1>4. actions["PRE_READY"] \notin {"INIT", "LOOP"}
        => acTx'.ACState \notin {"AC_DOWN_STROKE", "AC_HOLD"}
  BY DEF ActuatorTurn, AC, HoldInv
<1>. QED  BY <1>1, <1>2, <1>3, <1>4 DEF HoldInv

\* Only a reset of the alarms and a run of the actuator change its errors.
LEMMA ErrorsKept ==
  ASSUME [Next]_welder, ~ActuatorTask
  PROVE  UNCHANGED acCore \/ acCore' = {}
<1>1. CASE AuxClock
  BY <1>1 DEF AuxClock, RunStateMachine, tx
<1>2. CASE ControlTask
  BY <1>2 DEF ControlTask, LoadBegin, ExecuteStateAction, LoadFinish, RunProcess, tx
<1>3. CASE PowerTask \/ Generator \/ AlarmReset
  BY <1>3 DEF PowerTask, Generator, AlarmReset
<1>4. CASE PressureMessage
  BY <1>4 DEF PressureMessage, AC_T!PressureSet
<1>5. CASE Plant
  BY <1>5 DEF Plant, AC_T!HornTravel, AC_T!StartSwitchInput, AC_T!EstopInput, AC_T!machine
<1>6. CASE UNCHANGED welder
  BY <1>6 DEF welder, vars, tx
<1>. QED  BY <1>1, <1>2, <1>3, <1>4, <1>5, <1>6 DEF Next

LEMMA AlwaysHold == Spec /\ []OneOperation => []HoldInv
<1>1. Init => HoldInv
  BY DEF Init, InitSequence, AC_T!InitActuator, HoldInv, AC, SCSTATES
<1>2. CommandsTyped /\ HandsKnown /\ OneInv /\ OneOperation /\ AskedInv /\ RestInv /\ HornInv
        /\ HoldInv /\ [Next]_welder => HoldInv'
  <2>. SUFFICES ASSUME CommandsTyped, HandsKnown, OneInv, OneOperation, AskedInv, RestInv, HornInv,
                       HoldInv, [Next]_welder
                PROVE  HoldInv'
    OBVIOUS
  <2>1. CASE AuxClock
    <3>1. UNCHANGED <<acCore, horn>> /\ RunStateMachine
      BY <2>1 DEF AuxClock, RunStateMachine, tx
    <3>. QED  BY <3>1, TickHold DEF HandsKnown
  <2>2. CASE ControlTask
    <3>1. UNCHANGED <<acRx, acTx, acCore, horn>>
      BY <2>2, ControlCases DEF HandsKnown, rx, tx, acRest
    <3>2. \A s \in {"PRE_READY", "WAIT_FOR_TRIGGER"} : actions'[s] \in {"INIT", actions[s]}
      <4>1. ListBuilt => \A s \in {"PRE_READY", "WAIT_FOR_TRIGGER"} : actions'[s] = "INIT"
        BY DEF ListBuilt, SCSTATES
      <4>2. ObjectEnded => \A s \in {"PRE_READY", "WAIT_FOR_TRIGGER"} : actions'[s] = actions[s]
        BY DEF ObjectEnded, HandsKnown, SequenceInv
      <4>3. ObjectsKept => actions' = actions
        BY DEF ObjectsKept
      <4>. QED  BY <2>2, <4>1, <4>2, <4>3, ControlCases DEF HandsKnown
    <3>. QED  BY <3>1, <3>2 DEF HoldInv, AC
  <2>3. CASE Elsewhere /\ ~ActuatorTask
    <3>1. /\ UNCHANGED <<actions, acTx, horn>> /\ acRx'.MasterState = acRx.MasterState
          /\ UNCHANGED acCore \/ acCore' = {}
      BY <2>3, SequenceKept, CommandsKept, ActuatorKept, ErrorsKept
    <3>. QED  BY <3>1 DEF HoldInv, AC
  <2>4. CASE ActuatorTask
    <3>1. UNCHANGED actions /\ acRx'.MasterState = acRx.MasterState
      BY <2>4, SequenceKept, CommandsKept DEF Elsewhere
    <3>2. CASE AC_T!ACRun
      <4>1. PICK core : ActuatorTurn(core)
        BY <3>2, ActuatorRunCases
      <4>. QED  BY <3>1, <4>1, ActuatorHold
    <3>3. CASE AC_T!ACReceive
      BY <3>1, <3>3 DEF AC_T!ACReceive, AC_T!machine, HoldInv, AC
    <3>. QED  BY <2>4, <3>2, <3>3 DEF ActuatorTask
  <2>. QED  BY <2>1, <2>2, <2>3, <2>4 DEF Next, Elsewhere
<1>. QED
  BY <1>1, <1>2, AlwaysSequence, AlwaysOne, AlwaysAsked, AlwaysRest, AlwaysHorn, CommandsCorrect,
     PTL DEF Spec

\* From the trigger to the end of the weld the part is to be under pressure.
Pressing ==
  /\ operation = "WELD"
  /\ \/ scObj = "WAIT_FOR_TRIGGER" /\ actions["WAIT_FOR_TRIGGER"] \in {"JUMP", "ALJUMPNORM"}
     \/ scIndex \in 5 .. 7
     \/ scIndex = 8 /\ scObj = "WELD_SONIC_ON"

\* An E-stop takes the SC out of the weld at the next tick, before the actuator runs again.
PressInv ==
  /\ pressureSent /\ ~(acEvent /\ acBusy)
  /\ scObj = "WELD_SONIC_ON" => operation = "WELD" /\ scIndex \in {7, 8}
  /\ actions["WELD_SONIC_ON"] # "ABORT"
  /\ Pressing => horn = "DOWN" /\ (AC("AC_HOLD") \/ (AC("AC_ESTOP") /\ ~acEvent /\ ~acBusy))

LEMMA PressingCommand ==
  ASSUME SequenceInv, OneInv, AskedInv, HoldInv, Pressing
  PROVE  isRunning /\ scObj # "ESTOP" /\ acRx.MasterState \notin LiftCommands
<1>1. operation = "WELD" /\ operation \notin {NoOperation, "HEIGHT_CALIBRATE_READY"}
  BY DEF Pressing, NoOperation
<1>2. scObj \in {"WAIT_FOR_TRIGGER", "SQUEEZE_TIME", "WELD_PRESSURE_SET", "WELD_SONIC_ON"}
  <2>1. CASE scIndex \in 5 .. 7
    <3>1. AlarmStateIndex = 10
      BY <1>1, WeldList DEF AlarmStateIndex
    <3>2. scObj = List("WELD")[scIndex - 1] \/ scObj = List("WELD")[scIndex]
      BY <1>1, <2>1, <3>1 DEF OneInv, PlaceInv, Under
    <3>3. scIndex \in {5, 6, 7} /\ scIndex - 1 \in {4, 5, 6}
      BY <2>1
    <3>. QED  BY <3>2, <3>3, WeldObjects
  <2>. QED  BY <2>1 DEF Pressing
<1>3. isRunning /\ ~Resting
  BY <1>1, <1>2 DEF OneInv, LoadInv, Resting
<1>4. acRx.MasterState = "NO_STATE" \/ acRx.MasterState = scObj
  BY <1>1, <1>3 DEF AskedInv, StrokeInv
<1>. QED  BY <1>2, <1>3, <1>4 DEF LiftCommands

\* A tick that goes on with it finds the horn on the part, by the trigger or from before.
LEMMA TickPressing ==
  ASSUME CommandsTyped, SequenceInv, OneInv, HornInv, HoldInv, RunStateMachine, Pressing'
  PROVE  (AC("AC_HOLD") /\ horn = "DOWN") \/ (Pressing /\ ~EstopDue)
<1>1. /\ operation' = operation /\ operation = "WELD" /\ operation # NoOperation
      /\ Len(List(operation)) = 11 /\ AlarmStateIndex = 10 /\ EStopStateIndex = 11
  BY TickCases, WeldList DEF Pressing, NoOperation, AlarmStateIndex, EStopStateIndex
<1>2. ~RunEstop
  <2>1. RunEstop => scObj' = "ESTOP" /\ scIndex' \in {11, 12}
    BY <1>1 DEF RunEstop
  <2>. QED  BY <2>1 DEF Pressing
<1>3. ~isLoading
  <2>1. isLoading => scIndex' = 1 /\ scObj' = scObj
    BY DEF RunStateMachine
  <2>2. isLoading => scObj = "ESTOP"
    BY <1>1 DEF OneInv, LoadInv
  <2>. QED  BY <2>1, <2>2 DEF Pressing
<1>4. ~EstopDue
  BY <1>2, <1>3 DEF RunStateMachine
<1>5. PICK i, s : RunsObject(i, s)
  BY <1>2, <1>3, TickCases
<1>6. /\ s \in SCSTATES /\ scObj' = s /\ i \in 1 .. 11 /\ (i = scIndex \/ i = 1)
      /\ s = List("WELD")[i] /\ (actions[s] # "INIT" => scObj = s)
  BY <1>1, <1>5, ObjectTick DEF RunsObject
<1>7. CASE scIndex' = i /\ Step(s)
  <2>1. CASE s = "WAIT_FOR_TRIGGER" /\ actions'["WAIT_FOR_TRIGGER"] \in {"JUMP", "ALJUMPNORM"}
    <3>1. AC("AC_HOLD") /\ actions["WAIT_FOR_TRIGGER"] = "LOOP"
      BY <1>7, <2>1, TriggerPass
    <3>. QED  BY <3>1 DEF HoldInv, HornInv
  <2>2. CASE i \in 5 .. 7
    BY <1>1, <1>4, <1>6, <2>2 DEF Pressing
  <2>3. ~(i = 8 /\ s = "WELD_SONIC_ON")
    BY <1>6, WeldObjects
  <2>. QED  BY <1>6, <1>7, <2>1, <2>2, <2>3 DEF Pressing
<1>8. CASE Leaving(s) /\ Leave(s, i + 1)
  <2>1. actions'[s] = "INIT" /\ scIndex' = i + 1
    BY <1>6, <1>8 DEF Leave, SetAction, SequenceInv
  <2>2. i + 1 \in 5 .. 7 \/ (i + 1 = 8 /\ s = "WELD_SONIC_ON")
    BY <1>6, <2>1 DEF Pressing
  <2>3. CASE i = 4
    BY <1>1, <1>4, <1>6, <1>8, <2>3, WeldObjects DEF Pressing, Leaving
  <2>4. CASE i \in 5 .. 7
    BY <1>1, <1>4, <1>6, <2>4 DEF Pressing
  <2>. QED  BY <1>6, <2>2, <2>3, <2>4
<1>9. CASE Leave(s, AlarmStateIndex)
  <2>1. actions'[s] = "INIT" /\ scIndex' = 10
    BY <1>1, <1>6, <1>9 DEF Leave, SetAction, SequenceInv
  <2>. QED  BY <1>6, <2>1 DEF Pressing
<1>. QED  BY <1>5, <1>7, <1>8, <1>9 DEF RunsObject

\* A weld is never aborted: what it leads to is HOLD.
LEMMA WeldPass ==
  ASSUME SequenceInv, Step("WELD_SONIC_ON")
  PROVE  actions'["WELD_SONIC_ON"] # "ABORT"
<1>. DEFINE s == "WELD_SONIC_ON"
<1>1. \A a : SetAction(s, a) => actions'[s] = a
  BY DEF SetAction, SequenceInv, SCSTATES
<1>2. CASE Enter(s)
  BY <1>1, <1>2 DEF Enter, EnterWeld
<1>3. CASE Loop(s)
  <2>1. WeldSonicOnLoop(s)
    BY <1>3 DEF Loop
  <2>. QED  BY <1>1, <2>1 DEF WeldSonicOnLoop
<1>4. CASE Fail(s)
  BY <1>1, <1>4 DEF Fail
<1>. QED  BY <1>2, <1>3, <1>4 DEF Step

LEMMA TickWeld ==
  ASSUME CommandsTyped, SequenceInv, OneInv, PressInv, RunStateMachine
  PROVE  /\ scObj' = "WELD_SONIC_ON" => operation' = "WELD" /\ scIndex' \in {7, 8}
         /\ actions'["WELD_SONIC_ON"] # "ABORT"
<1>1. operation' = operation
  BY TickCases
<1>2. CASE isLoading /\ UNCHANGED <<scObj, actions>>
  BY <1>2 DEF OneInv, LoadInv, ActiveInv, PressInv
<1>3. CASE EstopDue /\ RunEstop
  <2>1. actions'["WELD_SONIC_ON"] = "INIT"
    BY <1>3, OthersIdle DEF SCSTATES
  <2>. QED  BY <1>3, <2>1 DEF RunEstop
<1>4. ASSUME NEW i, NEW s, RunsObject(i, s)
      PROVE  /\ s = "WELD_SONIC_ON" => operation = "WELD" /\ scIndex' \in {7, 8}
             /\ actions'["WELD_SONIC_ON"] # "ABORT"
  <2>1. CASE s # "WELD_SONIC_ON"
    <3>1. actions'["WELD_SONIC_ON"] = "INIT"
      BY <1>4, <2>1, OthersIdle DEF SCSTATES
    <3>. QED  BY <2>1, <3>1
  <2>2. CASE s = "WELD_SONIC_ON"
    <3>1. operation = "WELD" /\ i = 7
      BY <1>4, <2>2, ObjectOf DEF RunsObject
    <3>2. CASE scIndex' = i /\ Step(s)
      BY <2>2, <3>1, <3>2, WeldPass
    <3>3. CASE Leave(s, i + 1)
      BY <2>2, <3>1, <3>3 DEF Leave, SetAction, SequenceInv, SCSTATES
    <3>. QED  BY <1>4, <2>2, <3>2, <3>3 DEF RunsObject, PressInv
  <2>. QED  BY <2>1, <2>2
<1>5. \A i, s : RunsObject(i, s) => scObj' = s
  BY DEF RunsObject
<1>. QED  BY <1>1, <1>2, <1>3, <1>4, <1>5, TickCases

LEMMA ActuatorPress ==
  ASSUME SequenceInv, OneInv, AskedInv, HoldInv, PressInv, AC_T!ACRun,
         UNCHANGED <<operation, scIndex, scObj, actions>>
  PROVE  PressInv'
<1>1. PICK core : AC_T!Upload(core) /\ ActuatorTurn(core)
  BY ActuatorRunCases
<1>2. core = acCore /\ pressureSent'
  BY <1>1 DEF AC_T!Upload, PressInv
<1>3. acBusy /\ ~acBusy' /\ acEvent' = acEvent
  BY DEF AC_T!ACRun
<1>4. Pressing' = Pressing
  BY DEF Pressing
<1>5. ASSUME Pressing PROVE horn' = "DOWN" /\ acTx'.ACState \in {"AC_HOLD", "AC_ESTOP"}
  <2>1. AC("AC_HOLD") /\ horn = "DOWN" /\ core = {}
    BY <1>2, <1>3, <1>5 DEF PressInv, HoldInv
  <2>2. acRx.MasterState \notin LiftCommands
    BY <1>5, PressingCommand
  <2>. QED  BY <1>1, <2>1, <2>2 DEF ActuatorTurn, AC, LiftCommands
<1>. QED  BY <1>2, <1>3, <1>4, <1>5 DEF PressInv, AC

\* Only the clock and the actuator itself touch its events, and only a message that
\* needs the pressure board its pressure.
LEMMA EventsKept ==
  ASSUME [Next]_welder, ~ActuatorTask
  PROVE  /\ ~AuxClock => UNCHANGED <<acEvent, acBusy>>
         /\ ~PressureBoard => UNCHANGED pressureSent
<1>1. CASE AuxClock
  BY <1>1 DEF AuxClock
<1>2. CASE ControlTask
  BY <1>2 DEF ControlTask, acRest
<1>3. CASE PowerTask \/ Generator \/ AlarmReset
  BY <1>3 DEF PowerTask, Generator, AlarmReset, acRest
<1>4. CASE PressureMessage
  BY <1>4 DEF PressureMessage, AC_T!PressureSet
<1>5. CASE Plant
  BY <1>5 DEF Plant, AC_T!HornTravel, AC_T!StartSwitchInput, AC_T!EstopInput, AC_T!machine
<1>6. CASE UNCHANGED welder
  BY <1>6 DEF welder, acRest
<1>. QED  BY <1>1, <1>2, <1>3, <1>4, <1>5, <1>6 DEF Next

LEMMA AlwaysPress ==
  ~Overrun => (Spec /\ []OneOperation /\ []~PressureBoard => []PressInv)
<1>. SUFFICES ASSUME ~Overrun PROVE Spec /\ []OneOperation /\ []~PressureBoard => []PressInv
  OBVIOUS
<1>1. Init => PressInv
  BY DEF Init, InitSequence, AC_T!InitActuator, PressInv, Pressing, SCSTATES, NoOperation
<1>2. CommandsTyped /\ HandsKnown /\ OneInv /\ OneOperation /\ AskedInv /\ HornInv /\ HoldInv
        /\ ~PressureBoard /\ PressInv /\ [Next]_welder => PressInv'
  <2>. SUFFICES ASSUME CommandsTyped, HandsKnown, OneInv, OneOperation, AskedInv, HornInv, HoldInv,
                       ~PressureBoard, PressInv, [Next]_welder
                PROVE  PressInv'
    OBVIOUS
  <2>1. CASE AuxClock
    <3>1. /\ RunStateMachine /\ ~acBusy /\ ~acEvent
          /\ UNCHANGED <<horn, acTx, acBusy, pressureSent>>
      BY <2>1 DEF AuxClock, Settled, Quiet, RunStateMachine, tx
    <3>2. ASSUME Pressing' PROVE horn = "DOWN" /\ AC("AC_HOLD")
      <4>1. (AC("AC_HOLD") /\ horn = "DOWN") \/ (Pressing /\ ~EstopDue)
        BY <3>1, <3>2, TickPressing DEF HandsKnown
      <4>2. Pressing => scObj # "ESTOP"
        BY PressingCommand DEF HandsKnown
      <4>. QED  BY <4>1, <4>2 DEF PressInv, EstopDue
    <3>3. /\ scObj' = "WELD_SONIC_ON" => operation' = "WELD" /\ scIndex' \in {7, 8}
          /\ actions'["WELD_SONIC_ON"] # "ABORT"
      BY <3>1, TickWeld DEF HandsKnown
    <3>. QED  BY <3>1, <3>2, <3>3 DEF PressInv, AC
  <2>2. CASE ControlTask /\ ~ActuatorTask /\ ~AuxClock
    <3>1. UNCHANGED <<acTx, horn, acEvent, acBusy, pressureSent>>
      BY <2>2, ActuatorKept, EventsKept
    <3>2. CASE ListBuilt
      <4>1. scObj' = "ESTOP" /\ scIndex' = 1 /\ actions'["WELD_SONIC_ON"] = "INIT"
        BY <3>2 DEF ListBuilt, HandsKnown, SequenceInv, SCSTATES
      <4>. QED  BY <3>1, <4>1 DEF PressInv, Pressing
    <3>3. CASE ObjectEnded
      <4>1. actions'["WELD_SONIC_ON"] = actions["WELD_SONIC_ON"] /\ operation' # "WELD"
            /\ UNCHANGED <<operation, scIndex, scObj>>
        BY <3>3 DEF ObjectEnded, HandsKnown, SequenceInv
      <4>. QED  BY <3>1, <4>1 DEF PressInv, Pressing
    <3>4. CASE ObjectsKept
      BY <3>1, <3>4 DEF ObjectsKept, PressInv, Pressing, AC
    <3>. QED  BY <2>2, <3>2, <3>3, <3>4, ControlCases DEF HandsKnown
  <2>3. CASE Elsewhere /\ ~ActuatorTask /\ ~AuxClock
    <3>1. UNCHANGED <<operation, scIndex, scObj, actions, acTx, horn, acEvent, acBusy, pressureSent>>
      BY <2>3, SequenceKept, ActuatorKept, EventsKept
    <3>. QED  BY <3>1 DEF PressInv, Pressing, AC
  <2>4. CASE ActuatorTask
    <3>1. UNCHANGED <<operation, scIndex, scObj, actions>>
      BY <2>4, SequenceKept DEF Elsewhere
    <3>2. CASE AC_T!ACRun
      BY <3>1, <3>2, ActuatorPress DEF HandsKnown
    <3>3. CASE AC_T!ACReceive
      BY <3>1, <3>3 DEF AC_T!ACReceive, AC_T!machine, PressInv, Pressing, AC
    <3>. QED  BY <2>4, <3>2, <3>3 DEF ActuatorTask
  <2>. QED  BY <2>1, <2>2, <2>3, <2>4 DEF Next, Elsewhere
<1>. QED
  BY <1>1, <1>2, AlwaysSequence, AlwaysOne, AlwaysAsked, AlwaysHorn, AlwaysHold, CommandsCorrect,
     PTL DEF Spec

\* Weld sonics find the horn pressed on the part and leave it there, with the tasks in
\* time and one operation at a time: no E-stop, alarm, abort or reset lifts the horn
\* before the SC has left the weld.  A pressure board that refuses a setting amid the
\* weld is excepted: its error lifts the horn once it is cleared.
THEOREM WeldsUnderPressure ==
  ~Overrun => (Spec /\ []OneOperation /\ []~PressureBoard => []WeldUnderPressure)
<1>. SUFFICES ASSUME ~Overrun PROVE Spec /\ []OneOperation /\ []~PressureBoard => []WeldUnderPressure
  OBVIOUS
<1>1. PressInv => WeldUnderPressure
  BY DEF PressInv, Pressing, WeldUnderPressure, AC
<1>. QED  BY <1>1, AlwaysPress, PTL

-----------------------------------------------------------------------------
(* The bursts of a stroke.                                                 *)

\* The horn is off the part and on its way up.
Gone == horn = "UP" /\ hornPos > 0

\* The horn counts as having left the part only when it has; the status that the down
\* stroke leaves is taken back on the part.
LeftInv ==
  /\ hornPos \in 0 .. 2 /\ movedFrom \in 0 .. 2
  /\ AC("AC_HOLD") => ~HornLeft
  /\ AC("AC_RETURN_STROKE") /\ HornLeft => Gone

\* Only the strokes clear the status, the return stroke with the horn off the part.
LEMMA StrokeStatus ==
  ASSUME LeftInv, AC_T!ACRun
  PROVE  /\ UNCHANGED hornPos /\ movedFrom' \in 0 .. 2
         /\ acTx'.ACState = "AC_HOLD" => ~HornLeft'
         /\ HornLeft' => \/ HornLeft \/ AC("AC_DOWN_STROKE")
                         \/ AC("AC_RETURN_STROKE") /\ hornPos > 0
<1>. DEFINE Result ==
              /\ movedFrom' \in 0 .. 2
              /\ acTx'.ACState = "AC_HOLD" => ~HornLeft'
              /\ HornLeft' => \/ HornLeft \/ AC("AC_DOWN_STROKE")
                              \/ AC("AC_RETURN_STROKE") /\ hornPos > 0
<1>1. PICK core, ev : AC_T!RunStateMachine(core, ev)
  BY DEF AC_T!ACRun
<1>2. UNCHANGED hornPos
  BY DEF AC_T!ACRun, AC_T!plant
<1>3. hornPos \in 0 .. 2 /\ movedFrom \in 0 .. 2 /\ 2 \in 0 .. 2
  BY DEF LeftInv
<1>4. ASSUME NEW next, NEW st, NEW e, AC_T!ChangeState(next, st, e),
             AC_T!Status \subseteq st
      PROVE  Result
  BY <1>3, <1>4
  DEF AC_T!ChangeState, AC_T!Publish, AC_T!EnterStatus, AC_T!Status, HornLeft
<1>5. ASSUME NEW st, NEW e, AC_T!Stay(st, e),
             "STATUS_AC_MOVE_DISABLE" \in AC_T!Status => "STATUS_AC_MOVE_DISABLE" \in st
      PROVE  Result
  BY <1>3, <1>5 DEF AC_T!Stay, AC_T!Publish, AC_T!Status, HornLeft, LeftInv, AC
<1>6. ASSUME NEW next, NEW c, NEW e, AC_T!Go(next, c, e) PROVE Result
  BY <1>4, <1>6 DEF AC_T!Go
<1>7. AC_T!ReadyLoop(core, ev) => Result
  BY <1>4, <1>5, <1>6 DEF AC_T!ReadyLoop, AC_T!Idle, AC_T!GetPB1
<1>8. AC_T!StartSwitchLoop(core, ev) => Result
  BY <1>4, <1>5 DEF AC_T!StartSwitchLoop, AC_T!Raise, AC_T!Wait
<1>9. AC_T!StrokeDownLoop(core, ev) => Result
  <2>. SUFFICES ASSUME AC_T!StrokeDownLoop(core, ev) PROVE Result
    OBVIOUS
  <2>1. AC("AC_DOWN_STROKE")
    BY DEF AC_T!StrokeDownLoop, AC_T!In, AC
  <2>2. CASE AC_T!Raise(core, "ERR_HEIGHT_SYSTEM", ev)
    BY <1>5, <2>2 DEF AC_T!Raise
  <2>3. CASE ~AC_T!Raise(core, "ERR_HEIGHT_SYSTEM", ev)
    <3>1. /\ acTx' = [ACState |-> AC_T!StrokeDownState(ev),
                      AC_StatusEvent |-> AC_T!StrokeDownStatus(ev), ACInputs |-> switches]
          /\ movedFrom' \in {movedFrom, 2}
      BY <2>3 DEF AC_T!StrokeDownLoop, AC_T!Publish
    <3>2. AC_T!StrokeDownState(ev) = "AC_HOLD"
            => "STATUS_AC_MOVE_DISABLE" \in AC_T!StrokeDownStatus(ev)
      BY DEF AC_T!StrokeDownState, AC_T!StrokeDownStatus, AC_T!EnterStatus
    <3>. QED  BY <1>3, <2>1, <3>1, <3>2 DEF HornLeft
  <2>. QED  BY <2>2, <2>3
<1>10. AC_T!StrokeUpLoop(core, ev) => Result
  <2>. SUFFICES ASSUME AC_T!StrokeUpLoop(core, ev) PROVE Result
    OBVIOUS
  <2>1. AC("AC_RETURN_STROKE")
    BY DEF AC_T!StrokeUpLoop, AC_T!In, AC
  <2>2. CASE hornPos > 0
    <3>1. ASSUME NEW st, AC_T!Stay(st, ev) PROVE Result
      BY <1>3, <2>1, <2>2, <3>1 DEF AC_T!Stay, AC_T!Publish, AC
    <3>. QED  BY <1>6, <3>1 DEF AC_T!StrokeUpLoop, AC_T!Raise, AC_T!Wait
  <2>3. CASE ~(hornPos > 0)
    <3>1. ~AC_T!LeftPart
      BY <1>3, <2>3 DEF AC_T!LeftPart
    <3>. QED  BY <1>5, <3>1 DEF AC_T!StrokeUpLoop, AC_T!Raise, AC_T!Wait
  <2>. QED  BY <2>2, <2>3
<1>11. AC_T!PowerUpLoop(core, ev) \/ AC_T!WeldHoldLoop(core, ev) \/ AC_T!AlarmLoop(core, ev)
         \/ AC_T!EstopLoop(core, ev) => Result
  BY <1>5, <1>6
  DEF AC_T!PowerUpLoop, AC_T!WeldHoldLoop, AC_T!AlarmLoop, AC_T!EstopLoop, AC_T!Idle
<1>12. Result
  BY <1>1, <1>6, <1>7, <1>8, <1>9, <1>10, <1>11 DEF AC_T!RunStateMachine
<1>. QED  BY <1>2, <1>12

\* Only the plant moves the horn, and only the way its valve points.
LEMMA HornMoves ==
  ASSUME [Next]_welder, ~ActuatorTask
  PROVE  /\ UNCHANGED movedFrom
         /\ \/ UNCHANGED hornPos
            \/ horn = "DOWN" /\ hornPos > 0 /\ hornPos' = hornPos - 1
            \/ horn = "UP" /\ hornPos < 2 /\ hornPos' = hornPos + 1
<1>1. CASE AuxClock
  BY <1>1 DEF AuxClock
<1>2. CASE ControlTask \/ PowerTask \/ Generator \/ AlarmReset
  BY <1>2 DEF ControlTask, PowerTask, Generator, AlarmReset, acRest
<1>3. CASE PressureMessage
  BY <1>3 DEF PressureMessage, AC_T!PressureSet, AC_T!plant
<1>4. CASE Plant
  BY <1>4 DEF Plant, AC_T!HornTravel, AC_T!StartSwitchInput, AC_T!EstopInput, AC_T!machine
<1>5. CASE UNCHANGED welder
  BY <1>5 DEF welder, acRest
<1>. QED  BY <1>1, <1>2, <1>3, <1>4, <1>5 DEF Next

LEMMA AlwaysLeft == Spec => []LeftInv
<1>1. Init => LeftInv
  BY DEF Init, AC_T!InitActuator, LeftInv, AC
<1>2. HornInv /\ LeftInv /\ [Next]_welder => LeftInv'
  <2>. SUFFICES ASSUME HornInv, LeftInv, [Next]_welder PROVE LeftInv'
    OBVIOUS
  <2>1. CASE ~ActuatorTask
    <3>1. UNCHANGED <<acTx, horn, movedFrom>>
      BY <2>1, ActuatorKept, HornMoves
    <3>2. hornPos' \in 0 .. 2 /\ (horn = "UP" /\ hornPos > 0 => hornPos' > 0)
      BY <2>1, HornMoves DEF LeftInv
    <3>. QED  BY <3>1, <3>2 DEF LeftInv, AC, HornLeft, Gone
  <2>2. CASE AC_T!ACReceive
    BY <2>2 DEF AC_T!ACReceive, AC_T!machine, AC_T!plant, LeftInv, AC, HornLeft, Gone
  <2>3. CASE AC_T!ACRun
    <3>1. PICK core : ActuatorTurn(core)
      BY <2>3, ActuatorRunCases
    <3>2. /\ UNCHANGED hornPos /\ movedFrom' \in 0 .. 2
          /\ acTx'.ACState = "AC_HOLD" => ~HornLeft'
          /\ HornLeft' => \/ HornLeft \/ AC("AC_DOWN_STROKE")
                          \/ AC("AC_RETURN_STROKE") /\ hornPos > 0
      BY <2>3, StrokeStatus
    <3>3. ASSUME acTx'.ACState = "AC_RETURN_STROKE", HornLeft' PROVE Gone'
      <4>1. horn' = "UP" /\ (AC("AC_HOLD") \/ AC("AC_RETURN_STROKE"))
        BY <3>1, <3>3 DEF ActuatorTurn, HornInv, AC
      <4>2. hornPos > 0
        BY <3>2, <3>3, <4>1 DEF LeftInv, AC, Gone
      <4>. QED  BY <3>2, <4>1, <4>2 DEF Gone
    <3>. QED  BY <3>2, <3>3 DEF LeftInv, AC
  <2>. QED  BY <2>1, <2>2, <2>3 DEF ActuatorTask
<1>. QED  BY <1>1, <1>2, AlwaysHorn, PTL DEF Spec

\* From the trigger to the way back the stroke down is over.
Past ==
  /\ operation = "WELD"
  /\ \/ scObj = "WAIT_FOR_TRIGGER" /\ actions["WAIT_FOR_TRIGGER"] \in {"JUMP", "ALJUMPNORM"}
     \/ scIndex \in 5 .. 9

\* The horn then counts as having left only for the way up, and the actuator does not
\* set out again on the command of the trigger, which lasts one run more.
PastInv ==
  /\ ~(acEvent /\ acBusy)
  /\ Past => ~AC("AC_DOWN_STROKE") /\ (HornLeft => Gone)
  /\ scObj = "WAIT_FOR_TRIGGER" /\ actions["WAIT_FOR_TRIGGER"] \in {"JUMP", "ALJUMPNORM"}
       => \/ AC("AC_HOLD")
          \/ acTx.ACState \in {"AC_ALARM", "AC_ESTOP"} /\ ~acEvent /\ ~acBusy

LEMMA PastCommand ==
  ASSUME SequenceInv, OneInv, AskedInv, Past
  PROVE  /\ acRx.MasterState \notin {"PRE_READY", "DOWN_STROKE"}
         /\ acRx.MasterState = "WAIT_FOR_TRIGGER"
              => /\ scObj = "WAIT_FOR_TRIGGER"
                 /\ actions["WAIT_FOR_TRIGGER"] \in {"JUMP", "ALJUMPNORM"}
<1>1. operation = "WELD" /\ operation \notin {NoOperation, "HEIGHT_CALIBRATE_READY"}
  BY DEF Past, NoOperation
<1>2. isRunning
  <2>1. ~isRunning => scIndex = 1 /\ scObj = "ESTOP"
    BY <1>1 DEF SequenceInv, OneInv, LoadInv
  <2>. QED  BY <2>1 DEF Past
<1>3. acRx.MasterState = "NO_STATE" \/ (actions[scObj] # "INIT" /\ acRx.MasterState = scObj
                                         /\ scObj \in SCSTATES)
  BY <1>1, <1>2 DEF AskedInv, StrokeInv, Resting, OneInv, ActiveInv
<1>4. ASSUME actions[scObj] # "INIT", scObj \in SCSTATES, scIndex \in 5 .. 9
      PROVE  scObj \notin {"PRE_READY", "WAIT_FOR_TRIGGER"}
  <2>1. scObj = List("WELD")[scIndex]
    BY <1>1, <1>4 DEF OneInv, ActiveInv, Under
  <2>2. scIndex \in {5, 6, 7, 8, 9}
    BY <1>4
  <2>. QED  BY <2>1, <2>2, WeldObjects
<1>5. scObj # "DOWN_STROKE" \/ scObj \notin SCSTATES
  BY DEF SCSTATES
<1>. QED  BY <1>3, <1>4, <1>5 DEF Past

\* A tick comes past the trigger only with the horn on the part.
LEMMA TickPast ==
  ASSUME CommandsTyped, SequenceInv, OneInv, RunStateMachine, Past'
  PROVE  Past \/ AC("AC_HOLD")
<1>1. /\ operation' = operation /\ operation = "WELD" /\ operation # NoOperation
      /\ Len(List(operation)) = 11 /\ AlarmStateIndex = 10 /\ EStopStateIndex = 11
  BY TickCases, WeldList DEF Past, NoOperation, AlarmStateIndex, EStopStateIndex
<1>2. ~RunEstop
  <2>1. RunEstop => scObj' = "ESTOP" /\ scIndex' \in {11, 12}
    BY <1>1 DEF RunEstop
  <2>. QED  BY <2>1 DEF Past
<1>3. ~isLoading
  <2>1. isLoading => scIndex' = 1 /\ scObj' = scObj
    BY DEF RunStateMachine
  <2>2. isLoading => scObj = "ESTOP"
    BY <1>1 DEF OneInv, LoadInv
  <2>. QED  BY <2>1, <2>2 DEF Past
<1>4. PICK i, s : RunsObject(i, s)
  BY <1>2, <1>3, TickCases
<1>5. /\ s \in SCSTATES /\ scObj' = s /\ i \in 1 .. 11 /\ (i = scIndex \/ i = 1)
      /\ s = List("WELD")[i] /\ (actions[s] # "INIT" => scObj = s)
  BY <1>1, <1>4, ObjectTick DEF RunsObject
<1>6. CASE scIndex' = i /\ Step(s)
  <2>1. CASE s = "WAIT_FOR_TRIGGER" /\ actions'["WAIT_FOR_TRIGGER"] \in {"JUMP", "ALJUMPNORM"}
    BY <1>6, <2>1, TriggerPass
  <2>2. CASE i \in 5 .. 9
    BY <1>1, <1>5, <2>2 DEF Past
  <2>. QED  BY <1>5, <1>6, <2>1, <2>2 DEF Past
<1>7. CASE Leaving(s) /\ Leave(s, i + 1)
  <2>1. actions'[s] = "INIT" /\ scIndex' = i + 1
    BY <1>5, <1>7 DEF Leave, SetAction, SequenceInv
  <2>2. i + 1 \in 5 .. 9
    BY <1>5, <2>1 DEF Past
  <2>3. CASE i = 4
    BY <1>1, <1>5, <1>7, <2>3, WeldObjects DEF Past, Leaving
  <2>4. CASE i \in 5 .. 9
    BY <1>1, <1>5, <2>4 DEF Past
  <2>. QED  BY <1>5, <2>2, <2>3, <2>4
<1>8. CASE Leave(s, AlarmStateIndex)
  <2>1. actions'[s] = "INIT" /\ scIndex' = 10
    BY <1>1, <1>5, <1>8 DEF Leave, SetAction, SequenceInv
  <2>. QED  BY <1>5, <2>1 DEF Past
<1>. QED  BY <1>4, <1>6, <1>7, <1>8 DEF RunsObject

\* It gives the trigger for given only with the horn on the part.
LEMMA TickTriggered ==
  ASSUME CommandsTyped, SequenceInv, OneInv, RunStateMachine, scObj' = "WAIT_FOR_TRIGGER",
         actions'["WAIT_FOR_TRIGGER"] \in {"JUMP", "ALJUMPNORM"}
  PROVE  AC("AC_HOLD")
<1>1. CASE isLoading /\ UNCHANGED <<scObj, actions>>
  <2>1. Under("WAIT_FOR_TRIGGER") /\ operation # NoOperation
    BY <1>1 DEF OneInv, ActiveInv, SCSTATES
  <2>. QED  BY <1>1, <2>1 DEF OneInv, LoadInv
<1>2. ~RunEstop
  BY DEF RunEstop
<1>3. ASSUME NEW i, NEW s, RunsObject(i, s) PROVE AC("AC_HOLD")
  <2>1. s = "WAIT_FOR_TRIGGER"
    BY <1>3 DEF RunsObject
  <2>2. ~ \E next : Leave(s, next)
    BY <2>1 DEF Leave, SetAction, SequenceInv, SCSTATES
  <2>. QED  BY <1>3, <2>1, <2>2, TriggerPass DEF RunsObject
<1>. QED  BY <1>1, <1>2, <1>3, TickCases

LEMMA ActuatorPast ==
  ASSUME SequenceInv, OneInv, AskedInv, HornInv, LeftInv, PastInv, AC_T!ACRun,
         UNCHANGED <<operation, scIndex, scObj, actions>>
  PROVE  PastInv'
<1>. DEFINE Triggered == scObj = "WAIT_FOR_TRIGGER"
                          /\ actions["WAIT_FOR_TRIGGER"] \in {"JUMP", "ALJUMPNORM"}
<1>1. PICK core : ActuatorTurn(core)
  BY ActuatorRunCases
<1>2. acBusy /\ ~acBusy' /\ acEvent' = acEvent
  BY DEF AC_T!ACRun
<1>3. Past' = Past
  BY DEF Past
<1>4. Triggered => AC("AC_HOLD") /\ Past
  <2>1. Triggered => AC("AC_HOLD")
    BY <1>2 DEF PastInv
  <2>2. Triggered => Under("WAIT_FOR_TRIGGER") /\ operation # NoOperation
    BY DEF OneInv, ActiveInv, SCSTATES
  <2>3. Triggered => operation = "WELD"
    BY <2>2, ObjectOf DEF Under
  <2>. QED  BY <2>1, <2>3 DEF Past
<1>5. ASSUME Past PROVE ~AC("AC_DOWN_STROKE")' /\ (HornLeft' => Gone')
  <2>1. ~AC("AC_DOWN_STROKE") /\ (HornLeft => Gone)
    BY <1>5 DEF PastInv
  <2>2. /\ acRx.MasterState \notin {"PRE_READY", "DOWN_STROKE"}
        /\ acRx.MasterState = "WAIT_FOR_TRIGGER" => Triggered
    BY <1>5, PastCommand
  <2>3. ~AC("AC_DOWN_STROKE")' /\ horn' \in {horn, "UP"}
    BY <1>1, <1>4, <2>1, <2>2 DEF ActuatorTurn, AC
  <2>4. /\ UNCHANGED hornPos
        /\ HornLeft' => HornLeft \/ AC("AC_DOWN_STROKE") \/ (AC("AC_RETURN_STROKE") /\ hornPos > 0)
    BY StrokeStatus
  <2>5. AC("AC_RETURN_STROKE") => horn = "UP"
    BY DEF HornInv, AC
  <2>. QED  BY <2>1, <2>3, <2>4, <2>5 DEF Gone
<1>6. ASSUME Triggered
      PROVE  AC("AC_HOLD")' \/ (acTx'.ACState \in {"AC_ALARM", "AC_ESTOP"} /\ ~acEvent' /\ ~acBusy')
  <2>1. AC("AC_HOLD") /\ ~acEvent
    BY <1>2, <1>4, <1>6 DEF PastInv
  <2>2. acRx.MasterState \in {"NO_STATE", "WAIT_FOR_TRIGGER"}
    <3>1. operation = "WELD" /\ operation \notin {NoOperation, "HEIGHT_CALIBRATE_READY"}
      BY <1>4, <1>6 DEF Past, NoOperation
    <3>2. isRunning
      BY <1>6, <3>1 DEF OneInv, LoadInv
    <3>. QED  BY <1>6, <3>1, <3>2 DEF AskedInv, StrokeInv, Resting
  <2>. QED  BY <1>1, <1>2, <2>1, <2>2 DEF ActuatorTurn, AC
<1>. QED  BY <1>2, <1>3, <1>5, <1>6 DEF PastInv, AC

LEMMA AlwaysPast == ~Overrun => (Spec /\ []OneOperation => []PastInv)
<1>. SUFFICES ASSUME ~Overrun PROVE Spec /\ []OneOperation => []PastInv
  OBVIOUS
<1>1. Init => PastInv
  BY DEF Init, InitSequence, AC_T!InitActuator, PastInv, Past, SCSTATES, NoOperation
<1>2. CommandsTyped /\ HandsKnown /\ OneInv /\ OneOperation /\ AskedInv /\ HornInv /\ LeftInv
        /\ PastInv /\ [Next]_welder => PastInv'
  <2>. SUFFICES ASSUME CommandsTyped, HandsKnown, OneInv, OneOperation, AskedInv, HornInv, LeftInv,
                       PastInv, [Next]_welder
                PROVE  PastInv'
    OBVIOUS
  <2>. DEFINE Triggered == scObj = "WAIT_FOR_TRIGGER"
                            /\ actions["WAIT_FOR_TRIGGER"] \in {"JUMP", "ALJUMPNORM"}
  <2>1. CASE AuxClock
    <3>1. /\ RunStateMachine /\ ~acBusy /\ ~acEvent
          /\ UNCHANGED <<horn, acTx, acBusy, hornPos>>
      BY <2>1 DEF AuxClock, Settled, Quiet, RunStateMachine, tx
    <3>2. Past' => ~AC("AC_DOWN_STROKE") /\ (HornLeft => Gone)
      BY <3>1, TickPast DEF HandsKnown, PastInv, LeftInv, AC
    <3>3. Triggered' => AC("AC_HOLD")
      BY <3>1, TickTriggered DEF HandsKnown
    <3>. QED  BY <3>1, <3>2, <3>3 DEF PastInv, AC, HornLeft, Gone
  <2>2. CASE ~AuxClock /\ ~ActuatorTask
    <3>1. UNCHANGED <<acTx, horn, acEvent, acBusy>>
      BY <2>2, ActuatorKept, EventsKept
    <3>2. Gone => Gone'
      BY <2>2, <3>1, HornMoves DEF Gone, LeftInv
    <3>3. CASE ControlTask /\ ListBuilt
      <4>1. scObj' = "ESTOP" /\ scIndex' = 1
        BY <3>3 DEF ListBuilt, HandsKnown, SequenceInv
      <4>. QED  BY <3>1, <4>1 DEF PastInv, Past
    <3>4. CASE ControlTask /\ ObjectEnded
      <4>1. /\ actions'["WAIT_FOR_TRIGGER"] = actions["WAIT_FOR_TRIGGER"] /\ operation' # "WELD"
            /\ UNCHANGED <<operation, scIndex, scObj>>
        BY <3>4 DEF ObjectEnded, HandsKnown, SequenceInv
      <4>. QED  BY <3>1, <4>1 DEF PastInv, Past, AC
    <3>5. CASE UNCHANGED <<operation, scIndex, scObj, actions>>
      BY <3>1, <3>2, <3>5 DEF PastInv, Past, AC, HornLeft
    <3>6. ControlTask /\ ObjectsKept => UNCHANGED <<operation, scIndex, scObj, actions>>
      BY DEF ObjectsKept
    <3>7. Elsewhere => UNCHANGED <<operation, scIndex, scObj, actions>>
      BY SequenceKept
    <3>. QED
      BY <2>2, <3>3, <3>4, <3>5, <3>6, <3>7, ControlCases DEF Next, Elsewhere, HandsKnown
  <2>3. CASE ActuatorTask
    <3>1. UNCHANGED <<operation, scIndex, scObj, actions>>
      BY <2>3, SequenceKept DEF Elsewhere
    <3>2. CASE AC_T!ACRun
      BY <3>1, <3>2, ActuatorPast DEF HandsKnown
    <3>3. CASE AC_T!ACReceive
      BY <3>1, <3>3
      DEF AC_T!ACReceive, AC_T!machine, AC_T!plant, PastInv, Past, AC, HornLeft, Gone
    <3>. QED  BY <2>3, <3>2, <3>3 DEF ActuatorTask
  <2>. QED  BY <2>1, <2>2, <2>3
<1>. QED
  BY <1>1, <1>2, AlwaysSequence, AlwaysOne, AlwaysAsked, AlwaysHorn, AlwaysLeft, CommandsCorrect,
     PTL DEF Spec

\* The object s runs, between its Enter and its Exit.
Runs(s) == scObj = s /\ actions[s] # "INIT"

Asked(ctrl) == ctrl \in pcRx.MasterEvents

\* A burst is asked for once, with its time not begun, and while it may still start the
\* sonics are enabled: every end of it disables them.  Before the weld it is asked for
\* with the horn on its way and starts at the next run of the power supply; after it
\* with the horn off the part.
BurstInv ==
  /\ Runs("WAIT_FOR_TRIGGER") => pcRx.MasterState = "WAIT_FOR_TRIGGER"
  /\ \A s \in {"WAIT_FOR_TRIGGER", "WAIT_FOR_READY_POSITION"} :
        Runs(s) /\ ~Asked("CTRL_PC_SONIC_DISABLE") => timers.timeout = 0 \/ PC("PC_WELD_RUN")
  /\ Runs("WAIT_FOR_TRIGGER") /\ Asked("CTRL_PREBURST_ENABLE") /\ ~Asked("CTRL_PC_SONIC_DISABLE")
        => PC("PC_WELD_RUN") \/ (PC("PC_READY") /\ ~Powered /\ HornLeft)
  /\ Runs("WAIT_FOR_READY_POSITION") /\ (Asked("CTRL_AFTERBURST_ENABLE") \/ timers.delay > 0)
        => Gone

\* A pass of an object with a burst.
LEMMA BurstPass ==
  ASSUME CommandsTyped, SequenceInv, timers \in Timers,
         NEW s \in {"WAIT_FOR_TRIGGER", "WAIT_FOR_READY_POSITION"}, Step(s)
  PROVE  /\ actions[s] = "INIT"
              => /\ timers' = NoTime /\ pcRx'.MasterState = s
                 /\ s = "WAIT_FOR_TRIGGER" => ~Asked("CTRL_PREBURST_ENABLE")'
                 /\ s = "WAIT_FOR_READY_POSITION" => ~Asked("CTRL_AFTERBURST_ENABLE")'
         /\ actions[s] # "INIT"
              => /\ Asked("CTRL_PC_SONIC_DISABLE")' = Asked("CTRL_PC_SONIC_DISABLE")
                 /\ pcRx'.MasterState = pcRx.MasterState
                 /\ timers'.timeout = timers.timeout \/ PC("PC_WELD_RUN")
                 /\ s = "WAIT_FOR_TRIGGER" /\ Asked("CTRL_PREBURST_ENABLE")'
                      => Asked("CTRL_PREBURST_ENABLE") \/ (PC("PC_READY") /\ HornLeft)
                 /\ s = "WAIT_FOR_READY_POSITION"
                      /\ (Asked("CTRL_AFTERBURST_ENABLE")' \/ timers'.delay > 0)
                      => Asked("CTRL_AFTERBURST_ENABLE") \/ timers.delay > 0 \/ HornLeft
<1>. DEFINE Kept ==
              /\ Asked("CTRL_PC_SONIC_DISABLE")' = Asked("CTRL_PC_SONIC_DISABLE")
              /\ pcRx'.MasterState = pcRx.MasterState
              /\ timers'.timeout = timers.timeout \/ PC("PC_WELD_RUN")
              /\ s = "WAIT_FOR_TRIGGER" /\ Asked("CTRL_PREBURST_ENABLE")'
                   => Asked("CTRL_PREBURST_ENABLE") \/ (PC("PC_READY") /\ HornLeft)
              /\ s = "WAIT_FOR_READY_POSITION"
                   /\ (Asked("CTRL_AFTERBURST_ENABLE")' \/ timers'.delay > 0)
                   => Asked("CTRL_AFTERBURST_ENABLE") \/ timers.delay > 0 \/ HornLeft
<1>1. CASE actions[s] = "INIT" /\ Enter(s)
  <2>1. timers' = NoTime /\ pcRx' = EnterPC(s)
    BY <1>1 DEF Enter
  <2>2. CASE s = "WAIT_FOR_TRIGGER"
    BY <1>1, <2>1, <2>2 DEF EnterPC, Order, Asked
  <2>3. CASE s = "WAIT_FOR_READY_POSITION"
    BY <1>1, <2>1, <2>3 DEF EnterPC, Order, Asked
  <2>. QED  BY <2>2, <2>3
<1>2. CASE actions[s] = "FAIL" /\ Fail(s)
  BY <1>2 DEF Fail, rx, Asked
<1>3. CASE actions[s] = "LOOP" /\ Loop(s)
  <2>1. UNCHANGED <<rx, timers>> => Kept
    BY DEF rx, Asked
  <2>2. GiveUp(s) \/ Abort(s) \/ BurstWaits(s) \/ (\E acState : StrokeEnds(s, acState)) => Kept
    BY <2>1 DEF GiveUp, Abort, BurstWaits, StrokeEnds
  <2>3. ASSUME NEW ctrl \in {"CTRL_PREBURST_ENABLE", "CTRL_AFTERBURST_ENABLE"}, NEW duration,
               BurstRuns(s, ctrl, duration)
        PROVE  Kept
    <3>1. PC("PC_WELD_RUN") /\ timers'.delay = timers.delay
      BY <2>3 DEF BurstRuns, Timers
    <3>2. UNCHANGED pcRx \/ pcRx' = Bits(pcRx, {ctrl}, {})
      BY <2>3 DEF BurstRuns
    <3>. QED  BY <3>1, <3>2 DEF Bits, Order, Asked
  <2>4. ASSUME s = "WAIT_FOR_TRIGGER", PC("PC_READY"), HornLeft,
               BurstStarts(s, "CTRL_PREBURST_ENABLE")
        PROVE  Kept
    BY <2>4 DEF BurstStarts, Bits, Order, Asked
  <2>5. ASSUME s = "WAIT_FOR_READY_POSITION", AfterBurstWait(s) PROVE Kept
    <3>1. CASE (HornLeft \/ timers.delay > 0) /\ BurstStarts(s, "CTRL_AFTERBURST_ENABLE")
      BY <2>5, <3>1 DEF BurstStarts, Bits, Order, Asked
    <3>2. CASE /\ HornLeft \/ timers.delay > 0
               /\ timers' = [timers EXCEPT !.delay = @ + 1] /\ UNCHANGED rx
      <4>1. timers'.timeout = timers.timeout
        BY <3>2 DEF Timers
      <4>. QED  BY <2>5, <3>2, <4>1 DEF rx, Asked
    <3>. QED  BY <2>2, <2>5, <3>1, <3>2 DEF AfterBurstWait
  <2>6. CASE s = "WAIT_FOR_TRIGGER"
    <3>1. WaitForTriggerLoop(s)
      BY <1>3, <2>6 DEF Loop
    <3>. QED  BY <1>3, <2>2, <2>3, <2>4, <2>6, <3>1 DEF WaitForTriggerLoop
  <2>7. CASE s = "WAIT_FOR_READY_POSITION"
    <3>1. WaitForReadyPositionLoop(s)
      BY <1>3, <2>7 DEF Loop
    <3>. QED  BY <1>3, <2>2, <2>3, <2>5, <2>7, <3>1 DEF WaitForReadyPositionLoop
  <2>. QED  BY <2>6, <2>7
<1>. QED  BY <1>1, <1>2, <1>3 DEF Step

LEMMA TickBurst ==
  ASSUME CommandsTyped, SequenceInv, OneInv, TimersTyped, PastInv, BurstInv, Powered,
         RunStateMachine, ~Powered', UNCHANGED <<horn, hornPos>>
  PROVE  BurstInv'
<1>1. UNCHANGED <<operation, pcTx, acTx>>
  BY TickCases DEF RunStateMachine, tx
<1>2. CASE isLoading /\ UNCHANGED <<rx, scObj, actions, timers>>
  BY <1>1, <1>2 DEF BurstInv, Runs, Asked, rx, PC, Gone
<1>3. CASE RunEstop
  BY <1>3 DEF RunEstop, BurstInv, Runs
<1>4. ASSUME NEW i, NEW s, RunsObject(i, s) PROVE BurstInv'
  <2>1. s \in SCSTATES /\ scObj' = s /\ i \in 1 .. Len(List(operation)) /\ s = List(operation)[i]
    BY <1>4, ObjectTick DEF RunsObject
  <2>2. CASE ~Runs(s)' \/ s \notin {"WAIT_FOR_TRIGGER", "WAIT_FOR_READY_POSITION"}
    BY <2>1, <2>2 DEF BurstInv, Runs
  <2>3. CASE Runs(s)' /\ s \in {"WAIT_FOR_TRIGGER", "WAIT_FOR_READY_POSITION"}
    <3>1. Step(s)
      BY <1>4, <2>1, <2>3 DEF RunsObject, Leave, SetAction, SequenceInv, Runs
    <3>2. operation = "WELD" /\ operation # NoOperation
          /\ (s = "WAIT_FOR_READY_POSITION" => i = 9)
      BY <2>1, <2>3, ObjectOf DEF NoOperation
    <3>3. CASE actions[s] = "INIT"
      BY <1>1, <2>1, <2>3, <3>1, <3>3, BurstPass DEF BurstInv, Runs, NoTime, TimersTyped, PC, Gone
    <3>4. CASE actions[s] # "INIT"
      <4>1. scObj = s /\ Runs(s)
        BY <1>4, <3>2, <3>4, ObjectTick DEF Runs
      <4>2. s = "WAIT_FOR_READY_POSITION" /\ HornLeft => Gone
        <5>1. s = "WAIT_FOR_READY_POSITION" => scIndex = 9
          <6>1. Under(s)
            BY <2>1, <3>2, <3>4 DEF OneInv, ActiveInv
          <6>. QED  BY <6>1, ObjectOf DEF Under
        <5>2. s = "WAIT_FOR_READY_POSITION" => Past
          BY <3>2, <5>1 DEF Past
        <5>. QED  BY <5>2 DEF PastInv
      <4>3. /\ Asked("CTRL_PC_SONIC_DISABLE")' = Asked("CTRL_PC_SONIC_DISABLE")
            /\ pcRx'.MasterState = pcRx.MasterState
            /\ timers'.timeout = timers.timeout \/ PC("PC_WELD_RUN")
            /\ s = "WAIT_FOR_TRIGGER" /\ Asked("CTRL_PREBURST_ENABLE")'
                 => Asked("CTRL_PREBURST_ENABLE") \/ (PC("PC_READY") /\ HornLeft)
            /\ s = "WAIT_FOR_READY_POSITION"
                 /\ (Asked("CTRL_AFTERBURST_ENABLE")' \/ timers'.delay > 0)
                 => Asked("CTRL_AFTERBURST_ENABLE") \/ timers.delay > 0 \/ HornLeft
        BY <2>3, <3>1, <3>4, BurstPass DEF TimersTyped
      <4>4. CASE s = "WAIT_FOR_TRIGGER"
        <5>1. (Asked("CTRL_PREBURST_ENABLE") /\ ~Asked("CTRL_PC_SONIC_DISABLE")
                 => PC("PC_WELD_RUN"))
              /\ (~Asked("CTRL_PC_SONIC_DISABLE") => timers.timeout = 0 \/ PC("PC_WELD_RUN"))
              /\ pcRx.MasterState = "WAIT_FOR_TRIGGER"
          BY <4>1, <4>4 DEF BurstInv
        <5>2. PC("PC_WELD_RUN")' = PC("PC_WELD_RUN") /\ PC("PC_READY")' = PC("PC_READY")
              /\ HornLeft' = HornLeft
          BY <1>1 DEF PC, HornLeft
        <5>. QED  BY <2>1, <4>3, <4>4, <5>1, <5>2 DEF BurstInv, Runs
      <4>5. CASE s = "WAIT_FOR_READY_POSITION"
        <5>1. (~Asked("CTRL_PC_SONIC_DISABLE") => timers.timeout = 0 \/ PC("PC_WELD_RUN"))
              /\ (Asked("CTRL_AFTERBURST_ENABLE") \/ timers.delay > 0 => Gone)
          BY <4>1, <4>5 DEF BurstInv
        <5>2. PC("PC_WELD_RUN")' = PC("PC_WELD_RUN") /\ Gone' = Gone
          BY <1>1 DEF PC, Gone
        <5>. QED  BY <2>1, <4>2, <4>3, <4>5, <5>1, <5>2 DEF BurstInv, Runs
      <4>. QED  BY <2>3, <4>4, <4>5
    <3>. QED  BY <3>3, <3>4
  <2>. QED  BY <2>2, <2>3
<1>5. isLoading /\ ~isRunning' => UNCHANGED timers
  BY DEF RunStateMachine
<1>. QED  BY <1>2, <1>3, <1>4, <1>5, TickCases

\* A run of the power supply: the bits of a burst stay, sonics once disabled stay so, a
\* burst goes on or is disabled, and one that is asked for starts; nothing else raises
\* the sonics for it.
LEMMA PowerRunBurst ==
  ASSUME CommandsTyped, PowerTyped, PS!PSRun
  PROVE  /\ \A ctrl \in {"CTRL_PREBURST_ENABLE", "CTRL_AFTERBURST_ENABLE"} :
              Asked(ctrl)' = Asked(ctrl)
         /\ Asked("CTRL_PC_SONIC_DISABLE") => Asked("CTRL_PC_SONIC_DISABLE")'
         /\ ~Asked("CTRL_PC_SONIC_DISABLE")'
              /\ (PC("PC_WELD_RUN")
                   \/ (PC("PC_READY") /\ pcRx.MasterState = "WAIT_FOR_TRIGGER"
                         /\ Asked("CTRL_PREBURST_ENABLE")))
              => PC("PC_WELD_RUN")'
         /\ "RUN" \in psOut' \ psOut
              => /\ PC("PC_READY") /\ ~Asked("CTRL_PC_SONIC_DISABLE")
                 /\ pcRx.MasterState \in RunCommands
                 /\ pcRx.MasterState = "WAIT_FOR_TRIGGER" => Asked("CTRL_PREBURST_ENABLE")
                 /\ pcRx.MasterState = "WAIT_FOR_READY_POSITION" => Asked("CTRL_AFTERBURST_ENABLE")
<1>. DEFINE Bit == "CTRL_PC_SONIC_DISABLE"
            Kept == /\ \A ctrl \in {"CTRL_PREBURST_ENABLE", "CTRL_AFTERBURST_ENABLE"} :
                          Asked(ctrl)' = Asked(ctrl)
                    /\ Asked(Bit) => Asked(Bit)'
            Change(next) == /\ Kept /\ pcTx'.PCState = next
                            /\ next \in PS!DisablingStates => Asked(Bit)'
                            /\ "RUN" \in psOut' \ psOut => next = "PC_WELD_RUN" /\ ~Asked(Bit)
            Stay == Kept /\ pcTx'.PCState = pcTx.PCState /\ psOut' = psOut
            Due(s) == /\ s = "WAIT_FOR_TRIGGER" => Asked("CTRL_PREBURST_ENABLE")
                      /\ s = "WAIT_FOR_READY_POSITION" => Asked("CTRL_AFTERBURST_ENABLE")
<1>1. PICK fault : PS!RunStateMachine(fault)
  BY DEF PS!PSRun
<1>2. ASSUME NEW next \in PCSTATES, NEW status, PS!ChangeState(next, status) PROVE Change(next)
  <2>1. /\ pcTx'.PCState = next
        /\ psOut' = PS!EnterOutputs(next, PS!ExitOutputs)
        /\ pcRx'.MasterEvents = IF next \in PS!DisablingStates
                                THEN pcRx.MasterEvents \cup {Bit} ELSE pcRx.MasterEvents
    BY <1>2 DEF PS!ChangeState, CommandsTyped, RxPDO_PC
  <2>2. PS!ExitOutputs \subseteq psOut
    BY DEF PS!ExitOutputs
  <2>3. "RUN" \in psOut' \ psOut => next = "PC_WELD_RUN" /\ ~Asked(Bit)
    BY <1>2, <2>1, <2>2
    DEF PS!EnterOutputs, PS!AlarmEnterOutputs, PS!WeldEnterOutputs, PS!SeekEnterOutputs,
        PS!SeekOutput, PS!Ctrl, Asked, PCSTATES
  <2>. QED  BY <2>1, <2>3 DEF Asked
<1>3. ASSUME NEW status, PS!StayInState(status) PROVE Stay
  BY <1>3 DEF PS!StayInState, Asked, PowerTyped, TxPDO_PC
<1>4. {"PC_READY", "PC_WELD_RUN", "PC_SEEK_RUN", "PC_ALARM", "PC_ESTOP"} \subseteq PCSTATES
      /\ {"PC_READY", "PC_ALARM", "PC_ESTOP"} \subseteq PS!DisablingStates
  BY DEF PCSTATES, PS!DisablingStates
<1>. HIDE DEF Kept
<1>. DEFINE Outcome ==
              \/ Stay /\ ~(PC("PC_READY") /\ pcRx.MasterState = "WAIT_FOR_TRIGGER"
                            /\ Asked("CTRL_PREBURST_ENABLE"))
              \/ \E next \in {"PC_READY", "PC_ALARM", "PC_ESTOP"} : Change(next)
              \/ PC("PC_READY") /\ Change("PC_SEEK_RUN") /\ pcRx.MasterState = "SEEK_SONIC_ON"
              \/ /\ PC("PC_READY") /\ Change("PC_WELD_RUN")
                 /\ pcRx.MasterState \in RunCommands /\ Due(pcRx.MasterState)
<1>5. Outcome
  <2>. HIDE DEF Change, Stay
  <2>1. PS!ReadyLoop(fault) => Outcome
    <3>. SUFFICES ASSUME PS!ReadyLoop(fault) PROVE Outcome
      OBVIOUS
    <3>. QED  BY <1>2, <1>3, <1>4 DEF PS!ReadyLoop, PS!ReadyCommand, PS!Burst, PS!Ctrl, PC, Asked,
              RunCommands
  <2>. QED  BY <1>1, <1>2, <1>3, <1>4, <2>1
       DEF PS!RunStateMachine, PS!WeldRunLoop, PS!SeekRunLoop, PS!AlarmLoop, PS!EstopLoop, PC
<1>. QED  BY <1>4, <1>5 DEF Kept, PC

\* The horn on its way up from the part is not sent down again before the release.
LEMMA ActuatorBurst ==
  ASSUME SequenceInv, OneInv, AskedInv, LeftInv, AC_T!ACRun, Runs("WAIT_FOR_READY_POSITION"), Gone
  PROVE  Gone'
<1>1. PICK core : ActuatorTurn(core)
  BY ActuatorRunCases
<1>2. UNCHANGED hornPos
  BY StrokeStatus
<1>3. operation = "WELD"
  <2>1. Under("WAIT_FOR_READY_POSITION") \/ operation = NoOperation
    BY DEF Runs, OneInv, ActiveInv, SCSTATES
  <2>2. operation # NoOperation
    BY DEF Runs, OneInv, ActiveInv
  <2>. QED  BY <2>1, <2>2, ObjectOf DEF Under
<1>4. acRx.MasterState \in {"NO_STATE", "PRE_READY", "WAIT_FOR_READY_POSITION"}
  BY <1>3 DEF AskedInv, StrokeInv, Runs
<1>5. horn' = "UP"
  BY <1>1, <1>4 DEF ActuatorTurn, Gone
<1>. QED  BY <1>2, <1>5 DEF Gone

LEMMA AlwaysBurst == ~Overrun => (Spec /\ []OneOperation => []BurstInv)
<1>. SUFFICES ASSUME ~Overrun PROVE Spec /\ []OneOperation => []BurstInv
  OBVIOUS
<1>1. Init => BurstInv
  BY DEF Init, InitSequence, BurstInv, Runs, SCSTATES
<1>2. CommandsTyped /\ HandsKnown /\ OneInv /\ OneOperation /\ AskedInv /\ PowerTyped /\ TimersTyped
        /\ HornInv /\ LeftInv /\ PastInv /\ BurstInv /\ [Next]_welder => BurstInv'
  <2>. SUFFICES ASSUME CommandsTyped, HandsKnown, OneInv, OneOperation, AskedInv, PowerTyped,
                       TimersTyped, HornInv, LeftInv, PastInv, BurstInv, [Next]_welder
                PROVE  BurstInv'
    OBVIOUS
  <2>1. CASE AuxClock
    <3>1. Powered /\ ~Powered' /\ RunStateMachine /\ UNCHANGED <<horn, hornPos>>
      BY <2>1 DEF AuxClock, Settled, Quiet, Powered
    <3>. QED  BY <3>1, TickBurst DEF HandsKnown
  <2>2. CASE PowerTask /\ PS!PSReceive
    <3>1. /\ UNCHANGED <<operation, scObj, actions, timers, pcRx, pcTx, acTx, horn, hornPos>>
          /\ ~Powered'
      BY <2>2 DEF PowerTask, PS!PSReceive, own, acRest, Powered
    <3>. QED  BY <3>1 DEF BurstInv, Runs, Asked, PC, HornLeft, Gone
  <2>3. CASE PowerTask /\ PS!PSRun
    <3>1. UNCHANGED <<scObj, actions, timers, horn, hornPos>>
      BY <2>3 DEF PowerTask, own, acRest
    <3>2. pcRx'.MasterState = pcRx.MasterState
      BY <2>3, PowerRunTypes
    <3>3. /\ \A ctrl \in {"CTRL_PREBURST_ENABLE", "CTRL_AFTERBURST_ENABLE"} :
               Asked(ctrl)' = Asked(ctrl)
          /\ Asked("CTRL_PC_SONIC_DISABLE") => Asked("CTRL_PC_SONIC_DISABLE")'
          /\ ~Asked("CTRL_PC_SONIC_DISABLE")'
               /\ (PC("PC_WELD_RUN")
                    \/ (PC("PC_READY") /\ pcRx.MasterState = "WAIT_FOR_TRIGGER"
                          /\ Asked("CTRL_PREBURST_ENABLE")))
               => PC("PC_WELD_RUN")'
      BY <2>3, PowerRunBurst
    <3>4. \A s : Runs(s)' = Runs(s)
      BY <3>1 DEF Runs
    <3>5. (Asked("CTRL_PREBURST_ENABLE") <=> Asked("CTRL_PREBURST_ENABLE")')
          /\ (Asked("CTRL_AFTERBURST_ENABLE") <=> Asked("CTRL_AFTERBURST_ENABLE")')
      BY <3>3
    <3>6. Gone' = Gone
      BY <3>1 DEF Gone
    <3>. HIDE DEF Runs, Asked, PC, Gone
    <3>. QED  BY <3>1, <3>2, <3>3, <3>4, <3>5, <3>6 DEF BurstInv
  <2>4. CASE ActuatorTask
    <3>1. UNCHANGED <<scObj, actions, timers, pcRx, pcTx, psEvent, psBusy>> /\ Powered
      BY <2>4 DEF ActuatorTask, own, psRest, Powered
    <3>2. Runs("WAIT_FOR_READY_POSITION") /\ Gone => Gone'
      <4>1. AC_T!ACRun /\ Runs("WAIT_FOR_READY_POSITION") /\ Gone => Gone'
        BY ActuatorBurst DEF HandsKnown
      <4>2. AC_T!ACReceive => Gone' = Gone
        BY DEF AC_T!ACReceive, AC_T!machine, AC_T!plant, Gone
      <4>. QED  BY <2>4, <4>1, <4>2 DEF ActuatorTask
    <3>. QED  BY <3>1, <3>2 DEF BurstInv, Runs, Asked, PC
  <2>5. CASE ~AuxClock /\ ~PowerTask /\ ~ActuatorTask
    <3>1. UNCHANGED <<acTx, horn, pcRx, pcTx, psEvent, psBusy>>
      BY <2>5, ActuatorKept, PowerKept
    <3>2. Gone => Gone'
      BY <2>5, <3>1, HornMoves DEF Gone, LeftInv
    <3>3. ASSUME UNCHANGED <<scObj, timers>>,
                 \A s \in {"WAIT_FOR_TRIGGER", "WAIT_FOR_READY_POSITION"} : actions'[s] = actions[s]
          PROVE  BurstInv'
      BY <3>1, <3>2, <3>3 DEF BurstInv, Runs, Asked, PC, HornLeft, Powered
    <3>4. CASE ControlTask /\ ListBuilt
      <4>1. \A s : scObj' = "ESTOP"
        BY <3>4 DEF ListBuilt
      <4>. QED  BY <4>1 DEF BurstInv, Runs
    <3>5. CASE ControlTask /\ ObjectEnded
      BY <3>3, <3>5 DEF ObjectEnded, HandsKnown, SequenceInv, SCSTATES
    <3>6. ControlTask /\ ObjectsKept => UNCHANGED <<scObj, timers, actions>>
      BY DEF ObjectsKept
    <3>7. Elsewhere => UNCHANGED <<scObj, timers, actions>>
      BY SequenceKept, RecordKept
    <3>. QED
      BY <2>5, <3>3, <3>4, <3>5, <3>6, <3>7, ControlCases DEF Next, Elsewhere, HandsKnown
  <2>. QED  BY <2>1, <2>2, <2>3, <2>4, <2>5 DEF PowerTask
<1>. QED
  BY <1>1, <1>2, AlwaysSequence, AlwaysOne, AlwaysAsked, AlwaysTimers, AlwaysSonic, AlwaysHorn,
     AlwaysLeft, AlwaysPast, CommandsCorrect, PTL DEF Spec, SonicInv

\* A burst starts once, with its time not begun and with the horn where it is meant for:
\* before the weld on its way down, after it off the part and on its way up, with the
\* tasks in time and one operation at a time.
THEOREM BurstsInStroke == ~Overrun => (Spec /\ []OneOperation => BurstInStroke)
<1>. SUFFICES ASSUME ~Overrun PROVE Spec /\ []OneOperation => BurstInStroke
  OBVIOUS
<1>1. CommandsTyped /\ PowerTyped /\ AskedInv /\ BurstInv /\ [Next]_welder
        => [(scObj \in {"WAIT_FOR_TRIGGER", "WAIT_FOR_READY_POSITION"} /\ "RUN" \in psOut' \ psOut)
              => /\ timers.timeout = 0
                 /\ IF scObj = "WAIT_FOR_TRIGGER" THEN HornLeft ELSE hornPos > 0]_welder
  <2>. SUFFICES ASSUME CommandsTyped, PowerTyped, AskedInv, BurstInv, [Next]_welder,
                       scObj \in {"WAIT_FOR_TRIGGER", "WAIT_FOR_READY_POSITION"},
                       "RUN" \in psOut' \ psOut
                PROVE  timers.timeout = 0
                       /\ IF scObj = "WAIT_FOR_TRIGGER" THEN HornLeft ELSE hornPos > 0
    OBVIOUS
  <2>1. PS!PSRun
    <3>1. AuxClock => UNCHANGED psOut
      BY DEF AuxClock
    <3>2. PS!PSReceive => UNCHANGED psOut
      BY DEF PS!PSReceive
    <3>. QED  BY <3>1, <3>2, PowerKept DEF PowerTask
  <2>2. /\ PC("PC_READY") /\ ~Asked("CTRL_PC_SONIC_DISABLE")
        /\ pcRx.MasterState \in RunCommands
        /\ pcRx.MasterState = "WAIT_FOR_TRIGGER" => Asked("CTRL_PREBURST_ENABLE")
        /\ pcRx.MasterState = "WAIT_FOR_READY_POSITION" => Asked("CTRL_AFTERBURST_ENABLE")
    BY <2>1, PowerRunBurst
  <2>3. Runs(scObj) /\ pcRx.MasterState = scObj
    BY <2>2 DEF AskedInv, PowerInv, PowerCommand, RunCommands, Runs
  <2>4. ~PC("PC_WELD_RUN")
    BY <2>2 DEF PC
  <2>. QED  BY <2>2, <2>3, <2>4 DEF BurstInv, Gone
<1>. QED
  BY <1>1, AlwaysAsked, AlwaysSonic, AlwaysBurst, CommandsCorrect,
     PTL DEF Spec, SonicInv, BurstInStroke

-----------------------------------------------------------------------------
(* The types of all variables.                                             *)

\* The lemmas about the two machines, for the welder's instances of them.
PSP == INSTANCE PowerSupply_proofs WITH Commands <- MasterStates
ACP == INSTANCE Actuator_proofs
         WITH Commands <- MasterStates, ControlBits <- AC_CONTROL_EVENTS \ {"CTRL_ESTOP"},
              AuxMotions <- {}

LEMMA PowerInstance ==
  PSP!PollPeriodAssumption /\ PSP!CommandsAssumption
BY WelderAssumption
DEF PSP!PollPeriodAssumption, PSP!CommandsAssumption, MasterStates, PSP!MasterStates, SCSTATES,
    PSP!SCSTATES

\* What the lemmas are about is the same in both instances: each is expanded down to
\* the same formula.
LEMMA PowerSame ==
  /\ (PS!TypeOK <=> PSP!TypeOK) /\ (PS!TypeOK' <=> PSP!TypeOK')
  /\ PS!InitPower <=> PSP!InitPower
  /\ PS!PSRun => PSP!PSRun
<1>1. (PS!TypeOK <=> PSP!TypeOK) /\ (PS!TypeOK' <=> PSP!TypeOK')
  BY DEF PS!TypeOK, PSP!TypeOK, PS!Outputs, PSP!Outputs,
      PS!SCSTATES, PSP!SCSTATES, PS!MasterStates, PSP!MasterStates, PS!PCSTATES, PSP!PCSTATES,
      PS!PC_CONTROL_EVENTS, PSP!PC_CONTROL_EVENTS, PS!PC_STATUS_EVENTS, PSP!PC_STATUS_EVENTS,
      PS!RxPDO_PC, PSP!RxPDO_PC, PS!TxPDO_PC, PSP!TxPDO_PC
<1>2. PS!InitPower <=> PSP!InitPower
  BY DEF PS!InitPower, PSP!InitPower
<1>3. PS!PSRun => PSP!PSRun
  BY DEF PS!Ctrl, PSP!Ctrl, PS!ExitOutputs, PSP!ExitOutputs, PS!SeekOutput, PSP!SeekOutput,
      PS!WeldEnterOutputs, PSP!WeldEnterOutputs, PS!SeekEnterOutputs, PSP!SeekEnterOutputs,
      PS!AlarmEnterOutputs, PSP!AlarmEnterOutputs, PS!EnterOutputs, PSP!EnterOutputs,
      PS!DisablingStates, PSP!DisablingStates, PS!ChangeState, PSP!ChangeState, PS!StayInState,
      PSP!StayInState, PS!Status, PSP!Status, PS!Burst, PSP!Burst, PS!ReadyCommand,
      PSP!ReadyCommand, PS!ReadyLoop, PSP!ReadyLoop, PS!WeldRunEnds, PSP!WeldRunEnds,
      PS!WeldRunStray, PSP!WeldRunStray, PS!WeldRunLoop, PSP!WeldRunLoop, PS!SeekRunLoop,
      PSP!SeekRunLoop, PS!AlarmLoop, PSP!AlarmLoop, PS!EstopLoop, PSP!EstopLoop,
      PS!RunStateMachine, PSP!RunStateMachine, PS!PolledCore, PSP!PolledCore, PS!NextTick,
      PSP!NextTick, PS!PSRun, PSP!PSRun
<1>. QED  BY <1>1, <1>2, <1>3

LEMMA PowerTypes ==
  /\ PS!InitPower => PS!TypeOK
  /\ PS!TypeOK /\ PS!PSRun => PS!TypeOK'
BY PowerInstance, PowerSame, PSP!InitTypes, PSP!RunKeepsTypes

LEMMA ActuatorInstance == ACP!ActuatorAssumption
BY WelderAssumption
DEF ACP!ActuatorAssumption, MasterStates, ACP!MasterStates, SCSTATES, ACP!SCSTATES,
    AC_CONTROL_EVENTS, ACP!AC_CONTROL_EVENTS

LEMMA ActuatorSame ==
  /\ (AC_T!TypeOK <=> ACP!TypeOK) /\ (AC_T!TypeOK' <=> ACP!TypeOK')
  /\ AC_T!InitActuator <=> ACP!InitActuator
  /\ AC_T!ACRun => ACP!ACRun
<1>1. (AC_T!TypeOK <=> ACP!TypeOK) /\ (AC_T!TypeOK' <=> ACP!TypeOK')
  BY DEF AC_T!TypeOK, ACP!TypeOK, AC_T!ACErrors, ACP!ACErrors,
      AC_T!SCSTATES, ACP!SCSTATES, AC_T!MasterStates, ACP!MasterStates, AC_T!ACSTATES,
      ACP!ACSTATES, AC_T!AC_CONTROL_EVENTS, ACP!AC_CONTROL_EVENTS, AC_T!AC_STATUS_EVENTS,
      ACP!AC_STATUS_EVENTS, AC_T!StartSwitches, ACP!StartSwitches, AC_T!RxPDO_AC, ACP!RxPDO_AC,
      AC_T!TxPDO_AC, ACP!TxPDO_AC
<1>2. AC_T!InitActuator <=> ACP!InitActuator
  BY DEF AC_T!InitActuator, ACP!InitActuator, AC_T!StartSwitches, ACP!StartSwitches
<1>3. AC_T!ACRun => ACP!ACRun
  BY DEF AC_T!plant, ACP!plant, AC_T!ACErrors, ACP!ACErrors, AC_T!StartSwitches,
      ACP!StartSwitches, AC_T!ScannedEvents, ACP!ScannedEvents, AC_T!CheckDue,
      ACP!CheckDue, AC_T!MoveDisabled, ACP!MoveDisabled, AC_T!CheckedMoving, ACP!CheckedMoving,
      AC_T!KeptMoving, ACP!KeptMoving, AC_T!CheckedCount, ACP!CheckedCount, AC_T!ExitEvents,
      ACP!ExitEvents, AC_T!EnterEvents, ACP!EnterEvents, AC_T!EnterStatus, ACP!EnterStatus,
      AC_T!MayMove, ACP!MayMove, AC_T!EnterHorn, ACP!EnterHorn, AC_T!FirstSwitch, ACP!FirstSwitch,
      AC_T!EnterPB1, ACP!EnterPB1, AC_T!Publish, ACP!Publish, AC_T!ChangeState, ACP!ChangeState,
      AC_T!Stay, ACP!Stay, AC_T!Status, ACP!Status, AC_T!In, ACP!In, AC_T!Command, ACP!Command,
      AC_T!Idle, ACP!Idle, AC_T!Go, ACP!Go, AC_T!Wait, ACP!Wait, AC_T!Raise, ACP!Raise,
      AC_T!PowerUpLoop, ACP!PowerUpLoop, AC_T!PB1Candidate, ACP!PB1Candidate, AC_T!Debounced,
      ACP!Debounced, AC_T!GetPB1, ACP!GetPB1, AC_T!ReadyLoop, ACP!ReadyLoop, AC_T!StartSwitchLost,
      ACP!StartSwitchLost, AC_T!BothPressed, ACP!BothPressed, AC_T!StartSwitchLoop,
      ACP!StartSwitchLoop, AC_T!LeftHome, ACP!LeftHome, AC_T!ContactFound, ACP!ContactFound,
      AC_T!StrokeDownState, ACP!StrokeDownState, AC_T!StrokeDownStatus, ACP!StrokeDownStatus,
      AC_T!StrokeDownLoop, ACP!StrokeDownLoop, AC_T!LeftPart, ACP!LeftPart, AC_T!HomeFound,
      ACP!HomeFound, AC_T!StrokeUpLoop, ACP!StrokeUpLoop, AC_T!WeldHoldLoop, ACP!WeldHoldLoop,
      AC_T!AlarmLoop, ACP!AlarmLoop, AC_T!EstopLoop, ACP!EstopLoop, AC_T!EstopDue, ACP!EstopDue,
      AC_T!AlarmDue, ACP!AlarmDue, AC_T!RunStateMachine, ACP!RunStateMachine, AC_T!Upload,
      ACP!Upload, AC_T!ACRun, ACP!ACRun
<1>. QED  BY <1>1, <1>2, <1>3

LEMMA ActuatorTypes ==
  /\ AC_T!InitActuator => AC_T!TypeOK
  /\ AC_T!TypeOK /\ AC_T!ACRun => AC_T!TypeOK'
BY ActuatorInstance, ActuatorSame, ACP!InitTypes, ACP!RunKeepsTypes

\* The records of the PDOs are the same in every module.
LEMMA SameRecords ==
  AC_T!RxPDO_AC = RxPDO_AC /\ AC_T!TxPDO_AC = TxPDO_AC
    /\ PS!RxPDO_PC = RxPDO_PC /\ PS!TxPDO_PC = TxPDO_PC
BY DEF AC_T!RxPDO_AC, RxPDO_AC, AC_T!TxPDO_AC, TxPDO_AC, PS!RxPDO_PC, RxPDO_PC, PS!TxPDO_PC,
       TxPDO_PC, AC_T!SCSTATES, PS!SCSTATES, SCSTATES, AC_T!MasterStates, PS!MasterStates,
       MasterStates, AC_T!ACSTATES, ACSTATES, AC_T!AC_CONTROL_EVENTS, AC_CONTROL_EVENTS,
       AC_T!AC_STATUS_EVENTS, AC_STATUS_EVENTS, AC_T!StartSwitches, StartSwitches, PS!PCSTATES,
       PCSTATES, PS!PC_CONTROL_EVENTS, PC_CONTROL_EVENTS, PS!PC_STATUS_EVENTS, PC_STATUS_EVENTS

\* What the SC and the control task write besides the commands.
FaultsTyped == scCore \in SUBSET SCErrors /\ alarms \in SUBSET AlarmEvents /\ response \in BOOLEAN

FlagsTyped ==
  /\ operation \in Operations \cup {NoOperation} /\ loading \in Operations \cup {NoLoad}
  /\ scObj \in SCSTATES /\ isRunning \in BOOLEAN /\ isLoading \in BOOLEAN

LEMMA AlarmsListed ==
  ASSUME FaultsTyped, NEW types \in SUBSET AlarmTypes, NEW source \in {"SC", "PC", "AC"}
  PROVE  EnterAlarmEvents(alarms, types, source) \in SUBSET AlarmEvents
BY DEF FaultsTyped, EnterAlarmEvents, AlarmEvents

LEMMA AlarmsFound ==
  ASSUME FaultsTyped
  PROVE  {GetAC, GetPC, GetSC} \subseteq SUBSET AlarmEvents
<1>1. acCore \cap ACAlarms \in SUBSET AlarmTypes /\ When(psCore, {"OVERLOAD"}) \in SUBSET AlarmTypes
      /\ scCore \ {"WELD_ABORT"} \in SUBSET AlarmTypes
  BY DEF AlarmTypes, When, SCErrors, FaultsTyped
<1>. QED  BY <1>1, AlarmsListed DEF GetAC, GetPC, GetSC

\* An Exit adds no alarm and no error but the limits of the weld.
LEMMA ExitFaults ==
  ASSUME FaultsTyped, NEW s, ExitCore(s)
  PROVE  scCore' \in SUBSET SCErrors /\ ExitAlarms(s) \in SUBSET AlarmEvents
<1>1. scCore' \in SUBSET SCErrors
  BY DEF ExitCore, FaultsTyped, SCErrors
<1>. QED  BY <1>1 DEF ExitAlarms, WithoutEstop, FaultsTyped

LEMMA LoopFaults ==
  ASSUME FaultsTyped, NEW s, Loop(s)
  PROVE  FaultsTyped'
<1>1. UNCHANGED faults => FaultsTyped'
  BY DEF faults, FaultsTyped
<1>2. Proceed(s) \/ GiveUp(s) \/ Remain \/ CountTime => UNCHANGED faults
  BY DEF Proceed, GiveUp, Remain, CountTime
<1>3. Abort(s) => FaultsTyped'
  BY DEF Abort, FaultsTyped, SCErrors
<1>4. ASSUME NEW ctrl, NEW d, NEW acState,
             BurstStarts(s, ctrl) \/ BurstWaits(s) \/ BurstRuns(s, ctrl, d)
               \/ StrokeEnds(s, acState)
      PROVE  UNCHANGED faults
  BY <1>4 DEF BurstStarts, BurstWaits, BurstRuns, StrokeEnds
<1>5. PreReadyLoop(s) \/ ReadyLoop(s) \/ ReadyForTriggerLoop(s) \/ TestSonicOnLoop(s)
        \/ CalibrateLoop(s) \/ EstopLoop(s) \/ (\E d : DelayLoop(s, d)) => UNCHANGED faults
  BY <1>2
  DEF PreReadyLoop, ReadyLoop, ReadyForTriggerLoop, TestSonicOnLoop, CalibrateLoop, EstopLoop,
      DelayLoop
<1>6. SeekSonicOnLoop(s) => FaultsTyped'
  BY <1>1, <1>2, <1>3 DEF SeekSonicOnLoop
<1>7. WaitForTriggerLoop(s) => FaultsTyped'
  BY <1>1, <1>2, <1>3, <1>4 DEF WaitForTriggerLoop
<1>8. WaitForReadyPositionLoop(s) => FaultsTyped'
  BY <1>1, <1>2, <1>4 DEF WaitForReadyPositionLoop, AfterBurstWait
<1>9. WeldSonicOnLoop(s) => FaultsTyped'
  <2>. SUFFICES ASSUME WeldSonicOnLoop(s) PROVE FaultsTyped'
    OBVIOUS
  <2>1. scCore' \in SUBSET SCErrors
    BY DEF WeldSonicOnLoop, When, FaultsTyped, SCErrors
  <2>. QED  BY <2>1 DEF WeldSonicOnLoop, FaultsTyped
<1>10. AlarmLoop(s) => FaultsTyped'
  <2>1. ASSUME alarms' \in {GetAC, GetPC, GetSC}, UNCHANGED <<scCore, response>>
        PROVE  FaultsTyped'
    BY <2>1, AlarmsFound DEF FaultsTyped
  <2>. QED  BY <1>1, <1>2, <2>1 DEF AlarmLoop
<1>. QED  BY <1>1, <1>5, <1>6, <1>7, <1>8, <1>9, <1>10 DEF Loop

LEMMA TickFaults ==
  ASSUME SequenceInv, FaultsTyped, RunStateMachine
  PROVE  FaultsTyped'
<1>1. UNCHANGED faults => FaultsTyped'
  BY DEF faults, FaultsTyped
<1>2. ASSUME NEW s, Enter(s) PROVE FaultsTyped'
  <2>1. CASE s = "WELD_SONIC_ON" /\ EnterWeld
    BY <2>1 DEF EnterWeld, FaultsTyped, SCErrors
  <2>2. CASE alarms' = EnterAlarms(s) /\ UNCHANGED <<scCore, response>>
    <3>1. EnterAlarmEvents(alarms, When(AC("AC_ESTOP"), {"ESTOP"}), "AC") \in SUBSET AlarmEvents
      BY AlarmsListed DEF When, AlarmTypes
    <3>2. EnterAlarms(s) \in SUBSET AlarmEvents
      BY <3>1, AlarmsFound DEF EnterAlarms, FaultsTyped
    <3>. QED  BY <2>2, <3>2 DEF FaultsTyped
  <2>. QED  BY <1>2, <2>1, <2>2 DEF Enter
<1>3. ASSUME NEW s, Fail(s) PROVE FaultsTyped'
  BY <1>3 DEF Fail, FailCore, FaultsTyped
<1>4. ASSUME NEW s, NEW next, Leave(s, next) PROVE FaultsTyped'
  BY <1>4, ExitFaults DEF Leave, FaultsTyped
<1>5. ASSUME RunEstop PROVE FaultsTyped'
  <2>1. scCore' \in SUBSET SCErrors
    BY <1>5, ExitFaults DEF RunEstop
  <2>2. EnterAlarmEvents(alarms, {"ESTOP"}, "AC") \in SUBSET AlarmEvents
    BY AlarmsListed DEF AlarmTypes
  <2>3. alarms' \in SUBSET AlarmEvents
    BY <1>5, <2>2 DEF RunEstop, WithoutEstop, FaultsTyped
  <2>. QED  BY <1>5, <2>1, <2>3 DEF RunEstop, FaultsTyped
<1>6. ASSUME NEW index, Dispatch(index) PROVE FaultsTyped'
  BY <1>2, <1>3, <1>4, <1>6, LoopFaults DEF Dispatch
<1>. QED  BY <1>1, <1>5, <1>6 DEF RunStateMachine

LEMMA TickFlags ==
  ASSUME SequenceInv, FlagsTyped, RunStateMachine, UNCHANGED setup
  PROVE  FlagsTyped'
<1>1. UNCHANGED <<operation, loading, isLoading>> /\ Operations' = Operations
  BY TickCases DEF Operations
<1>2. scObj' \in SCSTATES
  <2>1. RunEstop => scObj' \in SCSTATES
    BY DEF RunEstop, SCSTATES
  <2>2. \A i, s : RunsObject(i, s) => scObj' \in SCSTATES
    BY OthersFresh DEF RunsObject
  <2>. QED  BY <2>1, <2>2, TickCases DEF FlagsTyped
<1>3. isRunning' \in BOOLEAN
  BY DEF RunStateMachine
<1>. QED  BY <1>1, <1>2, <1>3 DEF FlagsTyped

\* The control task keeps the types of what it writes.
LEMMA ControlTypes ==
  ASSUME HandsKnown, FaultsTyped, FlagsTyped, ControlTask
  PROVE  FaultsTyped' /\ FlagsTyped' /\ UNCHANGED <<rx, tx>>
<1>1. Operations' = Operations
  BY DEF ControlTask, Operations
<1>2. ASSUME NEW op \in Operations, LoadBegin(op)
      PROVE  FaultsTyped' /\ FlagsTyped' /\ UNCHANGED <<rx, tx>>
  BY <1>1, <1>2 DEF LoadBegin, dispatch, faults, FaultsTyped, FlagsTyped
<1>3. ASSUME NEW s, ExecuteStateAction(s) PROVE FaultsTyped' /\ FlagsTyped' /\ UNCHANGED <<rx, tx>>
  BY <1>1, <1>3 DEF ExecuteStateAction, dispatch, loader, faults, FaultsTyped, FlagsTyped
<1>4. ASSUME LoadFinish PROVE FaultsTyped' /\ FlagsTyped' /\ UNCHANGED <<rx, tx>>
  <2>1. /\ UNCHANGED <<rx, tx, faults, isRunning>> /\ loading' = NoLoad /\ loading # NoLoad
        /\ LoadRetry \/ LoadRefused \/ LoadDone
    BY <1>4 DEF LoadFinish
  <2>2. FaultsTyped'
    BY <2>1 DEF faults, FaultsTyped
  <2>3. /\ isLoading' \in BOOLEAN /\ scObj' \in SCSTATES
        /\ operation' \in {operation, loading}
    BY <2>1 DEF LoadRetry, LoadRefused, LoadDone, dispatch, FlagsTyped, SCSTATES
  <2>. QED  BY <1>1, <2>1, <2>2, <2>3 DEF FlagsTyped
<1>5. ASSUME RunProcess PROVE FaultsTyped' /\ FlagsTyped' /\ UNCHANGED <<rx, tx>>
  BY <1>1, <1>5 DEF RunProcess, dispatch, loader, FaultsTyped, FlagsTyped, SCErrors
<1>. QED  BY <1>2, <1>3, <1>4, <1>5 DEF ControlTask

\* Every variable stays in its type: no counter passes its limit, no task writes a
\* command, a state or an alarm that does not exist, in any order of the tasks and
\* for tasks that are late by any number of ticks.
THEOREM TypesCorrect == Spec => []WelderTypeOK
<1>. DEFINE Typed == PS!TypeOK /\ AC_T!TypeOK /\ FaultsTyped /\ FlagsTyped
<1>1. Init => Typed
  <2>. SUFFICES ASSUME Init PROVE Typed
    OBVIOUS
  <2>1. PS!TypeOK /\ AC_T!TypeOK
    BY PowerTypes, ActuatorTypes DEF Init
  <2>2. FaultsTyped /\ FlagsTyped
    BY DEF Init, InitSequence, FaultsTyped, FlagsTyped, SCSTATES
  <2>. QED  BY <2>1, <2>2
<1>2. CommandsTyped /\ CommandsTyped' /\ HandsKnown /\ Typed /\ [Next]_welder => Typed'
  <2>. SUFFICES ASSUME CommandsTyped, CommandsTyped', HandsKnown, Typed, [Next]_welder
                PROVE  Typed'
    OBVIOUS
  <2>1. acRx' \in AC_T!RxPDO_AC /\ pcRx' \in PS!RxPDO_PC
    BY SameRecords DEF CommandsTyped
  <2>. DEFINE Power == pcTx \in PS!TxPDO_PC /\ psTick \in 0 .. PollPeriod - 1
                        /\ psOut \in SUBSET PS!Outputs /\ psEvent \in BOOLEAN /\ psBusy \in BOOLEAN
  <2>2. Power' => PS!TypeOK'
    BY <2>1 DEF CommandsTyped, PS!TypeOK, PS!Outputs
  <2>3. CASE AuxClock
    <3>1. RunStateMachine /\ UNCHANGED setup
      BY <2>3 DEF AuxClock
    <3>2. FaultsTyped' /\ FlagsTyped'
      BY <3>1, TickFaults, TickFlags DEF HandsKnown
    <3>3. UNCHANGED <<acTx, pcTx, acCore, psCore>>
      BY <3>1 DEF RunStateMachine, tx
    <3>4. PS!TypeOK'
      BY <2>2, <2>3, <3>3 DEF AuxClock, PS!TypeOK
    <3>5. AC_T!TypeOK'
      BY <2>1, <2>3, <3>3 DEF AuxClock, AC_T!TypeOK
    <3>. QED  BY <3>2, <3>4, <3>5
  <2>4. ASSUME UNCHANGED own, UNCHANGED setup PROVE FaultsTyped' /\ FlagsTyped'
    BY <2>4 DEF own, FaultsTyped, FlagsTyped, Operations
  <2>5. ASSUME UNCHANGED <<acTx, acCore, acRest>> PROVE AC_T!TypeOK'
    BY <2>1, <2>5 DEF acRest, AC_T!TypeOK
  <2>6. ASSUME UNCHANGED <<pcTx, psRest>> PROVE PS!TypeOK'
    BY <2>2, <2>6 DEF psRest, PS!TypeOK
  <2>7. CASE PowerTask
    <3>1. CASE PS!PSRun
      BY <2>4, <2>5, <2>7, <3>1, PowerTypes DEF PowerTask
    <3>2. CASE PS!PSReceive
      <4>1. PS!TypeOK'
        BY <3>2 DEF PS!PSReceive, PS!TypeOK
      <4>. QED  BY <2>4, <2>5, <2>7, <4>1 DEF PowerTask
    <3>. QED  BY <2>7, <3>1, <3>2 DEF PowerTask
  <2>8. CASE ActuatorTask
    <3>1. CASE AC_T!ACRun
      BY <2>4, <2>6, <2>8, <3>1, ActuatorTypes DEF ActuatorTask
    <3>2. CASE AC_T!ACReceive
      <4>1. AC_T!TypeOK'
        BY <3>2 DEF AC_T!ACReceive, AC_T!machine, AC_T!plant, AC_T!TypeOK
      <4>. QED  BY <2>4, <2>6, <2>8, <4>1 DEF ActuatorTask
    <3>. QED  BY <2>8, <3>1, <3>2 DEF ActuatorTask
  <2>9. CASE PressureMessage
    <3>1. AC_T!TypeOK'
      BY <2>9 DEF PressureMessage, AC_T!PressureSet, AC_T!plant, AC_T!TypeOK
    <3>. QED  BY <2>4, <2>6, <2>9, <3>1 DEF PressureMessage
  <2>10. CASE ControlTask
    <3>1. FaultsTyped' /\ FlagsTyped' /\ UNCHANGED <<acTx, acCore, pcTx>>
      BY <2>10, ControlTypes DEF tx
    <3>. QED  BY <2>5, <2>6, <2>10, <3>1 DEF ControlTask
  <2>11. CASE AlarmReset
    <3>1. FaultsTyped' /\ FlagsTyped'
      BY <2>11 DEF AlarmReset, dispatch, loader, FaultsTyped, FlagsTyped, Operations
    <3>2. AC_T!TypeOK'
      BY <2>1, <2>11 DEF AlarmReset, acRest, AC_T!TypeOK
    <3>. QED  BY <2>6, <2>11, <3>1, <3>2 DEF AlarmReset
  <2>12. CASE Plant
    <3>1. AC_T!TypeOK'
      <4>1. AC_T!HornTravel => AC_T!TypeOK'
        BY DEF AC_T!HornTravel, AC_T!machine, AC_T!TypeOK
      <4>2. AC_T!StartSwitchInput => AC_T!TypeOK'
        BY DEF AC_T!StartSwitchInput, AC_T!machine, AC_T!TypeOK
      <4>3. AC_T!EstopInput => AC_T!TypeOK'
        BY DEF AC_T!EstopInput, AC_T!machine, AC_T!TypeOK
      <4>. QED  BY <2>12, <4>1, <4>2, <4>3 DEF Plant
    <3>. QED  BY <2>4, <2>6, <2>12, <3>1 DEF Plant
  <2>13. CASE Generator
    <3>1. UNCHANGED <<pcTx, psTick, psOut, psEvent, psBusy>>
      BY <2>13 DEF Generator, PS!OverloadInput
    <3>2. PS!TypeOK'
      BY <2>2, <3>1 DEF PS!TypeOK
    <3>. QED  BY <2>4, <2>5, <2>13, <3>2 DEF Generator
  <2>14. CASE UNCHANGED welder
    BY <2>4, <2>5, <2>6, <2>14 DEF welder, vars, tx
  <2>. QED
    BY <2>3, <2>7, <2>8, <2>9, <2>10, <2>11, <2>12, <2>13, <2>14 DEF Next
<1>3. CommandsTyped /\ HandsKnown /\ TimersTyped /\ Typed => WelderTypeOK
  BY DEF CommandsTyped, HandsKnown, SequenceInv, HandsInv, TimersTyped, Timers, FaultsTyped,
         FlagsTyped, WelderTypeOK, TypeOK
<1>. QED  BY <1>1, <1>2, <1>3, AlwaysSequence, AlwaysTimers, CommandsCorrect, PTL DEF Spec

=============================================================================
