--------------------------- MODULE Actuator_proofs ---------------------------
(***************************************************************************)
(* Proofs about the actuator, for every set of commands, all times and     *)
(* with or without manual motions and pressure faults.  What matters       *)
(* happens in the one run ACRun: Machine collects what a run may write,    *)
(* and the lemmas say what the two ways to write it, ChangeState and Stay, *)
(* leave behind.                                                           *)
(***************************************************************************)
EXTENDS Actuator, TLAPS

\* The part of the types a run of the state machine writes.
MachineTypes ==
  /\ acRx \in RxPDO_AC
  /\ acTx \in TxPDO_AC
  /\ acCore \in SUBSET ACErrors
  /\ horn \in {"UP", "DOWN"}
  /\ acTimeout \in 0 .. StartSwitchTime + HornMoveTimeout + 1
  /\ debounce \in 0 .. DebounceTime
  /\ pb1 \in SUBSET StartSwitches
  /\ movedFrom \in 0 .. 2

\* The master state is never written by the actuator, and a published PDO has the
\* types of its parts.
LEMMA PublishTypes ==
  ASSUME TypeOK, NEW state \in ACSTATES, NEW st \in SUBSET AC_STATUS_EVENTS,
         NEW ev \in SUBSET AC_CONTROL_EVENTS, Publish(state, st, ev)
  PROVE  acRx' \in RxPDO_AC /\ acTx' \in TxPDO_AC
<1>1. acTx' \in TxPDO_AC
  BY DEF Publish, TypeOK, TxPDO_AC
<1>2. acRx' \in RxPDO_AC
  BY DEF Publish, TypeOK, RxPDO_AC
<1>. QED  BY <1>1, <1>2

\* Enter and Exit write bits of the two event words and no others.
LEMMA EventTypes ==
  ASSUME NEW state, NEW st \in SUBSET AC_STATUS_EVENTS, NEW ev \in SUBSET AC_CONTROL_EVENTS
  PROVE  /\ ExitEvents(state, ev) \in SUBSET AC_CONTROL_EVENTS
         /\ EnterEvents(state, ev) \in SUBSET AC_CONTROL_EVENTS
         /\ EnterStatus(state, st) \in SUBSET AC_STATUS_EVENTS
BY DEF ExitEvents, EnterEvents, EnterStatus, AC_CONTROL_EVENTS, AC_STATUS_EVENTS

\* A change of state resets the timeout and keeps the types.
LEMMA ChangeTypes ==
  ASSUME TypeOK, NEW next \in ACSTATES, NEW st \in SUBSET AC_STATUS_EVENTS,
         NEW ev \in SUBSET AC_CONTROL_EVENTS, ChangeState(next, st, ev)
  PROVE  /\ acRx' \in RxPDO_AC /\ acTx' \in TxPDO_AC
         /\ horn' \in {"UP", "DOWN"} /\ pb1' \in SUBSET StartSwitches
         /\ movedFrom' \in 0 .. 2 /\ acTimeout' = 0
<1>1. acRx' \in RxPDO_AC /\ acTx' \in TxPDO_AC
  BY EventTypes, PublishTypes DEF ChangeState
<1>2. horn' \in {"UP", "DOWN"}
  BY DEF ChangeState, EnterHorn, TypeOK
<1>3. pb1' \in SUBSET StartSwitches
  BY DEF ChangeState, EnterPB1, FirstSwitch, StartSwitches, TypeOK
<1>4. movedFrom' \in 0 .. 2 /\ acTimeout' = 0
  BY DEF ChangeState, TypeOK
<1>. QED  BY <1>1, <1>2, <1>3, <1>4

\* A run of the machine keeps the types.  The timeout is counted only up to one
\* past the limit of the state that counts it, and the debounce counter only up to
\* the debounce time.
LEMMA RunTypes ==
  ASSUME TypeOK, NEW core \in SUBSET ACErrors, NEW ev \in SUBSET AC_CONTROL_EVENTS,
         RunStateMachine(core, ev)
  PROVE  MachineTypes'
<1>. DEFINE Bound == StartSwitchTime + HornMoveTimeout + 1
<1>1. StartSwitchTime \in Nat /\ HornMoveTimeout \in Nat /\ DebounceTime \in Nat
  BY ActuatorAssumption
<1>2. Status \in SUBSET AC_STATUS_EVENTS /\ acTx.ACState \in ACSTATES
  BY DEF Status, TypeOK, TxPDO_AC
<1>3. ASSUME NEW next \in ACSTATES, NEW e \in SUBSET AC_CONTROL_EVENTS, Go(next, core, e)
      PROVE  MachineTypes'
  <2>1. ChangeState(next, Status, e) /\ acCore' = core /\ UNCHANGED debounce
    BY <1>3 DEF Go
  <2>2. /\ acRx' \in RxPDO_AC /\ acTx' \in TxPDO_AC
        /\ horn' \in {"UP", "DOWN"} /\ pb1' \in SUBSET StartSwitches
        /\ movedFrom' \in 0 .. 2 /\ acTimeout' = 0
    BY <1>2, <2>1, ChangeTypes
  <2>3. 0 \in 0 .. Bound
    BY <1>1
  <2>. QED  BY <2>1, <2>2, <2>3 DEF MachineTypes, TypeOK
<1>4. ASSUME NEW st \in SUBSET AC_STATUS_EVENTS, NEW e \in SUBSET AC_CONTROL_EVENTS, Stay(st, e)
      PROVE  acRx' \in RxPDO_AC /\ acTx' \in TxPDO_AC /\ horn' \in {"UP", "DOWN"}
             /\ movedFrom' \in 0 .. 2
  BY <1>2, <1>4, PublishTypes DEF Stay, TypeOK
<1>5. ASSUME NEW st \in SUBSET AC_STATUS_EVENTS, Idle(core, st, ev) PROVE MachineTypes'
  BY <1>4, <1>5 DEF Idle, MachineTypes, TypeOK
<1>6. ASSUME NEW st \in SUBSET AC_STATUS_EVENTS, Wait(core, st, ev),
             acTimeout <= StartSwitchTime \/ acTimeout <= HornMoveTimeout
      PROVE  MachineTypes'
  <2>1. acTimeout' \in 0 .. Bound
    BY <1>1, <1>6 DEF Wait, TypeOK
  <2>2. Stay(st, ev) /\ acCore' = core /\ UNCHANGED <<debounce, pb1>>
    BY <1>6 DEF Wait
  <2>. QED  BY <1>4, <2>1, <2>2 DEF MachineTypes, TypeOK
<1>7. ASSUME NEW error \in ACErrors, Raise(core, error, ev) PROVE MachineTypes'
  BY <1>2, <1>4, <1>7 DEF Raise, MachineTypes, TypeOK
<1>8. {"AC_READY", "AC_STARTSWICH", "AC_DOWN_STROKE", "AC_HOLD", "AC_RETURN_STROKE", "AC_ALARM",
       "AC_ESTOP"} \subseteq ACSTATES
  BY DEF ACSTATES
<1>9. "STATUS_START_SWITCH_PRESSED" \in AC_STATUS_EVENTS
  BY DEF AC_STATUS_EVENTS
<1>10. {"ERR_STARTSWITCH_LOST", "ERR_HEIGHT_SYSTEM", "ERR_HOME_POSITION"} \subseteq ACErrors
  BY DEF ACErrors
<1>11. CASE EstopDue(ev) /\ Go("AC_ESTOP", core, ev)
  BY <1>3, <1>8, <1>11
<1>12. CASE AlarmDue(core, ev) /\ Go("AC_ALARM", core, ev)
  BY <1>3, <1>8, <1>12
<1>13. CASE PowerUpLoop(core, ev)
  BY <1>3, <1>8, <1>13 DEF PowerUpLoop
<1>14. CASE ReadyLoop(core, ev)
  <2>1. CASE Idle(core, Status, ev) \/ Idle(core, Status \ {"STATUS_START_SWITCH_PRESSED"}, ev)
    BY <1>2, <1>5, <2>1
  <2>2. CASE GetPB1(core, ev)
    <3>1. CASE Debounced < DebounceTime
      <4>1. Stay(Status, ev) /\ acCore' = core /\ UNCHANGED acTimeout
        BY <2>2, <3>1 DEF GetPB1
      <4>2. debounce' \in 0 .. DebounceTime
        BY <1>1, <2>2, <3>1 DEF GetPB1, Debounced, TypeOK
      <4>3. pb1' \in SUBSET StartSwitches
        BY <2>2, <3>1 DEF GetPB1, PB1Candidate, FirstSwitch, StartSwitches, TypeOK
      <4>. QED  BY <1>2, <1>4, <4>1, <4>2, <4>3 DEF MachineTypes, TypeOK
    <3>2. CASE ~(Debounced < DebounceTime)
      <4>1. ChangeState("AC_STARTSWICH", Status, ev) /\ acCore' = core /\ debounce' = 0
        BY <2>2, <3>2 DEF GetPB1
      <4>. QED  BY <1>1, <1>2, <1>8, <4>1, ChangeTypes DEF MachineTypes
    <3>. QED  BY <3>1, <3>2
  <2>3. CASE Go("AC_DOWN_STROKE", core, ev \ {"CTRL_AC_MOVE_DISABLE"})
    BY <1>3, <1>8, <2>3
  <2>. QED  BY <1>14, <2>1, <2>2, <2>3 DEF ReadyLoop
<1>15. CASE StartSwitchLoop(core, ev)
  <2>1. CASE StartSwitchLost /\ Raise(core, "ERR_STARTSWITCH_LOST", ev)
    BY <1>7, <1>10, <2>1
  <2>2. CASE /\ ChangeState("AC_READY", Status \cup {"STATUS_START_SWITCH_PRESSED"}, ev)
             /\ acCore' = core
             /\ UNCHANGED debounce
    BY <1>1, <1>2, <1>8, <1>9, <2>2, ChangeTypes DEF MachineTypes, TypeOK
  <2>3. CASE ~StartSwitchLost /\ Wait(core, Status, ev)
    BY <1>1, <1>2, <1>6, <2>3 DEF StartSwitchLost, TypeOK
  <2>. QED  BY <1>15, <2>1, <2>2, <2>3 DEF StartSwitchLoop
<1>16. CASE StrokeDownLoop(core, ev)
  <2>1. CASE Raise(core, "ERR_HEIGHT_SYSTEM", ev)
    BY <1>7, <1>10, <2>1
  <2>2. CASE /\ acTimeout <= HornMoveTimeout
             /\ Publish(StrokeDownState(ev), StrokeDownStatus(ev),
                        EnterEvents(StrokeDownState(ev), ev))
             /\ horn' = IF Command({"PRE_READY"}) THEN "UP" ELSE horn
             /\ acCore' = core
             /\ acTimeout' = IF StrokeDownState(ev) = "AC_DOWN_STROKE" THEN acTimeout + 1 ELSE 0
             /\ movedFrom' = IF StrokeDownState(ev) = "AC_DOWN_STROKE" THEN movedFrom ELSE 2
             /\ UNCHANGED <<debounce, pb1>>
    <3>1. StrokeDownState(ev) \in ACSTATES
      BY <1>8 DEF StrokeDownState
    <3>2. StrokeDownStatus(ev) \in SUBSET AC_STATUS_EVENTS
      BY <1>2, EventTypes DEF StrokeDownStatus
    <3>3. acRx' \in RxPDO_AC /\ acTx' \in TxPDO_AC
      BY <2>2, <3>1, <3>2, EventTypes, PublishTypes
    <3>4. acTimeout' \in 0 .. Bound
      BY <1>1, <2>2 DEF TypeOK
    <3>. QED  BY <2>2, <3>3, <3>4 DEF MachineTypes, TypeOK
  <2>. QED  BY <1>16, <2>1, <2>2 DEF StrokeDownLoop
<1>17. CASE StrokeUpLoop(core, ev)
  BY <1>2, <1>3, <1>6, <1>7, <1>8, <1>10, <1>17 DEF StrokeUpLoop
<1>18. CASE WeldHoldLoop(core, ev)
  BY <1>2, <1>3, <1>5, <1>8, <1>18 DEF WeldHoldLoop
<1>19. CASE AlarmLoop(core, ev)
  BY <1>2, <1>3, <1>5, <1>8, <1>19 DEF AlarmLoop
<1>20. CASE EstopLoop(core, ev)
  BY <1>2, <1>3, <1>5, <1>8, <1>20 DEF EstopLoop
<1>. QED
  BY <1>11, <1>12, <1>13, <1>14, <1>15, <1>16, <1>17, <1>18, <1>19, <1>20 DEF RunStateMachine

\* What the run reads and counts on its own account.
LEMMA RunCounters ==
  ASSUME TypeOK
  PROVE  /\ KeptMoving \in BOOLEAN
         /\ CheckedCount \in 0 .. MinMoveChecks
         /\ (acTick + 1) % CheckPeriod \in 0 .. CheckPeriod - 1
         /\ ScannedEvents \in SUBSET AC_CONTROL_EVENTS
<1>1. CheckPeriod \in Nat \ {0} /\ MinMoveChecks \in Nat
  BY ActuatorAssumption
<1>2. KeptMoving \in BOOLEAN
  BY DEF KeptMoving, CheckedMoving, MoveDisabled, TypeOK
<1>3. CheckedCount \in 0 .. MinMoveChecks
  BY <1>1 DEF CheckedCount, TypeOK
<1>4. (acTick + 1) % CheckPeriod \in 0 .. CheckPeriod - 1
  BY <1>1 DEF TypeOK
<1>5. ScannedEvents \in SUBSET AC_CONTROL_EVENTS
  BY DEF ScannedEvents, TypeOK, RxPDO_AC, AC_CONTROL_EVENTS
<1>. QED  BY <1>2, <1>3, <1>4, <1>5

\* The constructor and a whole run keep the types; the welder builds on these two.
LEMMA InitTypes ==
  ASSUME InitActuator
  PROVE  TypeOK
<1>1. acRx \in RxPDO_AC
  BY DEF InitActuator, RxPDO_AC, MasterStates, SCSTATES
<1>2. acTx \in TxPDO_AC
  BY DEF InitActuator, TxPDO_AC, ACSTATES
<1>3. acTimeout \in 0 .. StartSwitchTime + HornMoveTimeout + 1 /\ debounce \in 0 .. DebounceTime
  BY ActuatorAssumption DEF InitActuator
<1>4. moveChecks \in 0 .. MinMoveChecks /\ acTick \in 0 .. CheckPeriod - 1
  BY ActuatorAssumption DEF InitActuator
<1>5. /\ acCore \in SUBSET ACErrors /\ pb1 \in SUBSET StartSwitches
      /\ switches \in SUBSET StartSwitches /\ estopIn \in BOOLEAN
  BY DEF InitActuator
<1>6. movedFrom \in 0 .. 2 /\ hornPos \in 0 .. 2 /\ horn \in {"UP", "DOWN"}
  BY DEF InitActuator
<1>7. /\ isMoving \in BOOLEAN /\ pressureSent \in BOOLEAN
      /\ acEvent \in BOOLEAN /\ acBusy \in BOOLEAN
  BY DEF InitActuator
<1>. QED  BY <1>1, <1>2, <1>3, <1>4, <1>5, <1>6, <1>7 DEF TypeOK

LEMMA RunKeepsTypes ==
  ASSUME TypeOK, ACRun
  PROVE  TypeOK'
<1>1. MachineTypes'
  BY RunTypes, RunCounters DEF ACRun
<1>2. pressureSent' \in BOOLEAN
  BY DEF ACRun, Upload, TypeOK
<1>. QED  BY <1>1, <1>2, RunCounters DEF ACRun, plant, MachineTypes, TypeOK

\* The variables stay in their types: no counter of the actuator passes its limit,
\* whatever the order of commands, switches, messages and late runs.
THEOREM TypeCorrect == Spec => []TypeOK
<1>1. InitActuator => TypeOK
  BY InitTypes
<1>2. TypeOK /\ [Next]_vars => TypeOK'
  <2>. SUFFICES ASSUME TypeOK, [Next]_vars PROVE TypeOK'
    OBVIOUS
  <2>1. CASE ACReceive
    BY <2>1 DEF ACReceive, machine, plant, TypeOK
  <2>2. CASE ACRun
    BY <2>2, RunKeepsTypes
  <2>3. CASE DoAuxMotion
    BY <2>3 DEF DoAuxMotion, plant, TypeOK
  <2>4. CASE PressureSet
    BY <2>4 DEF PressureSet, plant, TypeOK
  <2>5. CASE HornTravel
    BY <2>5 DEF HornTravel, machine, TypeOK
  <2>6. CASE StartSwitchInput
    BY <2>6 DEF StartSwitchInput, machine, TypeOK
  <2>7. CASE EstopInput
    BY <2>7 DEF EstopInput, machine, TypeOK
  <2>8. CASE Tick
    <3>1. acRx' \in RxPDO_AC
      BY <2>8, ActuatorAssumption DEF Tick, TypeOK, RxPDO_AC
    <3>. QED  BY <2>8, <3>1 DEF Tick, plant, TypeOK
  <2>9. CASE ClearCoreState
    BY <2>9 DEF ClearCoreState, plant, TypeOK
  <2>10. CASE UNCHANGED vars
    BY <2>10 DEF vars, machine, plant, TypeOK
  <2>. QED
    BY <2>1, <2>2, <2>3, <2>4, <2>5, <2>6, <2>7, <2>8, <2>9, <2>10 DEF Next
<1>. QED  BY <1>1, <1>2, PTL DEF Spec

-----------------------------------------------------------------------------
\* The states in which the horn may be down.
DownStates == {"AC_DOWN_STROKE", "AC_HOLD", "AC_ALARM", "AC_ESTOP"}

\* A run that leaves the horn down leaves the machine in one of them.  The return
\* stroke is the delicate state: it lifts the horn only when the motion is not
\* disabled, which the Exit of AC_HOLD, the only state before it, guarantees.
LEMMA DownAfterRun ==
  ASSUME TypeOK, horn = "DOWN" => acTx.ACState \in DownStates,
         NEW core, NEW ev, RunStateMachine(core, ev), horn' = "DOWN"
  PROVE  acTx'.ACState \in DownStates
<1>1. ASSUME NEW next, NEW st, NEW e, ChangeState(next, st, e)
      PROVE  /\ acTx'.ACState = next /\ next # "AC_READY"
             /\ next = "AC_RETURN_STROKE" => acTx.ACState # "AC_HOLD"
             /\ next # "AC_DOWN_STROKE" => horn = "DOWN"
  <2>1. acTx'.ACState = next /\ horn' = EnterHorn(next, ExitEvents(acTx.ACState, e))
    BY <1>1 DEF ChangeState, Publish
  <2>. QED  BY <2>1 DEF EnterHorn, ExitEvents, MayMove
<1>2. ASSUME NEW st, Stay(st, ev) PROVE acTx'.ACState \in DownStates
  BY <1>2 DEF Stay, Publish
<1>3. ASSUME NEW next, NEW e, Go(next, core, e)
      PROVE  /\ acTx'.ACState = next /\ next # "AC_READY"
             /\ next = "AC_RETURN_STROKE" => acTx.ACState # "AC_HOLD"
  BY <1>1, <1>3 DEF Go
<1>4. CASE \E st : Idle(core, st, ev) \/ Wait(core, st, ev)
  BY <1>2, <1>4 DEF Idle, Wait
<1>5. CASE \E error : Raise(core, error, ev)
  BY <1>2, <1>5 DEF Raise
<1>6. CASE StrokeDownLoop(core, ev)
  <2>1. CASE \E error : Raise(core, error, ev)
    BY <1>5, <2>1
  <2>2. CASE Publish(StrokeDownState(ev), StrokeDownStatus(ev), EnterEvents(StrokeDownState(ev), ev))
             /\ horn' = IF Command({"PRE_READY"}) THEN "UP" ELSE horn
    BY <2>2 DEF Publish, StrokeDownState, DownStates
  <2>. QED  BY <1>6, <2>1, <2>2 DEF StrokeDownLoop
<1>7. CASE GetPB1(core, ev) /\ In("AC_READY")
  BY <1>1, <1>2, <1>7 DEF GetPB1, In, DownStates
<1>8. CASE \E st : ChangeState("AC_READY", st, ev)
  BY <1>1, <1>8
<1>9. CASE Go("AC_READY", core, ev)
  BY <1>3, <1>9
<1>10. CASE \E e : Go("AC_DOWN_STROKE", core, e) \/ Go("AC_ESTOP", core, e) \/ Go("AC_ALARM", core, e)
  BY <1>3, <1>10 DEF DownStates
<1>11. CASE In("AC_HOLD") /\ Go("AC_RETURN_STROKE", core, ev)
  BY <1>3, <1>11 DEF In
<1>. QED
  BY <1>4, <1>5, <1>6, <1>7, <1>8, <1>9, <1>10, <1>11
  DEF RunStateMachine, PowerUpLoop, ReadyLoop, StartSwitchLoop, StrokeUpLoop, WeldHoldLoop,
      AlarmLoop, EstopLoop

\* With no manual motion down the horn is down only in a stroke, on the part, or in the
\* error states that leave it as they find it.
THEOREM HornCorrect == Spec => []HornDownStates
<1>1. InitActuator => HornDownStates
  BY DEF InitActuator, HornDownStates
<1>2. TypeOK /\ HornDownStates /\ [Next]_vars => HornDownStates'
  <2>. SUFFICES ASSUME TypeOK, HornDownStates, [Next]_vars, "DO_HORN_DOWN" \notin AuxMotions,
                       horn' = "DOWN"
                PROVE  acTx'.ACState \in DownStates
    BY DEF HornDownStates, DownStates
  <2>1. horn = "DOWN" => acTx.ACState \in DownStates
    BY DEF HornDownStates, DownStates
  <2>2. CASE ACRun
    BY <2>1, <2>2, DownAfterRun DEF ACRun
  <2>3. CASE UNCHANGED <<horn, acTx>>
    BY <2>1, <2>3
  <2>. QED
    BY <2>2, <2>3 DEF Next, ACReceive, DoAuxMotion, PressureSet, HornTravel, StartSwitchInput,
                      EstopInput, Tick, ClearCoreState, vars, machine
<1>. QED  BY <1>1, <1>2, TypeCorrect, PTL DEF Spec

-----------------------------------------------------------------------------
\* Only the answer of AC_READY to a stroke command lowers the horn.
LEMMA LoweredInReady ==
  ASSUME NEW core, NEW ev, RunStateMachine(core, ev), horn = "UP", horn' = "DOWN"
  PROVE  /\ In("AC_READY") /\ ~EstopDue(ev) /\ ~AlarmDue(core, ev)
         /\ Command({"WAIT_FOR_TRIGGER", "DOWN_STROKE"})
         /\ acTx'.ACState = "AC_DOWN_STROKE" /\ acCore' = core
<1>1. ASSUME NEW next, NEW st, NEW e, ChangeState(next, st, e)
      PROVE  next = "AC_DOWN_STROKE" /\ acTx'.ACState = "AC_DOWN_STROKE"
  BY <1>1 DEF ChangeState, EnterHorn, Publish
<1>2. ASSUME NEW next, NEW e, Go(next, core, e)
      PROVE  next = "AC_DOWN_STROKE" /\ acTx'.ACState = "AC_DOWN_STROKE" /\ acCore' = core
  BY <1>1, <1>2 DEF Go
<1>3. \A st, e : ~Stay(st, e)
  BY DEF Stay
<1>4. /\ \A st : ~Idle(core, st, ev) /\ ~Wait(core, st, ev)
      /\ \A error : ~Raise(core, error, ev)
  BY <1>3 DEF Idle, Wait, Raise
<1>5. ~GetPB1(core, ev) /\ ~StartSwitchLoop(core, ev)
  BY <1>1, <1>3, <1>4 DEF GetPB1, StartSwitchLoop
<1>6. ~StrokeDownLoop(core, ev)
  BY <1>4 DEF StrokeDownLoop
<1>7. ReadyLoop(core, ev) /\ ~EstopDue(ev) /\ ~AlarmDue(core, ev)
  BY <1>2, <1>4, <1>5, <1>6
  DEF RunStateMachine, PowerUpLoop, StrokeUpLoop, WeldHoldLoop, AlarmLoop, EstopLoop
<1>8. In("AC_READY") /\ Command({"WAIT_FOR_TRIGGER", "DOWN_STROKE"})
      /\ Go("AC_DOWN_STROKE", core, ev \ {"CTRL_AC_MOVE_DISABLE"})
  BY <1>4, <1>5, <1>7 DEF ReadyLoop
<1>. QED  BY <1>2, <1>7, <1>8

\* A late run, a stale command, a pressed E-stop or a pending error never lowers
\* the horn: only a stroke command that AC_READY finds does.
THEOREM LoweredCorrect == Spec => HornLowered
<1>1. [Next]_vars
        => [ACRun /\ horn = "UP" /\ horn' = "DOWN"
              => /\ acTx.ACState = "AC_READY" /\ acTx'.ACState = "AC_DOWN_STROKE"
                 /\ acRx.MasterState \in {"WAIT_FOR_TRIGGER", "DOWN_STROKE"}
                 /\ ~estopIn /\ acCore' = {}]_vars
  <2>. SUFFICES ASSUME ACRun, horn = "UP", horn' = "DOWN"
                PROVE  /\ acTx.ACState = "AC_READY" /\ acTx'.ACState = "AC_DOWN_STROKE"
                       /\ acRx.MasterState \in {"WAIT_FOR_TRIGGER", "DOWN_STROKE"}
                       /\ ~estopIn /\ acCore' = {}
    OBVIOUS
  <2>1. PICK core \in SUBSET ACErrors : RunStateMachine(core, ScannedEvents)
    BY DEF ACRun
  <2>2. /\ In("AC_READY") /\ ~EstopDue(ScannedEvents) /\ ~AlarmDue(core, ScannedEvents)
        /\ Command({"WAIT_FOR_TRIGGER", "DOWN_STROKE"})
        /\ acTx'.ACState = "AC_DOWN_STROKE" /\ acCore' = core
    BY <2>1, LoweredInReady
  <2>3. ~estopIn
    BY <2>2 DEF EstopDue, ScannedEvents, In
  <2>4. core = {}
    BY <2>2 DEF AlarmDue, In
  <2>. QED  BY <2>2, <2>3, <2>4 DEF In, Command
<1>. QED  BY <1>1, PTL DEF Spec, HornLowered

\* A run that finds the E-stop pressed leaves the horn where it is and ends in one
\* of the two error states, whatever the machine was doing after power-up.
THEOREM EstopCorrect == Spec => EstopFreezesHorn
<1>1. [Next]_vars
        => [ACRun /\ estopIn /\ acTx.ACState # "AC_POWERUP"
              => horn' = horn /\ acTx'.ACState \in {"AC_ESTOP", "AC_ALARM"}]_vars
  <2>. SUFFICES ASSUME ACRun, estopIn, acTx.ACState # "AC_POWERUP"
                PROVE  horn' = horn /\ acTx'.ACState \in {"AC_ESTOP", "AC_ALARM"}
    OBVIOUS
  <2>. DEFINE ev == ScannedEvents
  <2>1. PICK core \in SUBSET ACErrors : RunStateMachine(core, ev)
    BY DEF ACRun
  <2>2. "CTRL_ESTOP" \in ev
    BY DEF ScannedEvents
  <2>. HIDE DEF ev
  <2>3. ASSUME NEW next \in {"AC_ESTOP", "AC_ALARM"}, Go(next, core, ev)
        PROVE  horn' = horn /\ acTx'.ACState \in {"AC_ESTOP", "AC_ALARM"}
    BY <2>3 DEF Go, ChangeState, Publish, EnterHorn
  <2>4. CASE acTx.ACState # "AC_ESTOP"
    <3>1. EstopDue(ev)
      BY <2>2, <2>4 DEF EstopDue, In
    <3>. QED  BY <2>1, <2>3, <3>1 DEF RunStateMachine, AlarmDue
  <2>5. CASE acTx.ACState = "AC_ESTOP"
    <3>1. CASE Go("AC_ALARM", core, ev)
      BY <2>3, <3>1
    <3>2. CASE EstopLoop(core, ev)
      BY <2>2, <2>5, <3>2 DEF EstopLoop, Idle, Stay, Publish
    <3>. QED
      BY <2>1, <2>5, <3>1, <3>2
      DEF RunStateMachine, EstopDue, In, PowerUpLoop, ReadyLoop, StartSwitchLoop,
          StrokeDownLoop, StrokeUpLoop, WeldHoldLoop, AlarmLoop
  <2>. QED  BY <2>4, <2>5
<1>. QED  BY <1>1, PTL DEF Spec, EstopFreezesHorn

-----------------------------------------------------------------------------
\* Only two places of the machine write the pressed status: AC_STARTSWICH when it
\* finds both switches, AC_READY when it is asked for their release and finds it.
LEMMA PressedAfterRun ==
  ASSUME NEW core, NEW ev, RunStateMachine(core, ev),
         NEW Pressed, Pressed = "STATUS_START_SWITCH_PRESSED"
  PROVE  /\ Pressed \notin Status /\ Pressed \in acTx'.AC_StatusEvent
              => In("AC_STARTSWICH") /\ switches = StartSwitches
         /\ Pressed \in Status /\ Pressed \notin acTx'.AC_StatusEvent
              => Command({"PRE_READY"}) /\ switches = {}
<1>. DEFINE Same == Pressed \in acTx'.AC_StatusEvent <=> Pressed \in Status
<1>1. ASSUME NEW state, NEW st PROVE Pressed \in EnterStatus(state, st) <=> Pressed \in st
  BY DEF EnterStatus
<1>2. ASSUME NEW st, Stay(st, ev) PROVE acTx'.AC_StatusEvent = st
  BY <1>2 DEF Stay, Publish
<1>3. ASSUME NEW next, NEW st, NEW e, ChangeState(next, st, e)
      PROVE  acTx'.AC_StatusEvent = EnterStatus(next, st)
  BY <1>3 DEF ChangeState, Publish
<1>4. ASSUME NEW next, NEW e, Go(next, core, e) PROVE Same
  BY <1>1, <1>3, <1>4 DEF Go
<1>5. ASSUME NEW st, Idle(core, st, ev) \/ Wait(core, st, ev)
      PROVE  acTx'.AC_StatusEvent = st
  BY <1>2, <1>5 DEF Idle, Wait
<1>6. ASSUME NEW error, Raise(core, error, ev) PROVE Same
  BY <1>2, <1>6 DEF Raise
<1>7. CASE ReadyLoop(core, ev)
  <2>1. CASE Command({"PRE_READY"}) /\ Idle(core, IF switches = {}
               THEN Status \ {"STATUS_START_SWITCH_PRESSED"} ELSE Status, ev)
    BY <1>5, <2>1
  <2>2. CASE GetPB1(core, ev)
    BY <1>1, <1>2, <1>3, <2>2 DEF GetPB1
  <2>. QED  BY <1>4, <1>5, <1>7, <2>1, <2>2 DEF ReadyLoop
<1>8. CASE StartSwitchLoop(core, ev)
  <2>1. CASE switches = StartSwitches
             /\ ChangeState("AC_READY", Status \cup {"STATUS_START_SWITCH_PRESSED"}, ev)
    BY <1>1, <1>3, <1>8, <2>1 DEF StartSwitchLoop
  <2>. QED  BY <1>5, <1>6, <1>8, <2>1 DEF StartSwitchLoop, BothPressed
<1>9. CASE StrokeDownLoop(core, ev)
  <2>1. Pressed \in StrokeDownStatus(ev) <=> Pressed \in Status
    BY <1>1 DEF StrokeDownStatus
  <2>2. CASE acTx'.AC_StatusEvent = StrokeDownStatus(ev)
    BY <2>1, <2>2
  <2>. QED  BY <1>6, <1>9, <2>2 DEF StrokeDownLoop, Publish
<1>10. CASE StrokeUpLoop(core, ev)
  <2>1. Pressed \in Status \ {"STATUS_AC_MOVE_DISABLE"} <=> Pressed \in Status
    OBVIOUS
  <2>. QED  BY <1>4, <1>5, <1>6, <1>10, <2>1 DEF StrokeUpLoop
<1>. QED
  BY <1>4, <1>5, <1>7, <1>8, <1>9, <1>10
  DEF RunStateMachine, PowerUpLoop, WeldHoldLoop, AlarmLoop, EstopLoop

\* The actuator's half of the two-hand start: the pressed status that starts a
\* cycle appears only with both switches down and goes only once both are released.
THEOREM StartSwitchCorrect == Spec => StartSwitchStatus
<1>1. [Next]_vars
        => [ACRun => LET Pressed(tx) == "STATUS_START_SWITCH_PRESSED" \in tx.AC_StatusEvent IN
              /\ ~Pressed(acTx) /\ Pressed(acTx')
                   => acTx.ACState = "AC_STARTSWICH" /\ switches = StartSwitches
              /\ Pressed(acTx) /\ ~Pressed(acTx')
                   => acRx.MasterState = "PRE_READY" /\ switches = {}]_vars
  BY PressedAfterRun DEF ACRun, Status, In, Command
<1>. QED  BY <1>1, PTL DEF Spec, StartSwitchStatus

=============================================================================
