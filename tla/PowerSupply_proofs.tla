-------------------------- MODULE PowerSupply_proofs --------------------------
(***************************************************************************)
(* Proofs about the power supply, for every set of commands and every      *)
(* period of the overload poll.  Everything is a property of the one run   *)
(* PSRun; the other actions touch neither the outputs nor the state.       *)
(***************************************************************************)
EXTENDS PowerSupply, TLAPS

\* What a run does to the machine: it changes the state or stays in it, and the
\* states that switch outputs on are entered only from PC_READY, with no E-stop
\* and no overload.
Change(next, fault) ==
  /\ \E status \in SUBSET PC_STATUS_EVENTS : ChangeState(next, status)
  /\ next \notin DisablingStates
       => pcTx.PCState = "PC_READY" /\ ~fault /\ ~Ctrl("CTRL_ESTOP")

StayHere == \E status \in SUBSET PC_STATUS_EVENTS : StayInState(status)

LEMMA RunChangesOrStays ==
  ASSUME TypeOK, NEW fault \in BOOLEAN, RunStateMachine(fault)
  PROVE  (\E next \in PCSTATES : Change(next, fault)) \/ StayHere
<1>1. Status \in SUBSET PC_STATUS_EVENTS
  BY DEF TypeOK, Status, TxPDO_PC
<1>2. ASSUME NEW next \in DisablingStates, ChangeState(next, Status)
      PROVE  \E n \in PCSTATES : Change(n, fault)
  BY <1>1, <1>2 DEF Change, DisablingStates, PCSTATES
<1>3. StayInState(Status) => StayHere
  BY <1>1 DEF StayHere
<1>4. CASE ~Ctrl("CTRL_ESTOP") /\ pcTx.PCState = "PC_READY" /\ ~fault /\ ReadyCommand
  <2>1. ASSUME NEW next \in {"PC_WELD_RUN", "PC_SEEK_RUN"}, NEW status \in SUBSET PC_STATUS_EVENTS,
               ChangeState(next, status)
        PROVE  \E n \in PCSTATES : Change(n, fault)
    BY <1>4, <2>1 DEF Change, PCSTATES
  <2>2. ASSUME NEW ctrl, NEW stat \in PC_STATUS_EVENTS, Burst(ctrl, stat)
        PROVE  (\E n \in PCSTATES : Change(n, fault)) \/ StayHere
    BY <1>1, <2>1, <2>2 DEF Burst, StayHere
  <2>3. "STATUS_PREBURST_ENABLE" \in PC_STATUS_EVENTS
        /\ "STATUS_AFTERBURST_ENABLE" \in PC_STATUS_EVENTS
    BY DEF PC_STATUS_EVENTS
  <2>. QED  BY <1>1, <1>3, <1>4, <2>1, <2>2, <2>3 DEF ReadyCommand
<1>. QED
  BY <1>2, <1>3, <1>4 DEF RunStateMachine, ReadyLoop, WeldRunLoop, SeekRunLoop, AlarmLoop,
                          EstopLoop, DisablingStates

\* No state but the three that switch outputs on ever raises one.
LEMMA OutputsOnEnter ==
  ASSUME TypeOK, NEW next \in PCSTATES
  PROVE  /\ EnterOutputs(next, ExitOutputs) \in SUBSET Outputs
         /\ next \in DisablingStates => EnterOutputs(next, ExitOutputs) \subseteq psOut
<1>1. ExitOutputs \subseteq psOut
  BY DEF ExitOutputs
<1>2. psOut \subseteq Outputs
  BY DEF TypeOK
<1>3. SeekOutput \subseteq Outputs
  BY DEF SeekOutput, Outputs
<1>. QED
  BY <1>1, <1>2, <1>3 DEF EnterOutputs, AlarmEnterOutputs, WeldEnterOutputs, SeekEnterOutputs,
                         Outputs, DisablingStates, PCSTATES

\* The constructor and a whole run keep the types; the welder builds on these two.
LEMMA InitTypes ==
  ASSUME InitPower
  PROVE  TypeOK
<1>1. pcRx \in RxPDO_PC
  BY DEF InitPower, RxPDO_PC, MasterStates, SCSTATES, PC_CONTROL_EVENTS
<1>2. pcTx \in TxPDO_PC
  BY DEF InitPower, TxPDO_PC, PCSTATES
<1>3. psTick \in 0 .. PollPeriod - 1
  BY PollPeriodAssumption DEF InitPower
<1>. QED  BY <1>1, <1>2, <1>3 DEF InitPower, TypeOK

LEMMA RunKeepsTypes ==
  ASSUME TypeOK, PSRun
  PROVE  TypeOK'
<1>1. PolledCore \in BOOLEAN
  BY DEF PolledCore, TypeOK
<1>2. NextTick \in 0 .. PollPeriod - 1
  BY PollPeriodAssumption DEF NextTick, TypeOK
<1>3. pcRx' \in RxPDO_PC /\ pcTx' \in TxPDO_PC /\ psOut' \in SUBSET Outputs
  <2>1. CASE \E next \in PCSTATES : Change(next, PolledCore)
    <3>1. PICK next \in PCSTATES, status \in SUBSET PC_STATUS_EVENTS :
            ChangeState(next, status)
      BY <2>1 DEF Change
    <3>2. pcTx' \in TxPDO_PC
      BY <3>1 DEF ChangeState, TxPDO_PC
    <3>3. pcRx' \in RxPDO_PC
      BY <3>1 DEF ChangeState, TypeOK, RxPDO_PC, PC_CONTROL_EVENTS
    <3>4. psOut' \in SUBSET Outputs
      BY <3>1, OutputsOnEnter DEF ChangeState
    <3>. QED  BY <3>2, <3>3, <3>4
  <2>2. CASE StayHere
    BY <2>2 DEF StayHere, StayInState, TypeOK, TxPDO_PC
  <2>. QED  BY <1>1, <2>1, <2>2, RunChangesOrStays DEF PSRun
<1>. QED  BY <1>1, <1>2, <1>3 DEF PSRun, TypeOK

\* The variables stay in their types: in particular the poll counter stays
\* below its period and a disabled bit is only ever added to the command.
THEOREM TypeCorrect == Spec => []TypeOK
<1>1. InitPower => TypeOK
  BY InitTypes
<1>2. TypeOK /\ [Next]_vars => TypeOK'
  <2>. SUFFICES ASSUME TypeOK, [Next]_vars PROVE TypeOK'
    OBVIOUS
  <2>1. CASE PSReceive
    BY <2>1 DEF PSReceive, TypeOK
  <2>2. CASE PSRun
    BY <2>2, RunKeepsTypes
  <2>3. CASE Tick
    BY <2>3, CommandsAssumption DEF Tick, TypeOK, RxPDO_PC
  <2>4. CASE OverloadInput
    BY <2>4 DEF OverloadInput, TypeOK
  <2>5. CASE ClearCoreState
    BY <2>5 DEF ClearCoreState, TypeOK
  <2>6. CASE UNCHANGED vars
    BY <2>6 DEF vars, TypeOK
  <2>. QED  BY <2>1, <2>2, <2>3, <2>4, <2>5, <2>6 DEF Next
<1>. QED  BY <1>1, <1>2, PTL DEF Spec

-----------------------------------------------------------------------------
\* Whatever state the machine leaves and whatever state it enters, the outputs
\* it is left with belong to the new one.
LEMMA OutputsFollowState ==
  ASSUME TypeOK, OutputsBelongToState, NEW next \in PCSTATES, NEW status,
         ChangeState(next, status), next \notin DisablingStates => pcTx.PCState = "PC_READY"
  PROVE  OutputsBelongToState'
<1>1. pcTx'.PCState = next /\ psOut' = EnterOutputs(next, ExitOutputs)
  BY DEF ChangeState
<1>2. CASE next \in {"PC_READY", "PC_ESTOP"}
  BY <1>1, <1>2 DEF EnterOutputs, OutputsBelongToState
<1>3. CASE next = "PC_ALARM"
  <2>1. psOut' = ExitOutputs \ {"RUN", "SEEK"}
    BY <1>1, <1>3 DEF EnterOutputs, AlarmEnterOutputs
  <2>2. "SONICS" \notin psOut'
    BY <2>1 DEF ExitOutputs, OutputsBelongToState
  <2>. QED  BY <1>1, <1>3, <2>1, <2>2 DEF OutputsBelongToState
<1>4. CASE next \in {"PC_WELD_RUN", "PC_SEEK_RUN"}
  <2>1. ExitOutputs = {}
    BY <1>4 DEF ExitOutputs, OutputsBelongToState, TypeOK, Outputs, DisablingStates
  <2>. QED
    BY <1>1, <1>4, <2>1 DEF EnterOutputs, WeldEnterOutputs, SeekEnterOutputs, SeekOutput,
                            OutputsBelongToState
<1>. QED  BY <1>2, <1>3, <1>4 DEF PCSTATES

\* The sonics run only in PC_WELD_RUN, a seek only in PC_SEEK_RUN, and only a
\* test output outlives its state, in PC_ALARM.  PCReady's Loop is the only one
\* that starts them, and in PC_READY every output is already low: that is why the
\* invariant is inductive together with the types.
THEOREM OutputsCorrect == Spec => []OutputsBelongToState
<1>1. InitPower => OutputsBelongToState
  BY DEF InitPower, OutputsBelongToState
<1>2. TypeOK /\ OutputsBelongToState /\ [Next]_vars => OutputsBelongToState'
  <2>. SUFFICES ASSUME TypeOK, OutputsBelongToState, [Next]_vars PROVE OutputsBelongToState'
    OBVIOUS
  <2>1. CASE PSRun
    <3>1. PolledCore \in BOOLEAN
      BY DEF PolledCore, TypeOK
    <3>2. CASE \E next \in PCSTATES : Change(next, PolledCore)
      BY <3>2, OutputsFollowState DEF Change
    <3>3. CASE StayHere
      BY <3>3 DEF StayHere, StayInState, OutputsBelongToState, TypeOK, TxPDO_PC
    <3>. QED  BY <2>1, <3>1, <3>2, <3>3, RunChangesOrStays DEF PSRun
  <2>2. CASE PSReceive \/ Tick \/ OverloadInput \/ ClearCoreState \/ UNCHANGED vars
    BY <2>2 DEF PSReceive, Tick, OverloadInput, ClearCoreState, vars, OutputsBelongToState
  <2>. QED  BY <2>1, <2>2 DEF Next
<1>. QED  BY <1>1, <1>2, TypeCorrect, PTL DEF Spec

-----------------------------------------------------------------------------
\* A run raises an output only from PC_READY, and then neither the E-stop nor the
\* disabled sonics nor an overload stood against it, however many ticks were
\* missed since the command was given.
THEOREM RaisedCorrect == Spec => RaisedOnlyWhenAllowed
<1>1. TypeOK /\ [Next]_vars
        => [psOut' \subseteq psOut
            \/ /\ ~Ctrl("CTRL_ESTOP")
               /\ ~Ctrl("CTRL_PC_SONIC_DISABLE")
               /\ ~psCore'
               /\ pcTx.PCState = "PC_READY"]_vars
  <2>. SUFFICES ASSUME TypeOK, Next, ~(psOut' \subseteq psOut)
                PROVE  /\ ~Ctrl("CTRL_ESTOP")
                       /\ ~Ctrl("CTRL_PC_SONIC_DISABLE")
                       /\ ~psCore'
                       /\ pcTx.PCState = "PC_READY"
    OBVIOUS
  <2>1. PSRun
    BY DEF Next, PSReceive, Tick, OverloadInput, ClearCoreState
  <2>2. PolledCore \in BOOLEAN
    BY DEF PolledCore, TypeOK
  <2>3. ~StayHere
    BY DEF StayHere, StayInState
  <2>4. PICK next \in PCSTATES : Change(next, PolledCore)
    BY <2>1, <2>2, <2>3, RunChangesOrStays DEF PSRun
  <2>5. psOut' = EnterOutputs(next, ExitOutputs)
    BY <2>4 DEF Change, ChangeState
  <2>6. next \notin DisablingStates
    BY <2>5, OutputsOnEnter
  <2>7. ~Ctrl("CTRL_PC_SONIC_DISABLE")
    BY <2>5, <2>6 DEF EnterOutputs, ExitOutputs, WeldEnterOutputs, SeekEnterOutputs,
                      DisablingStates, PCSTATES
  <2>. QED  BY <2>1, <2>4, <2>6, <2>7 DEF PSRun, Change
<1>. QED  BY <1>1, TypeCorrect, PTL DEF Spec, RaisedOnlyWhenAllowed

\* One run after the E-stop bit is seen set every output is low, from any state.
\* In PC_ESTOP they are low already: the outputs must be known to belong to the
\* state.
THEOREM EstopCorrect == Spec => EstopCutsOutputs
<1>1. TypeOK /\ OutputsBelongToState /\ [Next]_vars
        => [psBusy /\ ~psBusy' /\ Ctrl("CTRL_ESTOP")
              => psOut' = {} /\ pcTx'.PCState = "PC_ESTOP"]_vars
  <2>. SUFFICES ASSUME TypeOK, OutputsBelongToState, Next, psBusy, ~psBusy', Ctrl("CTRL_ESTOP")
                PROVE  psOut' = {} /\ pcTx'.PCState = "PC_ESTOP"
    OBVIOUS
  <2>1. PSRun
    BY DEF Next, PSReceive, Tick, OverloadInput, ClearCoreState
  <2>2. CASE pcTx.PCState # "PC_ESTOP"
    BY <2>1, <2>2 DEF PSRun, RunStateMachine, EstopLoop, ChangeState, EnterOutputs
  <2>3. CASE pcTx.PCState = "PC_ESTOP"
    <3>1. StayInState(Status)
      BY <2>1, <2>3 DEF PSRun, RunStateMachine, EstopLoop
    <3>2. psOut = {}
      BY <2>3 DEF OutputsBelongToState, TypeOK, Outputs
    <3>. QED  BY <2>3, <3>1, <3>2 DEF StayInState, TypeOK, TxPDO_PC
  <2>. QED  BY <2>2, <2>3
<1>. QED  BY <1>1, TypeCorrect, OutputsCorrect, PTL DEF Spec, EstopCutsOutputs

=============================================================================
