---------------------------- MODULE PowerSupply ----------------------------
(***************************************************************************)
(* The power supply: PowerSupply_T with the AUPS state machine             *)
(* (PowerSupplyTask, AUPSTask, PCStateMachine, directory AUPS).  Every     *)
(* millisecond the auxiliary clock sets the task's event bits; the task    *)
(* collects them (PSReceive), polls the overload input and runs one state  *)
(* of its machine (PSRun).  The clock can tick again between the two.      *)
(*                                                                         *)
(* By itself this module puts the power supply in an environment that may  *)
(* write any command at any tick; module Welder composes it with the real  *)
(* supervisory controller and checks that it implements this one.          *)
(***************************************************************************)
EXTENDS Naturals, ProcessData

CONSTANTS
  PollPeriod,    \* runs between two polls of the overload input (1000)
  Commands       \* the master states the environment may command

ASSUME PollPeriodAssumption == PollPeriod \in Nat \ {0}
ASSUME CommandsAssumption == Commands \subseteq MasterStates

VARIABLES
  pcRx,      \* PC_RX: the command of the SC
  pcTx,      \* PC_TX: state and status shown to the SC
  psCore,    \* CoreState # NO_ERROR (ERR_POWER_OVERLOAD, the only bit ever set)
  psTick,    \* Tick_1ms % PollPeriod
  psOut,     \* the outputs that are high
  overload,  \* the input I_OL_PSOUI is high
  psEvent,   \* the task's event bits are set
  psBusy     \* the events have been received and the run is not yet done

vars == <<pcRx, pcTx, psCore, psTick, psOut, overload, psEvent, psBusy>>

\* O_RUN_PSI, O_SONICS_ON, O_EXT_SEEK_PSI and O_TEST_PSI.
Outputs == {"RUN", "SONICS", "SEEK", "TEST"}

TypeOK ==
  /\ pcRx \in RxPDO_PC
  /\ pcTx \in TxPDO_PC
  /\ psCore \in BOOLEAN
  /\ psTick \in 0 .. PollPeriod - 1
  /\ psOut \in SUBSET Outputs
  /\ overload \in BOOLEAN
  /\ psEvent \in BOOLEAN
  /\ psBusy \in BOOLEAN

-----------------------------------------------------------------------------
Ctrl(event) == event \in pcRx.MasterEvents

\* The machine as the constructor leaves it: PC_READY has been entered.
InitPower ==
  /\ pcRx = [MasterState |-> "PRE_READY", MasterEvents |-> {"CTRL_PC_SONIC_DISABLE"}]
  /\ pcTx = [PCState |-> "PC_READY", PC_StatusEvent |-> {}]
  /\ psCore = FALSE
  /\ psTick = 0
  /\ psOut = {}
  /\ overload = FALSE
  /\ psEvent = FALSE
  /\ psBusy = FALSE

-----------------------------------------------------------------------------
(* ChangeState(next): Exit of the current state, then Enter of the next.   *)

\* Slip: PCWeldRun::Exit lowers two of its three outputs.
ExitOutputsSlip ==
  CASE pcTx.PCState = "PC_WELD_RUN" -> psOut \ {"TEST", "RUN"}
    [] pcTx.PCState = "PC_SEEK_RUN" /\ ~Ctrl("CTRL_WELDTEST_ENABLE") -> psOut \ {"SEEK"}
    [] OTHER -> psOut

ExitOutputs ==
  CASE pcTx.PCState = "PC_WELD_RUN" -> psOut \ {"TEST", "RUN", "SONICS"}
    [] pcTx.PCState = "PC_SEEK_RUN" /\ ~Ctrl("CTRL_WELDTEST_ENABLE") -> psOut \ {"SEEK"}
    [] OTHER -> psOut

\* The output PC_SEEK_RUN raises: the test output for a test seek.
SeekOutput == IF Ctrl("CTRL_WELDTEST_ENABLE") THEN {"TEST"} ELSE {"SEEK"}

\* Slip: the disabled sonics are switched on all the same.
WeldEnterOutputsSlip(out) == out \cup {"RUN", "SONICS"}

WeldEnterOutputs(out) ==
  IF Ctrl("CTRL_PC_SONIC_DISABLE") THEN out ELSE out \cup {"RUN", "SONICS"}

SeekEnterOutputs(out) ==
  IF Ctrl("CTRL_PC_SONIC_DISABLE") THEN out ELSE out \cup SeekOutput

AlarmEnterOutputs(out) == out \ {"RUN", "SEEK"}

\* Slip: PCEstop::Enter forgets the test output.
EnterOutputsSlip(next, out) ==
  CASE next = "PC_READY" -> {}
    [] next = "PC_ESTOP" -> out \cap {"TEST"}
    [] next = "PC_ALARM" -> AlarmEnterOutputs(out)
    [] next = "PC_WELD_RUN" -> WeldEnterOutputs(out)
    [] next = "PC_SEEK_RUN" -> SeekEnterOutputs(out)

EnterOutputs(next, out) ==
  CASE next \in {"PC_READY", "PC_ESTOP"} -> {}
    [] next = "PC_ALARM" -> AlarmEnterOutputs(out)
    [] next = "PC_WELD_RUN" -> WeldEnterOutputs(out)
    [] next = "PC_SEEK_RUN" -> SeekEnterOutputs(out)

\* The states whose Enter disables the sonics.
DisablingStates == {"PC_READY", "PC_ALARM", "PC_ESTOP"}

ChangeState(next, status) ==
  /\ pcTx' = [PCState |-> next, PC_StatusEvent |-> status]
  /\ psOut' = EnterOutputs(next, ExitOutputs)
  /\ pcRx' = [pcRx EXCEPT !.MasterEvents =
                IF next \in DisablingStates THEN @ \cup {"CTRL_PC_SONIC_DISABLE"} ELSE @]

StayInState(status) ==
  /\ pcTx' = [pcTx EXCEPT !.PC_StatusEvent = status]
  /\ UNCHANGED <<pcRx, psOut>>

-----------------------------------------------------------------------------
(* The Loop of each state.  The core state is the one this run has polled. *)

Status == pcTx.PC_StatusEvent

\* PC_READY in WAIT_FOR_TRIGGER or WAIT_FOR_READY_POSITION: the burst bit of
\* the command starts the sonics and is copied to the status.
Burst(ctrl, stat) ==
  IF Ctrl(ctrl) THEN ChangeState("PC_WELD_RUN", Status \cup {stat})
                ELSE StayInState(Status \ {stat})

ReadyCommand ==
  \/ /\ pcRx.MasterState = "WELD_SONIC_ON"
     /\ ChangeState("PC_WELD_RUN", Status)
  \/ /\ pcRx.MasterState = "SEEK_SONIC_ON"
     /\ ChangeState("PC_SEEK_RUN", Status)
  \/ /\ pcRx.MasterState = "WAIT_FOR_TRIGGER"
     /\ Burst("CTRL_PREBURST_ENABLE", "STATUS_PREBURST_ENABLE")
  \/ /\ pcRx.MasterState = "WAIT_FOR_READY_POSITION"
     /\ Burst("CTRL_AFTERBURST_ENABLE", "STATUS_AFTERBURST_ENABLE")
  \/ /\ pcRx.MasterState \notin {"WELD_SONIC_ON", "SEEK_SONIC_ON", "WAIT_FOR_TRIGGER",
                                 "WAIT_FOR_READY_POSITION"}
     /\ StayInState(Status)

ReadyLoop(fault) ==
  /\ pcTx.PCState = "PC_READY"
  /\ IF fault THEN ChangeState("PC_ALARM", Status) ELSE ReadyCommand

\* Slip: the sonics go on when nothing is commanded any more.
WeldRunEndsSlip ==
  \/ pcRx.MasterState = "HOLD"
  \/ pcRx.MasterState = "WAIT_FOR_TRIGGER" /\ ~Ctrl("CTRL_PREBURST_ENABLE")
  \/ pcRx.MasterState = "WAIT_FOR_READY_POSITION" /\ ~Ctrl("CTRL_AFTERBURST_ENABLE")

\* The commands that end PC_WELD_RUN.
WeldRunEnds ==
  \/ pcRx.MasterState \in {"HOLD", "NO_STATE"}
  \/ pcRx.MasterState = "WAIT_FOR_TRIGGER" /\ ~Ctrl("CTRL_PREBURST_ENABLE")
  \/ pcRx.MasterState = "WAIT_FOR_READY_POSITION" /\ ~Ctrl("CTRL_AFTERBURST_ENABLE")

\* A command PC_WELD_RUN takes for an error: only once both bursts have been
\* seen, because the source joins the three tests with "and".
WeldRunStray ==
  /\ pcRx.MasterState \notin {"WELD_SONIC_ON", "WAIT_FOR_TRIGGER", "WAIT_FOR_READY_POSITION"}
  /\ Status = {"STATUS_PREBURST_ENABLE", "STATUS_AFTERBURST_ENABLE"}

WeldRunLoop(fault) ==
  /\ pcTx.PCState = "PC_WELD_RUN"
  /\ \/ fault /\ ChangeState("PC_ALARM", Status)
     \/ ~fault /\ WeldRunEnds /\ ChangeState("PC_READY", Status)
     \/ ~fault /\ ~WeldRunEnds /\ WeldRunStray /\ ChangeState("PC_ALARM", Status)
     \/ ~fault /\ ~WeldRunEnds /\ ~WeldRunStray /\ StayInState(Status)

SeekRunLoop(fault) ==
  /\ pcTx.PCState = "PC_SEEK_RUN"
  /\ \/ fault /\ ChangeState("PC_ALARM", Status)
     \/ ~fault /\ pcRx.MasterState # "SEEK_SONIC_ON" /\ ChangeState("PC_READY", Status)
     \/ ~fault /\ pcRx.MasterState = "SEEK_SONIC_ON" /\ StayInState(Status)

AlarmLoop(fault) ==
  /\ pcTx.PCState = "PC_ALARM"
  /\ IF fault THEN StayInState(Status) ELSE ChangeState("PC_READY", Status)

EstopLoop ==
  /\ pcTx.PCState = "PC_ESTOP"
  /\ IF Ctrl("CTRL_ESTOP") THEN StayInState(Status) ELSE ChangeState("PC_READY", Status)

\* RunStateMachine: E-stop first, then the Loop of the state.  After the
\* change to PC_ESTOP its Loop finds CTRL_ESTOP set and does nothing.
RunStateMachine(fault) ==
  \/ Ctrl("CTRL_ESTOP") /\ pcTx.PCState # "PC_ESTOP" /\ ChangeState("PC_ESTOP", Status)
  \/ ~Ctrl("CTRL_ESTOP") /\ (\/ ReadyLoop(fault) \/ WeldRunLoop(fault)
                             \/ SeekRunLoop(fault) \/ AlarmLoop(fault))
  \/ EstopLoop

-----------------------------------------------------------------------------
(* The task.                                                               *)

PSReceive ==
  /\ psEvent /\ ~psBusy
  /\ psEvent' = FALSE
  /\ psBusy' = TRUE
  /\ UNCHANGED <<pcRx, pcTx, psCore, psTick, psOut, overload>>

\* PDODownloadRequest: the overload input decides the core state, one run
\* out of PollPeriod.
PolledCore == IF psTick = 0 THEN overload ELSE psCore

\* Slip: the counter is never wrapped.
NextTickSlip == psTick + 1

NextTick == (psTick + 1) % PollPeriod

PSRun ==
  /\ psBusy
  /\ psBusy' = FALSE
  /\ psCore' = PolledCore
  /\ psTick' = NextTick
  /\ RunStateMachine(PolledCore)
  /\ UNCHANGED <<overload, psEvent>>

-----------------------------------------------------------------------------
(* The environment.                                                        *)

\* A tick of the auxiliary clock: the SC writes its command, the event bits
\* are set (once more, when they already were).
Tick ==
  /\ \E m \in Commands, e \in SUBSET PC_CONTROL_EVENTS :
        pcRx' = [MasterState |-> m, MasterEvents |-> e]
  /\ psEvent' = TRUE
  /\ UNCHANGED <<pcTx, psCore, psTick, psOut, overload, psBusy>>

\* The ultrasonic generator raises or drops its overload signal.
OverloadInput ==
  /\ overload' = ~overload
  /\ UNCHANGED <<pcRx, pcTx, psCore, psTick, psOut, psEvent, psBusy>>

\* AlarmManager::clearPowerSupplyAlarm.
ClearCoreState ==
  /\ psCore' = FALSE
  /\ UNCHANGED <<pcRx, pcTx, psTick, psOut, overload, psEvent, psBusy>>

Next == PSReceive \/ PSRun \/ Tick \/ OverloadInput \/ ClearCoreState

Spec == InitPower /\ [][Next]_vars

-----------------------------------------------------------------------------
(* Properties.                                                             *)

\* No output outlives the state that raised it, but for the test output,
\* which PCAlarm::Enter leaves high: the sonics run only in PC_WELD_RUN, both
\* of their outputs together, and a seek only in PC_SEEK_RUN.
OutputsBelongToState ==
  /\ psOut \cap {"RUN", "SONICS"} \in {{}, {"RUN", "SONICS"}}
  /\ "RUN" \in psOut => pcTx.PCState = "PC_WELD_RUN"
  /\ "SEEK" \in psOut => pcTx.PCState = "PC_SEEK_RUN"
  /\ "TEST" \in psOut => pcTx.PCState \in {"PC_SEEK_RUN", "PC_ALARM"}

\* An output goes high only on a run that sees neither the E-stop, nor the
\* sonics disabled, nor an overload - whatever was commanded before, and even
\* when ticks were missed since.
RaisedOnlyWhenAllowed ==
  [][psOut' \subseteq psOut
     \/ /\ ~Ctrl("CTRL_ESTOP")
        /\ ~Ctrl("CTRL_PC_SONIC_DISABLE")
        /\ ~psCore'
        /\ pcTx.PCState = "PC_READY"]_vars

\* One run after the command says E-stop every output is low, in any state.
EstopCutsOutputs ==
  [][psBusy /\ ~psBusy' /\ Ctrl("CTRL_ESTOP")
       => psOut' = {} /\ pcTx'.PCState = "PC_ESTOP"]_vars

=============================================================================
