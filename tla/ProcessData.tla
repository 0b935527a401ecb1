---------------------------- MODULE ProcessData ----------------------------
(***************************************************************************)
(* The process data objects (PDOs) the controller's three state machines   *)
(* share.  MainTask::CreateSD opens one shared-data region per direction   *)
(* and per module, and everybody reads and writes them without a lock:     *)
(*                                                                         *)
(*   PC_RX, AC_RX   written by the supervisory controller (SC), read by    *)
(*                  the power supply (PC) and the actuator (AC), which     *)
(*                  also set and clear bits of their own MasterEvents;     *)
(*   PC_TX, AC_TX   written by PC and AC, read by the SC.                  *)
(*                                                                         *)
(* A PDO is a record with the source's field names; a bit field is the set *)
(* of the bits that are 1.  The bits nobody reads are left out             *)
(* (CTRL_PC_CLEAR_ALARMS, CTRL_AC_CLEAR_ALARMS, STATUS_POWER_UP_RECIPE,    *)
(* STATUS_PART_CONTACT_FOUND, STATUS_HOME_POSITION_FOUND,                  *)
(* CTRL_WELD_CYCLE_ENABLE), and so are the analogue values.                *)
(***************************************************************************)

\* The states of the supervisory controller that a sequence is built from.
SCSTATES ==
  {"PRE_READY", "READY", "SEEK_SONIC_ON", "WAIT_FOR_TRIGGER", "SQUEEZE_TIME",
   "WELD_PRESSURE_SET", "WELD_SONIC_ON", "HOLD", "WAIT_FOR_READY_POSITION",
   "CALIBRATE", "READY_FOR_TRIGGER", "TEST_SONIC_ON", "ALARM", "ESTOP"}

\* What the SC writes into MasterState: one of its states, a stroke command
\* of the height calibration, or NO_STATE.
MasterStates == SCSTATES \cup {"NO_STATE", "DOWN_STROKE", "RETURN_STROKE"}

\* What is left to do for a state of the SC at its next tick.
StepActions == {"INIT", "LOOP", "FAIL", "ABORT", "JUMP", "ALJUMPNORM"}

PCSTATES == {"PC_READY", "PC_WELD_RUN", "PC_SEEK_RUN", "PC_ALARM", "PC_ESTOP"}

PC_CONTROL_EVENTS ==
  {"CTRL_PC_SONIC_DISABLE", "CTRL_PREBURST_ENABLE", "CTRL_WELDTEST_ENABLE",
   "CTRL_AFTERBURST_ENABLE", "CTRL_ESTOP"}

PC_STATUS_EVENTS == {"STATUS_PREBURST_ENABLE", "STATUS_AFTERBURST_ENABLE"}

ACSTATES ==
  {"AC_POWERUP", "AC_READY", "AC_STARTSWICH", "AC_DOWN_STROKE", "AC_HOLD",
   "AC_RETURN_STROKE", "AC_ALARM", "AC_ESTOP"}

AC_CONTROL_EVENTS ==
  {"CTRL_AC_MOVE_DISABLE", "CTRL_ESTOP", "CTRL_ULS_ENABLE",
   "CTRL_PART_CONTACT_ENABLE", "CTRL_PREBURST_ENABLE"}

AC_STATUS_EVENTS == {"STATUS_AC_MOVE_DISABLE", "STATUS_START_SWITCH_PRESSED"}

\* The two start switches, as AC_TX->ACInputs shows them (SS1MASK, SS2MASK).
StartSwitches == {"SS1", "SS2"}

RxPDO_PC == [MasterState : MasterStates, MasterEvents : SUBSET PC_CONTROL_EVENTS]
TxPDO_PC == [PCState : PCSTATES, PC_StatusEvent : SUBSET PC_STATUS_EVENTS]
RxPDO_AC == [MasterState : MasterStates, MasterEvents : SUBSET AC_CONTROL_EVENTS]
TxPDO_AC == [ACState : ACSTATES, AC_StatusEvent : SUBSET AC_STATUS_EVENTS,
             ACInputs : SUBSET StartSwitches]

=============================================================================
