------------------------------ MODULE MCWelder ------------------------------
(***************************************************************************)
(* The whole controller on small times.  A period of one tick stands for   *)
(* each time the source counts; the debounce time is two, because the      *)
(* actuator sees the command READY for one run more than the SC gives it.  *)
(***************************************************************************)
EXTENDS Welder

\* A weld by energy with a height encoder, and a weld by time without one.
EnergySetup ==
  [operations |-> {"WELD"}, weldMode |-> "ENERGY_MODE", timeMin |-> 0, absMaxTime |-> 2,
   preBurst |-> 0, afterBurst |-> 0, afterBurstDelay |-> 0, testSeekTime |-> 1,
   heightEncoder |-> TRUE, lockOnAlarm |-> FALSE, footPedalAbort |-> FALSE,
   batches |-> FALSE, faults |-> {}]

TimeSetup ==
  [EnergySetup EXCEPT !.weldMode = "TIME_MODE", !.absMaxTime = 1, !.testSeekTime = 0,
                      !.heightEncoder = FALSE]

EstopSetup == [EnergySetup EXCEPT !.footPedalAbort = TRUE, !.faults = {"ESTOP"}]

LimitsSetup ==
  [EnergySetup EXCEPT !.lockOnAlarm = TRUE, !.batches = TRUE, !.faults = {"LIMIT", "OVERLOAD"}]

\* A screen without an operation: the list of ALARM and ESTOP alone.
IdleSetup ==
  [EnergySetup EXCEPT !.operations = {NoOperation}, !.faults = {"ESTOP", "OVERLOAD", "PRESSURE"}]

WeldSetups == {EstopSetup, LimitsSetup, IdleSetup}
LateSetups == {TimeSetup}
LiveSetups == {[TimeSetup EXCEPT !.preBurst = 1, !.afterBurst = 1, !.faults = {"ESTOP"}]}
WeldAndTestSetups == {[TimeSetup EXCEPT !.operations = {"WELD", "TEST"}]}
AfterBurstSetups == {[TimeSetup EXCEPT !.afterBurst = 1, !.faults = {"PRESSURE"}]}
AbortSetups == {[TimeSetup EXCEPT !.footPedalAbort = TRUE, !.faults = {"ESTOP"}]}

=============================================================================
