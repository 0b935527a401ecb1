------------------------- MODULE MCWelderOperations -------------------------
(***************************************************************************)
(* The operations other than a plain weld, on the small times of MCWelder. *)
(***************************************************************************)
EXTENDS MCWelder, WelderLoads

BurstSetup ==
  [TimeSetup EXCEPT !.preBurst = 1, !.afterBurst = 1, !.afterBurstDelay = 1,
                    !.faults = {"PRESSURE"}]

TestSetup ==
  [TimeSetup EXCEPT !.operations = {"TEST"}, !.testSeekTime = 1, !.faults = {"ESTOP", "OVERLOAD"}]

CalibrationSetup ==
  [TimeSetup EXCEPT !.operations = {"HEIGHT_CALIBRATE_READY"}, !.heightEncoder = TRUE,
                    !.faults = {"ESTOP", "OVERLOAD"}]

\* Each operation is loaded amid the others, and none of them, too.
ReplacedSetup ==
  [TimeSetup EXCEPT !.operations = {"TEST", "HEIGHT_CALIBRATE_READY", NoOperation}]

OperationSetups == {BurstSetup, TestSetup, CalibrationSetup, ReplacedSetup}

\* There nobody touches the start switches: no operation of it looks at them.
HandsOff == setup = ReplacedSetup => switches = {}

=============================================================================
