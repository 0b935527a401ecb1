----------------------------- MODULE MCServices -----------------------------
(***************************************************************************)
(* Three services that share no state - the cooling air, the calibration   *)
(* of the height encoder, the external link - each explored by itself: the *)
(* others rest in one initial state.                                       *)
(***************************************************************************)
EXTENDS Cooling, Calibration, ExternalLink

VARIABLE service   \* the one that runs

vars == <<service, coolingVars, calibrationVars, linkVars>>

ASetup == CHOOSE s \in CoolingSetups : TRUE
AnEthernet == NoEthernet

Init ==
  /\ service \in {"cooling", "calibration", "link"}
  /\ CoolingInit /\ (service # "cooling" => coolingSetup = ASetup)
  /\ CalibrationInit
  /\ LinkInit /\ (service # "link" => ethernet = AnEthernet)

Runs(name) == service = name /\ UNCHANGED service
OnlyCooling == Runs("cooling") /\ UNCHANGED <<calibrationVars, linkVars>>
OnlyCalibration == Runs("calibration") /\ UNCHANGED <<coolingVars, linkVars>>
OnlyLink == Runs("link") /\ UNCHANGED <<coolingVars, calibrationVars>>

\* Of a change of type between comparison and choice of the object neither property
\* of the link says anything: it is followed, but no other change after it.
LinkBound == crossed => ethernet' = ethernet

Next == \/ CoolingNext /\ OnlyCooling
        \/ CalibrationNext /\ OnlyCalibration
        \/ LinkNext /\ LinkBound /\ OnlyLink

\* The tasks run on; the driver takes the address and the peer comes now and
\* then.
Fairness ==
  /\ WF_vars(RunCoolingTimer /\ OnlyCooling)
  /\ WF_vars(ControlTaskStep /\ OnlyCalibration)
  /\ WF_vars(StrokeStep /\ OnlyCalibration)
  /\ WF_vars(ManagerStep /\ OnlyLink)
  /\ WF_vars(SocketStep /\ OnlyLink)
  /\ SF_vars(PeerComes /\ OnlyLink)
  /\ SF_vars(AddressTaken /\ OnlyLink)

Spec == Init /\ [][Next]_vars /\ Fairness

Setup(option, delay, duration) == [option |-> option, delay |-> delay, duration |-> duration]

AllSetups == {Setup("DISABLE", 0, 2), Setup("DISABLE", 1, 1), Setup("DISABLE", 0, 0),
              Setup("SECOND_PER_100JOULE", 1, 1), Setup("OTHER", 1, 1)}

\* Two servers differ by their port alone.
PeerAddress == [p \in {"s1", "s2", "s3", "m1"} |-> IF p = "s2" THEN "s1" ELSE p]

TwoPressures == <<"80", "50">>
=============================================================================
