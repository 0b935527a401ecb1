----------------------------- MODULE WelderLoads -----------------------------
(***************************************************************************)
(* The controller at work, with what a load of an operation leaves behind: *)
(* LoadStatesHandler stops the machine and deletes its objects without an  *)
(* Exit, so that a test which has its sonics on may be replaced, and the   *)
(* command it gave to the power supply stays.                              *)
(***************************************************************************)
EXTENDS Welder

VARIABLE leftOn   \* history: the sonics ran when a load stopped the machine, and still do

SonicsOn == "RUN" \in psOut

LoadsInit == Init /\ leftOn = FALSE

\* A tick with the loading flag set stops the machine.
ClockWithLoad == AuxClock /\ leftOn' = (SonicsOn /\ (leftOn \/ isLoading))

OthersWithLoad ==
  /\ \/ PowerTask \/ ActuatorTask \/ PressureMessage \/ ControlTask
     \/ AlarmReset \/ Plant \/ Generator
  /\ leftOn' = (leftOn /\ SonicsOn')

LoadsNext == ClockWithLoad \/ OthersWithLoad

LoadsSpec == LoadsInit /\ [][LoadsNext]_<<welder, leftOn>>

-----------------------------------------------------------------------------
(* Properties.                                                             *)

\* Whatever operation is loaded amid whatever other, sonics run outside the states
\* that ask for them only where a load has stopped the machine with the sonics on:
\* no button, overload, alarm or new list sets them on or leaves them on.
SonicsLeftOnlyByLoad == Powered /\ SonicsOn => scObj \in SonicStates \/ leftOn

=============================================================================
