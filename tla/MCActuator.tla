----------------------------- MODULE MCActuator -----------------------------
(***************************************************************************)
(* The actuator by itself, with every command its machine tells apart.     *)
(***************************************************************************)
EXTENDS Actuator

\* DOWN_STROKE acts as WAIT_FOR_TRIGGER, RETURN_STROKE as the return to the
\* ready position, and NO_STATE as READY in AC_HOLD and as the return to the
\* ready position elsewhere.
MCCommands == {"PRE_READY", "READY", "WAIT_FOR_TRIGGER", "WAIT_FOR_READY_POSITION"}
MCControlBits == {"CTRL_PART_CONTACT_ENABLE"}

\* The motion down is left out: with it the horn may be down anywhere.
MCMotions == {"DO_HORN_UP"}

=============================================================================
