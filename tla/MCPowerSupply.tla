--------------------------- MODULE MCPowerSupply ---------------------------
(***************************************************************************)
(* The power supply by itself.  Its machine tells apart six commands: HOLD *)
(* acts as NO_STATE does, and every other state as PRE_READY does.         *)
(***************************************************************************)
EXTENDS PowerSupply

MCCommands == {"NO_STATE", "PRE_READY", "SEEK_SONIC_ON", "WAIT_FOR_TRIGGER",
               "WELD_SONIC_ON", "WAIT_FOR_READY_POSITION"}

=============================================================================
