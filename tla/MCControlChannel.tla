-------------------------- MODULE MCControlChannel --------------------------
(* A small instance of ControlChannel for TLC. *)
EXTENDS ControlChannel

MCUserCommands == {"flow", "ping"}
MCUnsupported == {"ping"}
==============================================================================
