-------------------------- MODULE MCControllerRoles --------------------------
(* Small instances of ControllerRoles for TLC. *)
EXTENDS ControllerRoles, TLC

\* A slave that wants no port status either.
MCMasks == {[master |-> {"packet_in"}, slave |-> {}]}

Alike == Permutations(Controllers)
==============================================================================
