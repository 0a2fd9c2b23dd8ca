---------------------------- MODULE CommandQueue ----------------------------
(***************************************************************************)
(* What a controller promises about dpctl commands: each switch executes   *)
(* those given for it, once each and in the order they were given, whether *)
(* it was connected at the time or not.                                    *)
(***************************************************************************)
EXTENDS Sequences, SequencesExt

CONSTANT Switches

VARIABLES
  queue,   \* commands given and not executed, oldest first
  done     \* commands executed

commands == <<queue, done>>

Init ==
  /\ queue = [s \in Switches |-> << >>]
  /\ done = [s \in Switches |-> << >>]

\* Commands are given to one switch, behind those that wait.
Issue(s) ==
  /\ IsPrefix(queue[s], queue'[s])
  /\ queue' = [queue EXCEPT ![s] = queue'[s]]
  /\ UNCHANGED done

Execute(s) ==
  /\ queue[s] # << >>
  /\ queue' = [queue EXCEPT ![s] = Tail(@)]
  /\ done' = [done EXCEPT ![s] = Append(@, Head(queue[s]))]

Next == \E s \in Switches : Issue(s) \/ Execute(s)

Spec == Init /\ [][Next]_commands
==============================================================================
