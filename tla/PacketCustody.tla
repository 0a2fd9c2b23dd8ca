---------------------------- MODULE PacketCustody ----------------------------
(***************************************************************************)
(* What OFSwitch13Device promises about the packets of one switch, without  *)
(* rings, ids or timers: a packet is in the pipeline, or buffered for the   *)
(* controller, or done with, never in two places, and done is for ever.     *)
(* The pipeline works on one packet and its copies at a time, and a packet  *)
(* is buffered only when no copy of it stays behind in the pipeline.        *)
(***************************************************************************)

VARIABLES
  pipeline,   \* the packet under way and its copies
  buffered,   \* packets that wait for the controller
  done        \* packets sent, dropped or expired

custody == <<pipeline, buffered, done>>

Known == pipeline \cup buffered \cup done

Init == pipeline = {} /\ buffered = {} /\ done = {}

Enter(p) ==
  /\ pipeline = {} /\ p \notin Known
  /\ pipeline' = {p}
  /\ UNCHANGED <<buffered, done>>

Copy(p) ==
  /\ pipeline # {} /\ p \notin Known
  /\ pipeline' = pipeline \cup {p}
  /\ UNCHANGED <<buffered, done>>

Keep(p) ==
  /\ pipeline = {p}
  /\ pipeline' = {}
  /\ buffered' = buffered \cup {p}
  /\ UNCHANGED done

Resume(p) ==
  /\ pipeline = {} /\ p \in buffered
  /\ pipeline' = {p}
  /\ buffered' = buffered \ {p}
  /\ UNCHANGED done

Finish(p) ==
  /\ p \in pipeline
  /\ pipeline' = pipeline \ {p}
  /\ done' = done \cup {p}
  /\ UNCHANGED buffered

Expire(p) ==
  /\ p \in buffered
  /\ buffered' = buffered \ {p}
  /\ done' = done \cup {p}
  /\ UNCHANGED pipeline

Move(p) ==
  Enter(p) \/ Copy(p) \/ Keep(p) \/ Resume(p) \/ Finish(p) \/ Expire(p)

\* The packet that moves is known after the step.
Next == \E p \in pipeline' \cup buffered' \cup done' : Move(p)

Spec == Init /\ [][Next]_custody
==============================================================================
