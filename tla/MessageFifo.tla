---------------------------- MODULE MessageFifo ----------------------------
(***************************************************************************)
(* What the framing of the control channel promises: messages are handed   *)
(* over whole, once each and in the order they were given; as long as the  *)
(* connection lasts, all of them; when it ends, perhaps only the first.    *)
(***************************************************************************)
EXTENDS Naturals, Sequences

VARIABLES
  given,   \* messages given to one end, oldest first
  got,     \* messages handed over at the other end
  up       \* whether the connection lasts

messages == <<given, got, up>>

Init == given = << >> /\ got = << >> /\ up = TRUE

Give ==
  /\ \E m \in {given'[i] : i \in DOMAIN given'} : given' = Append(given, m)
  /\ UNCHANGED <<got, up>>

HandOver ==
  /\ Len(got) < Len(given)
  /\ got' = Append(got, given[Len(got) + 1])
  /\ UNCHANGED <<given, up>>

Break == up' = FALSE /\ UNCHANGED <<given, got>>

Next == Give \/ HandOver \/ Break

Spec == Init /\ [][Next]_messages

\* Nobody has to give a message, and nobody has to break the connection.
FairSpec == Spec /\ WF_messages(up /\ HandOver)
==============================================================================
