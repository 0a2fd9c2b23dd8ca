----------------------------- MODULE FrameLines -----------------------------
(***************************************************************************)
(* What the links of a switch promise: on each line (a queue of a port)    *)
(* every frame that was taken arrives, once and in order.                  *)
(***************************************************************************)
EXTENDS Naturals, Sequences

CONSTANT Lines

VARIABLES
  taken,    \* per line: the frames taken, oldest first
  arrived   \* per line: the frames that arrived

lines == <<taken, arrived>>

Init ==
  /\ taken = [l \in Lines |-> << >>]
  /\ arrived = [l \in Lines |-> << >>]

Take(l) ==
  /\ \E f \in {taken'[l][i] : i \in DOMAIN taken'[l]} :
       taken' = [taken EXCEPT ![l] = Append(@, f)]
  /\ UNCHANGED arrived

Arrive(l) ==
  /\ Len(arrived[l]) < Len(taken[l])
  /\ arrived' = [arrived EXCEPT ![l] = Append(@, taken[l][Len(@) + 1])]
  /\ UNCHANGED taken

Next == \E l \in Lines : Take(l) \/ Arrive(l)

Spec == Init /\ [][Next]_lines

\* No line is forgotten.
FairSpec == Spec /\ \A l \in Lines : WF_lines(Arrive(l))
==============================================================================
