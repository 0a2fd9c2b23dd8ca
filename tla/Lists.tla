-------------------------------- MODULE Lists --------------------------------
(***************************************************************************)
(* The linked lists and vectors of the code as sequences: where a loop over *)
(* one stops, and what is left of one when a loop removes elements.  Each   *)
(* operator takes the set of the elements that the loop looks for.          *)
(***************************************************************************)
EXTENDS Naturals, Sequences

\* The elements of l that are in S, in the order of l.
Only(l, S) ==
  LET kept[n \in 0 .. Len(l)] ==
        IF n = 0 THEN << >>
        ELSE IF l[n] \in S THEN Append(kept[n - 1], l[n])
        ELSE kept[n - 1]
  IN  kept[Len(l)]

\* The place of the first element of l that is in S, one behind the last if
\* there is none.
FirstPlace(l, S) ==
  CHOOSE i \in 1 .. Len(l) + 1 :
    /\ i <= Len(l) => l[i] \in S
    /\ \A j \in 1 .. i - 1 : l[j] \notin S

\* Element a comes before b.
Before(l, a, b) == \E i, j \in DOMAIN l : i < j /\ l[i] = a /\ l[j] = b

NoTwice(l) == \A i, j \in DOMAIN l : l[i] = l[j] => i = j
==============================================================================
