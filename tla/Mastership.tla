----------------------------- MODULE Mastership -----------------------------
(***************************************************************************)
(* What the roles of a switch promise to controllers that compete for it:   *)
(* one master at most, who is replaced or leaves, and terms that only grow. *)
(***************************************************************************)
EXTENDS Naturals

CONSTANTS Controllers, Nobody

VARIABLES
  master,   \* the controller with full access, or Nobody
  term      \* the highest generation id the switch has accepted

mastership == <<master, term>>

Init == master = Nobody /\ term = 0

\* A master takes the place of another in a term at least as new.
TakeOver(c, t) ==
  /\ t >= term
  /\ master' = c /\ term' = t

\* The master becomes a slave or an equal.
Leave(t) ==
  /\ master # Nobody /\ t >= term
  /\ master' = Nobody /\ term' = t

\* A slave announces a newer term.
Announce(t) ==
  /\ t >= term
  /\ term' = t /\ UNCHANGED master

\* term' is the only candidate for t: the form TLC can evaluate.
Next ==
  /\ term' \in Nat
  /\ \/ \E c \in Controllers : TakeOver(c, term')
     \/ Leave(term')
     \/ Announce(term')

Spec == Init /\ [][Next]_mastership
==============================================================================
