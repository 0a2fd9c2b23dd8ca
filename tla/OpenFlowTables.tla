---------------------------- MODULE OpenFlowTables ----------------------------
(***************************************************************************)
(* The contents of the flow and group tables as a controller sees them: the *)
(* rules with the groups they name, and the groups with the groups their    *)
(* buckets name.  No addresses, reference lists or counters.                *)
(***************************************************************************)
VARIABLES
  rules,   \* the pairs <<rule, groups it names>>
  links    \* group -> groups its buckets name

contents == <<rules, links>>

Init == rules = {} /\ links = [g \in {} |-> {}]

\* Rules are put in the table, or changed if they are there, all alike.
Put(rs, gs) ==
  /\ gs \subseteq DOMAIN links
  /\ rules' = {x \in rules : x[1] \notin rs} \cup {<<r, gs>> : r \in rs}
  /\ UNCHANGED links

\* Rules leave: deleted, timed out, or gone with a meter.
Drop ==
  /\ rules' \subseteq rules
  /\ UNCHANGED links

PutGroup(g, ls) ==
  /\ ls \subseteq DOMAIN links
  /\ links' = [h \in DOMAIN links \cup {g} |-> IF h = g THEN ls ELSE links[h]]
  /\ UNCHANGED rules

\* Groups leave that no other group names, and with them the rules that name one.
DropGroups(gs) ==
  /\ links' = [h \in DOMAIN links \ gs |-> links[h]]
  /\ \A h \in DOMAIN links' : links[h] \cap gs = {}
  /\ rules' = {x \in rules : x[2] \cap gs = {}}

\* No set of groups keeps a packet for ever.
LoopFree(ls) ==
  \A gs \in SUBSET DOMAIN ls : gs # {} => \E g \in gs : ls[g] \cap gs = {}

\* After the step, the rules that name exactly gs.
RulesNaming(gs) == {x[1] : x \in {y \in rules' : y[2] = gs}}

Next ==
  \/ \E x \in rules' : Put(RulesNaming(x[2]), x[2])
  \/ Drop
  \/ \E g \in DOMAIN links' : PutGroup(g, links'[g]) /\ LoopFree(links')
  \/ \E gs \in SUBSET DOMAIN links : DropGroups(gs)

Spec == Init /\ [][Next]_contents
===============================================================================
