----------------------------- MODULE MCTableRefs -----------------------------
(* Small instances of TableRefs for TLC. *)
EXTENDS TableRefs, TLC

CONSTANTS r1, r2, e1, e2, e3, a1, a2, a3, g1, g2, m1, m2

TwoRules == {r1, r2}
OneTable == [r \in TwoRules |-> 1]
BothRules == {TwoRules}
ThreeEntries == {e1, e2, e3}
ThreeArrays == {a1, a2, a3}

\* Addresses are alike, and so are ids: no code compares or computes with them.
Addresses == Permutations(ThreeEntries) \cup Permutations(ThreeArrays)
GroupsAlike == Addresses \cup Permutations({g1, g2})

\* The messages of a controller that names only meters it has added: flows that
\* are added or modified have instructions that name no other.
NamesKnownMeters ==
  \A e \in DOMAIN entries' :
    \/ e \in DOMAIN entries /\ entries'[e].insts = entries[e].insts
    \/ entries'[e].insts.meter \in DOMAIN meter \cup {NoMeter}

SpecOfKnownMeters == Init /\ [][Next /\ NamesKnownMeters]_vars
==============================================================================
