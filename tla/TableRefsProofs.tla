--------------------------- MODULE TableRefsProofs ---------------------------
(***************************************************************************)
(* Proofs about TableRefs, for any rules, groups, meters and capacities.    *)
(***************************************************************************)
EXTENDS TableRefs, FiniteSetTheorems, TLAPS

\* The references that an entry keeps are those of its instructions.
GrefsAreCurrent ==
  \A e \in DOMAIN entries : entries[e].grefs = entries[e].insts.groups

\* A meter that was told of an entry is one that the entry will tell of its end.
ListedAreKept ==
  \A e \in DOMAIN entries : entries[e].listed \subseteq entries[e].mrefs

IInv ==
  /\ TypeOK
  /\ GrefsAreCurrent
  /\ ListedAreKept
  /\ FlowsAndGroupsAgree
  /\ NoDanglingGroup
  /\ GroupsAreLoopFree
  /\ FlowsAndMetersAgree
  /\ RulesAreUnique
------------------------------------------------------------------------------
(* What the reference lists become *)

LEMMA UpdatedCount ==
  ASSUME NEW F, F \subseteq EntryIds, NEW c \in 0 .. CountMod - 1,
         NEW del, NEW add, add \subseteq EntryIds
  PROVE  (c + (Cardinality((F \ del) \cup add) - Cardinality(F))) % CountMod
            \in 0 .. CountMod - 1
<1>1. Cardinality((F \ del) \cup add) \in Nat /\ Cardinality(F) \in Nat
  BY TablesAssumption, FS_Subset, FS_CardinalityType
<1>2. c \in Int /\ CountMod \in Nat \ {0}
  BY TablesAssumption
<1> QED BY <1>1, <1>2

GroupTable(table) == DOMAIN table \subseteq GroupIds /\ table \in [DOMAIN table -> Group]

\* What the groups are after their references changed: the references one by one.
GroupRefsAre(after, table, gone, new, gs) ==
  /\ DOMAIN after = DOMAIN table /\ GroupTable(after)
  /\ \A g \in DOMAIN table :
       /\ after[g].links = table[g].links
       /\ \A e : e \in after[g].frefs <=>
                     \/ e \in table[g].frefs /\ ~(e \in gone /\ g \in entries[e].grefs)
                     \/ g \in gs /\ e \in new

LEMMA GroupRefsLists ==
  ASSUME NEW table, GroupTable(table), NEW gone, NEW new, new \subseteq EntryIds, NEW gs
  PROVE  GroupRefsAre(GroupRefs(table, gone, new, gs), table, gone, new, gs)
<1> DEFINE after == GroupRefs(table, gone, new, gs)
<1> USE DEF GroupTable
<1>1. ASSUME NEW g \in DOMAIN table
      PROVE  /\ after[g] \in Group
             /\ after[g].links = table[g].links
             /\ after[g].frefs = (table[g].frefs \ {e \in gone : g \in entries[e].grefs})
                                   \cup (IF g \in gs THEN new ELSE {})
  <2> DEFINE x == table[g]
             del == {e \in gone : g \in entries[e].grefs}
             add == IF g \in gs THEN new ELSE {}
  <2>1. x \in Group /\ add \subseteq EntryIds
    OBVIOUS
  <2>2. after[g] = [x EXCEPT !.frefs = (x.frefs \ del) \cup add,
                             !.count = (x.count + (Cardinality((x.frefs \ del) \cup add)
                                                    - Cardinality(x.frefs))) % CountMod]
    BY DEF GroupRefs, Updated
  <2>3. (x.count + (Cardinality((x.frefs \ del) \cup add) - Cardinality(x.frefs)))
            % CountMod \in 0 .. CountMod - 1
    <3>1. x.frefs \subseteq EntryIds /\ x.count \in 0 .. CountMod - 1
      BY <2>1 DEF Group
    <3> HIDE DEF x, del, add
    <3> QED BY <2>1, <3>1, UpdatedCount
  <2> HIDE DEF x, del, add
  <2> QED BY <2>1, <2>2, <2>3 DEF Group, x, del, add
<1>2. DOMAIN after = DOMAIN table /\ after = [g \in DOMAIN table |-> after[g]]
  BY DEF GroupRefs
<1> HIDE DEF after
<1>3. after \in [DOMAIN after -> Group]
  BY <1>1, <1>2
<1> QED BY <1>1, <1>2, <1>3 DEF after, GroupRefsAre

MeterTable(table) == DOMAIN table \subseteq MeterIds /\ table \in [DOMAIN table -> Meter]

\* What the meters are after their references changed: the references one by one.
MeterRefsAre(after, table, gone, new, ms) ==
  /\ DOMAIN after = DOMAIN table /\ MeterTable(after)
  /\ \A m \in DOMAIN table :
       /\ \A e : e \in after[m].frefs <=>
                     \/ e \in table[m].frefs /\ ~(e \in gone /\ m \in entries[e].mrefs)
                     \/ m \in ms /\ e \in new

LEMMA MeterRefsLists ==
  ASSUME NEW table, MeterTable(table), NEW gone, NEW new, new \subseteq EntryIds, NEW ms
  PROVE  MeterRefsAre(MeterRefs(table, gone, new, ms), table, gone, new, ms)
<1> DEFINE after == MeterRefs(table, gone, new, ms)
<1> USE DEF MeterTable
<1>1. ASSUME NEW m \in DOMAIN table
      PROVE  /\ after[m] \in Meter
             /\ after[m].frefs = (table[m].frefs \ {e \in gone : m \in entries[e].mrefs})
                                   \cup (IF m \in ms THEN new ELSE {})
  <2> DEFINE x == table[m]
             del == {e \in gone : m \in entries[e].mrefs}
             add == IF m \in ms THEN new ELSE {}
  <2>1. x \in Meter /\ add \subseteq EntryIds
    OBVIOUS
  <2>2. after[m] = [x EXCEPT !.frefs = (x.frefs \ del) \cup add,
                             !.count = (x.count + (Cardinality((x.frefs \ del) \cup add)
                                                    - Cardinality(x.frefs))) % CountMod]
    BY DEF MeterRefs, Updated
  <2>3. (x.count + (Cardinality((x.frefs \ del) \cup add) - Cardinality(x.frefs)))
            % CountMod \in 0 .. CountMod - 1
    <3>1. x.frefs \subseteq EntryIds /\ x.count \in 0 .. CountMod - 1
      BY <2>1 DEF Meter
    <3> HIDE DEF x, del, add
    <3> QED BY <2>1, <3>1, UpdatedCount
  <2> HIDE DEF x, del, add
  <2> QED BY <2>1, <2>2, <2>3 DEF Meter, x, del, add
<1>2. DOMAIN after = DOMAIN table /\ after = [m \in DOMAIN table |-> after[m]]
  BY DEF MeterRefs
<1> HIDE DEF after
<1>3. after \in [DOMAIN after -> Meter]
  BY <1>1, <1>2
<1> QED BY <1>1, <1>2, <1>3 DEF after, MeterRefsAre

LEMMA FreedIsTyped ==
  ASSUME NEW gone, Freed(gone) PROVE memory' \in {"fine", "dangling"}
BY DEF Freed

\* Entries keep what they are, with other groups' and meters' tables.
LEMMA Typed ==
  ASSUME IInv
  PROVE  /\ DOMAIN entries \subseteq EntryIds
         /\ \A e \in DOMAIN entries :
              /\ entries[e] \in Entry
              /\ entries[e].grefs = entries[e].insts.groups
              /\ entries[e].insts.groups \subseteq DOMAIN group
              /\ entries[e].listed \subseteq entries[e].mrefs
         /\ DOMAIN group \subseteq GroupIds /\ group \in [DOMAIN group -> Group]
         /\ DOMAIN meter \subseteq MeterIds /\ meter \in [DOMAIN meter -> Meter]
BY DEF IInv, TypeOK, GrefsAreCurrent, ListedAreKept, NoDanglingGroup
------------------------------------------------------------------------------
(* Removing flows *)

LEMMA RemoveKeepsInv ==
  ASSUME IInv, NEW gone \in SUBSET DOMAIN entries,
         NEW gr, DOMAIN gr \subseteq DOMAIN group, gr \in [DOMAIN gr -> Group],
         \A g \in DOMAIN gr : gr[g] = group[g] /\ group[g].links \subseteq DOMAIN gr,
         \A e \in DOMAIN entries \ gone : entries[e].insts.groups \subseteq DOMAIN gr,
         NEW mt, DOMAIN mt \subseteq DOMAIN meter, mt \in [DOMAIN mt -> Meter],
         \A m \in DOMAIN mt : mt[m] = meter[m],
         \A e \in DOMAIN entries \ gone : entries[e].listed \subseteq DOMAIN mt,
         Remove(gone, gr, mt)
  PROVE  IInv'
<1>1. /\ entries' = [e \in DOMAIN entries \ gone |-> entries[e]]
      /\ group' = GroupRefs(gr, gone, {}, {})
      /\ meter' = MeterRefs(mt, gone, {}, {})
  BY DEF Remove, Without
<1>2. /\ DOMAIN entries' = DOMAIN entries \ gone
      /\ \A e \in DOMAIN entries' : e \in DOMAIN entries /\ entries'[e] = entries[e]
  BY <1>1
<1>3. /\ DOMAIN group' = DOMAIN gr /\ group' \in [DOMAIN group' -> Group]
      /\ \A g \in DOMAIN gr :
           /\ group'[g].links = group[g].links
           /\ group'[g].frefs = group[g].frefs \ {e \in gone : g \in entries[e].grefs}
  <2> DEFINE none == {}
  <2>1. GroupTable(gr) /\ none \subseteq EntryIds
    BY Typed DEF GroupTable
  <2> HIDE DEF none
  <2>2. GroupRefsAre(GroupRefs(gr, gone, none, none), gr, gone, none, none)
    BY <2>1, GroupRefsLists
  <2> QED BY <1>1, <2>2 DEF none, GroupRefsAre, GroupTable
<1>4. /\ DOMAIN meter' = DOMAIN mt /\ meter' \in [DOMAIN meter' -> Meter]
      /\ \A m \in DOMAIN mt :
           meter'[m].frefs = meter[m].frefs \ {e \in gone : m \in entries[e].mrefs}
  <2> DEFINE none == {}
  <2>1. MeterTable(mt) /\ none \subseteq EntryIds
    BY Typed DEF MeterTable
  <2> HIDE DEF none
  <2>2. MeterRefsAre(MeterRefs(mt, gone, none, none), mt, gone, none, none)
    BY <2>1, MeterRefsLists
  <2> QED BY <1>1, <2>2 DEF none, MeterRefsAre, MeterTable
<1>5. TypeOK'
  <2>1. memory' \in {"fine", "dangling"}
    BY FreedIsTyped DEF Remove
  <2>2. entries' \in [DOMAIN entries' -> Entry] /\ DOMAIN entries' \subseteq EntryIds
    BY <1>1, <1>2, Typed
  <2> QED BY <1>3, <1>4, <2>1, <2>2, Typed DEF TypeOK
<1>6. GrefsAreCurrent' /\ ListedAreKept'
  BY <1>2 DEF IInv, GrefsAreCurrent, ListedAreKept
<1>7. FlowsAndGroupsAgree'
  <2> SUFFICES ASSUME NEW g \in DOMAIN group'
               PROVE  group'[g].frefs = {e \in DOMAIN entries' :
                                           g \in entries'[e].insts.groups}
    BY DEF FlowsAndGroupsAgree
  <2>1. g \in DOMAIN group
        /\ group[g].frefs = {e \in DOMAIN entries : g \in entries[e].insts.groups}
    BY <1>3 DEF IInv, FlowsAndGroupsAgree
  <2>2. group'[g].frefs = group[g].frefs \ {e \in gone : g \in entries[e].insts.groups}
    BY <1>3, Typed
  <2> QED BY <1>2, <2>1, <2>2
<1>8. NoDanglingGroup'
  BY <1>2, <1>3 DEF NoDanglingGroup
<1>9. GroupsAreLoopFree'
  <2> SUFFICES ASSUME NEW gs \in SUBSET DOMAIN group', gs # {}
               PROVE  \E g \in gs : group'[g].links \cap gs = {}
    BY DEF GroupsAreLoopFree
  <2>1. gs \in SUBSET DOMAIN group /\ gs # {}
    BY <1>3
  <2>2. PICK g \in gs : group[g].links \cap gs = {}
    BY <2>1 DEF IInv, GroupsAreLoopFree
  <2> QED BY <1>3, <2>2
<1>10. FlowsAndMetersAgree'
  <2>1. ASSUME NEW m \in DOMAIN meter', NEW e
        PROVE  e \in meter'[m].frefs <=> e \in DOMAIN entries' /\ m \in entries'[e].listed
    <3>1. m \in DOMAIN meter
          /\ (e \in meter'[m].frefs <=>
                e \in meter[m].frefs /\ ~(e \in gone /\ m \in entries[e].mrefs))
      BY <1>4
    <3>2. e \in meter[m].frefs <=> e \in DOMAIN entries /\ m \in entries[e].listed
      BY <3>1 DEF IInv, FlowsAndMetersAgree
    <3>3. e \in DOMAIN entries /\ m \in entries[e].listed => m \in entries[e].mrefs
      BY Typed
    <3> QED BY <1>2, <3>1, <3>2, <3>3
  <2>2. \A e \in DOMAIN entries' : entries'[e].listed \subseteq DOMAIN meter'
    BY <1>2, <1>4
  <2> QED BY <2>1, <2>2 DEF FlowsAndMetersAgree
<1>11. RulesAreUnique'
  BY <1>2 DEF IInv, RulesAreUnique
<1> QED BY <1>5, <1>6, <1>7, <1>8, <1>9, <1>10, <1>11 DEF IInv

\* No entry outlives a meter that was told of it.
LEMMA Outlived ==
  ASSUME IInv
  PROVE  \A e \in DOMAIN entries : entries[e].listed \subseteq DOMAIN meter
BY DEF IInv, FlowsAndMetersAgree

\* The tables stay as they are but for the references.
LEMMA RemoveFlows ==
  ASSUME IInv, NEW gone \in SUBSET DOMAIN entries, Remove(gone, group, meter)
  PROVE  IInv'
<1>1. \A g \in DOMAIN group : group[g].links \subseteq DOMAIN group
  BY DEF IInv, NoDanglingGroup
<1>2. \A e \in DOMAIN entries \ gone : entries[e].insts.groups \subseteq DOMAIN group
  BY DEF IInv, NoDanglingGroup
<1> QED BY <1>1, <1>2, Typed, Outlived, RemoveKeepsInv

LEMMA FlowDeleteStep == IInv /\ FlowDelete => IInv'
<1> SUFFICES ASSUME IInv, FlowDelete PROVE IInv'
  OBVIOUS
<1>1. PICK rs \in Selections \cup {{r} : r \in Rules}, og \in GroupIds \cup {AnyGroup} :
        Remove({e \in DOMAIN entries :
                  entries[e].rule \in rs /\ (og = AnyGroup \/ og \in entries[e].insts.groups)},
               group, meter)
  BY DEF FlowDelete
<1> QED BY <1>1, RemoveFlows

LEMMA FlowTimeoutStep == IInv /\ FlowTimeout => IInv'
BY RemoveFlows DEF FlowTimeout

\* The flows that a group lists are those that name it.
LEMMA ListedFlows ==
  ASSUME IInv, NEW gs \in SUBSET DOMAIN group
  PROVE  UNION {group[g].frefs : g \in gs} =
           {e \in DOMAIN entries : entries[e].insts.groups \cap gs # {}}
BY DEF IInv, FlowsAndGroupsAgree

LEMMA GroupDeleteStep == IInv /\ GroupDelete => IInv'
<1> SUFFICES ASSUME IInv, GroupDelete PROVE IInv'
  OBVIOUS
<1>1. PICK g \in DOMAIN group :
        /\ ~Chained(g)
        /\ Remove(group[g].frefs, Without(group, {g}), meter)
  BY DEF GroupDelete
<1> DEFINE gr == Without(group, {g})
<1>2. DOMAIN gr = DOMAIN group \ {g} /\ gr \in [DOMAIN gr -> Group]
      /\ \A h \in DOMAIN gr : gr[h] = group[h]
  BY Typed DEF Without
<1>3. group[g].frefs = {e \in DOMAIN entries : g \in entries[e].insts.groups}
  BY DEF IInv, FlowsAndGroupsAgree
<1>4. \A h \in DOMAIN gr : group[h].links \subseteq DOMAIN gr
  BY <1>1, <1>2 DEF Chained, IInv, NoDanglingGroup
<1>5. \A e \in DOMAIN entries \ group[g].frefs :
        entries[e].insts.groups \subseteq DOMAIN gr
  BY <1>2, <1>3, Typed
<1>6. group[g].frefs \in SUBSET DOMAIN entries
  BY <1>3
<1> HIDE DEF gr
<1> QED BY <1>1, <1>2, <1>4, <1>5, <1>6, Typed, Outlived, RemoveKeepsInv DEF gr

LEMMA GroupDeleteAllStep == IInv /\ GroupDeleteAll => IInv'
<1> SUFFICES ASSUME IInv, GroupDeleteAll PROVE IInv'
  OBVIOUS
<1> DEFINE gr == [g \in {} |-> << >>]
           gone == UNION {group[g].frefs : g \in DOMAIN group}
<1>1. Remove(gone, gr, meter)
  BY DEF GroupDeleteAll
<1>2. DOMAIN gr = {} /\ gr \in [DOMAIN gr -> Group]
  OBVIOUS
<1>3. gone = {e \in DOMAIN entries : entries[e].insts.groups \cap DOMAIN group # {}}
  BY ListedFlows
<1>4. \A e \in DOMAIN entries \ gone : entries[e].insts.groups \subseteq DOMAIN gr
  BY <1>2, <1>3, Typed
<1> HIDE DEF gr, gone
<1> QED BY <1>1, <1>2, <1>3, <1>4, Typed, Outlived, RemoveKeepsInv

LEMMA MeterDeleteStep == IInv /\ MeterDelete => IInv'
<1> SUFFICES ASSUME IInv, MeterDelete PROVE IInv'
  OBVIOUS
<1>1. PICK m \in DOMAIN meter : Remove(meter[m].frefs, group, Without(meter, {m}))
  BY DEF MeterDelete
<1> DEFINE mt == Without(meter, {m})
<1>2. DOMAIN mt \subseteq DOMAIN meter /\ mt \in [DOMAIN mt -> Meter]
      /\ \A n \in DOMAIN mt : mt[n] = meter[n]
  BY Typed DEF Without
<1>3. meter[m].frefs = {e \in DOMAIN entries : m \in entries[e].listed}
  BY DEF IInv, FlowsAndMetersAgree
<1>5. DOMAIN mt = DOMAIN meter \ {m}
  BY DEF Without
<1>6. \A e \in DOMAIN entries \ meter[m].frefs : entries[e].listed \subseteq DOMAIN mt
  BY <1>3, <1>5, Outlived
<1>4. /\ \A g \in DOMAIN group : group[g].links \subseteq DOMAIN group
      /\ \A e \in DOMAIN entries : entries[e].insts.groups \subseteq DOMAIN group
  BY DEF IInv, NoDanglingGroup
<1> HIDE DEF mt
<1> QED BY <1>1, <1>2, <1>3, <1>4, <1>6, Typed, RemoveKeepsInv DEF mt

LEMMA MeterDeleteAllStep == IInv /\ MeterDeleteAll => IInv'
<1> SUFFICES ASSUME IInv, MeterDeleteAll PROVE IInv'
  OBVIOUS
<1> DEFINE mt == [m \in {} |-> << >>]
           gone == UNION {meter[m].frefs : m \in DOMAIN meter}
<1>1. Remove(gone, group, mt)
  BY DEF MeterDeleteAll
<1>2. DOMAIN mt = {} /\ mt \in [DOMAIN mt -> Meter]
  OBVIOUS
<1>3. gone = {e \in DOMAIN entries : entries[e].listed \cap DOMAIN meter # {}}
  BY DEF IInv, FlowsAndMetersAgree
<1>5. \A e \in DOMAIN entries \ gone : entries[e].listed \subseteq DOMAIN mt
  BY <1>3, Outlived
<1>4. /\ \A g \in DOMAIN group : group[g].links \subseteq DOMAIN group
      /\ \A e \in DOMAIN entries : entries[e].insts.groups \subseteq DOMAIN group
  BY DEF IInv, NoDanglingGroup
<1> HIDE DEF mt, gone
<1> QED BY <1>1, <1>2, <1>3, <1>4, <1>5, Typed, RemoveKeepsInv
------------------------------------------------------------------------------
(* Adding and changing flows *)

LEMMA FlowAddStep == IInv /\ FlowAdd => IInv'
<1> SUFFICES ASSUME IInv, FlowAdd PROVE IInv'
  OBVIOUS
<1>1. PICK r \in Rules, insts \in Instructions, array \in NewArrays,
          e \in EntryIds \ DOMAIN entries :
        /\ Valid(GroupsOf(insts))
        /\ Create(e, r, insts, array, {f \in DOMAIN entries : entries[f].rule = r})
  BY DEF FlowAdd
<1> DEFINE old == {f \in DOMAIN entries : entries[f].rule = r}
           flow == [rule |-> r, insts |-> insts, array |-> array,
                    grefs |-> GroupsOf(insts), mrefs |-> MetersOf(insts),
                    listed |-> MetersOf(insts) \cap DOMAIN meter]
           new == {e}
<1>2. /\ entries' = [f \in (DOMAIN entries \ old) \cup {e} |->
                       IF f = e THEN flow ELSE entries[f]]
      /\ group' = GroupRefs(group, old, new, GroupsOf(insts))
      /\ meter' = MeterRefs(meter, old, new, MetersOf(insts))
      /\ Freed(old)
  BY <1>1 DEF Create
<1>3. /\ DOMAIN entries' = (DOMAIN entries \ old) \cup {e}
      /\ entries'[e] = flow
      /\ \A f \in DOMAIN entries \ old : entries'[f] = entries[f]
  BY <1>2
<1>4. /\ flow \in Entry
      /\ flow.rule = r /\ flow.insts = insts /\ flow.grefs = insts.groups
      /\ flow.mrefs = MetersOf(insts) /\ flow.listed = MetersOf(insts) \cap DOMAIN meter
      /\ insts.groups \subseteq DOMAIN group
  BY <1>1 DEF Entry, Instructions, GroupsOf, MetersOf, NewArrays, Valid
<1>5. GroupTable(group) /\ MeterTable(meter) /\ new \subseteq EntryIds
  BY Typed DEF GroupTable, MeterTable
<1>6. \A f : f \in new <=> f = e
  OBVIOUS
<1>7. \A f \in DOMAIN entries : f \in old <=> entries[f].rule = r
  OBVIOUS
<1> HIDE DEF flow, old, new
<1>8. GroupRefsAre(group', group, old, new, GroupsOf(insts))
  BY <1>2, <1>5, GroupRefsLists
<1>9. MeterRefsAre(meter', meter, old, new, MetersOf(insts))
  BY <1>2, <1>5, MeterRefsLists
<1>10. TypeOK'
  <2>1. memory' \in {"fine", "dangling"}
    BY <1>2, FreedIsTyped
  <2>2. entries' \in [DOMAIN entries' -> Entry] /\ DOMAIN entries' \subseteq EntryIds
    BY <1>2, <1>3, <1>4, Typed
  <2> QED BY <1>8, <1>9, <2>1, <2>2
          DEF TypeOK, GroupRefsAre, GroupTable, MeterRefsAre, MeterTable
<1>11. GrefsAreCurrent' /\ ListedAreKept'
  BY <1>3, <1>4 DEF IInv, GrefsAreCurrent, ListedAreKept
<1>12. FlowsAndGroupsAgree'
  <2> SUFFICES ASSUME NEW g \in DOMAIN group', NEW f
               PROVE  f \in group'[g].frefs <=>
                        f \in DOMAIN entries' /\ g \in entries'[f].insts.groups
    BY DEF FlowsAndGroupsAgree
  <2>1. f \in group'[g].frefs <=>
          \/ f \in group[g].frefs /\ ~(f \in old /\ g \in entries[f].grefs)
          \/ g \in insts.groups /\ f = e
    BY <1>6, <1>8 DEF GroupRefsAre, GroupsOf
  <2>2. f \in group[g].frefs <=> f \in DOMAIN entries /\ g \in entries[f].insts.groups
    BY <1>8 DEF GroupRefsAre, IInv, FlowsAndGroupsAgree
  <2> QED BY <1>1, <1>3, <1>4, <2>1, <2>2, Typed
<1>13. NoDanglingGroup'
  BY <1>3, <1>4, <1>8 DEF NoDanglingGroup, IInv, GroupRefsAre
<1>14. GroupsAreLoopFree'
  BY <1>8 DEF GroupsAreLoopFree, IInv, GroupRefsAre
<1>15. FlowsAndMetersAgree'
  <2>1. ASSUME NEW m \in DOMAIN meter', NEW f
        PROVE  f \in meter'[m].frefs <=> f \in DOMAIN entries' /\ m \in entries'[f].listed
    <3>1. m \in DOMAIN meter
          /\ (f \in meter'[m].frefs <=>
                \/ f \in meter[m].frefs /\ ~(f \in old /\ m \in entries[f].mrefs)
                \/ m \in MetersOf(insts) /\ f = e)
      BY <1>6, <1>9 DEF MeterRefsAre
    <3>2. f \in meter[m].frefs <=> f \in DOMAIN entries /\ m \in entries[f].listed
      BY <3>1 DEF IInv, FlowsAndMetersAgree
    <3>3. f \in DOMAIN entries /\ m \in entries[f].listed => m \in entries[f].mrefs
      BY Typed
    <3> QED BY <1>1, <1>3, <1>4, <3>1, <3>2, <3>3
  <2>2. \A f \in DOMAIN entries' : entries'[f].listed \subseteq DOMAIN meter'
    BY <1>3, <1>4, <1>9, Outlived DEF MeterRefsAre
  <2> QED BY <2>1, <2>2 DEF FlowsAndMetersAgree
<1>16. RulesAreUnique'
  BY <1>3, <1>4, <1>7 DEF IInv, RulesAreUnique
<1> QED BY <1>10, <1>11, <1>12, <1>13, <1>14, <1>15, <1>16 DEF IInv

LEMMA FlowModifyStep == IInv /\ FlowModify => IInv'
<1> SUFFICES ASSUME IInv, FlowModify PROVE IInv'
  OBVIOUS
<1>1. PICK rs \in Selections \cup {{r} : r \in Rules}, insts \in Instructions,
          array \in NewArrays :
        /\ Valid(GroupsOf(insts))
        /\ ReplaceInstructions({e \in DOMAIN entries : entries[e].rule \in rs},
                               insts, array)
  BY DEF FlowModify
<1> DEFINE sel == {e \in DOMAIN entries : entries[e].rule \in rs}
<1>2. /\ entries' = [e \in DOMAIN entries |->
                       IF e \in sel THEN [entries[e] EXCEPT !.insts = insts, !.array = array,
                                                           !.grefs = GroupsOf(insts)]
                       ELSE entries[e]]
      /\ group' = GroupRefs(group, sel, sel, GroupsOf(insts))
      /\ Freed(sel)
      /\ meter' = meter
  BY <1>1 DEF ReplaceInstructions
<1>3. insts \in Instructions /\ insts.groups \subseteq DOMAIN group /\ array \in ArrayIds
  BY <1>1 DEF Valid, GroupsOf, NewArrays
<1>4. GroupTable(group) /\ sel \subseteq EntryIds /\ sel \subseteq DOMAIN entries
  BY Typed DEF GroupTable
<1> HIDE DEF sel
<1>5. GroupRefsAre(group', group, sel, sel, GroupsOf(insts))
  BY <1>2, <1>4, GroupRefsLists
<1>6. /\ DOMAIN entries' = DOMAIN entries
      /\ \A e \in sel :
           /\ entries'[e] = [entries[e] EXCEPT !.insts = insts, !.array = array,
                                               !.grefs = GroupsOf(insts)]
      /\ \A e \in DOMAIN entries \ sel : entries'[e] = entries[e]
  BY <1>2, <1>4
<1>7. \A e \in sel :
        /\ entries'[e] \in Entry
        /\ entries'[e].rule = entries[e].rule /\ entries'[e].mrefs = entries[e].mrefs
        /\ entries'[e].listed = entries[e].listed
        /\ entries'[e].insts = insts /\ entries'[e].grefs = insts.groups
  <2> SUFFICES ASSUME NEW e \in sel
               PROVE  /\ entries'[e] \in Entry
                      /\ entries'[e].rule = entries[e].rule
                      /\ entries'[e].mrefs = entries[e].mrefs
                      /\ entries'[e].listed = entries[e].listed
                      /\ entries'[e].insts = insts /\ entries'[e].grefs = insts.groups
    OBVIOUS
  <2>1. entries[e] \in Entry
    BY <1>4, Typed
  <2>2. entries'[e] = [entries[e] EXCEPT !.insts = insts, !.array = array,
                                         !.grefs = insts.groups]
    BY <1>6 DEF GroupsOf
  <2>3. insts.groups \in SUBSET GroupIds
    BY <1>3 DEF Instructions
  <2> QED BY <1>3, <2>1, <2>2, <2>3 DEF Entry
<1>8. \A e \in DOMAIN entries :
        /\ entries'[e].rule = entries[e].rule /\ entries'[e].mrefs = entries[e].mrefs
        /\ entries'[e].listed = entries[e].listed
  BY <1>6, <1>7
<1>9. TypeOK'
  <2>1. memory' \in {"fine", "dangling"}
    BY <1>2, FreedIsTyped
  <2>2. entries' \in [DOMAIN entries' -> Entry] /\ DOMAIN entries' \subseteq EntryIds
    BY <1>2, <1>6, <1>7, Typed
  <2> QED BY <1>2, <1>5, <2>1, <2>2, Typed DEF TypeOK, GroupRefsAre, GroupTable
<1>10. GrefsAreCurrent' /\ ListedAreKept'
  BY <1>6, <1>7, <1>8 DEF IInv, GrefsAreCurrent, ListedAreKept
<1>11. FlowsAndGroupsAgree'
  <2> SUFFICES ASSUME NEW g \in DOMAIN group', NEW f
               PROVE  f \in group'[g].frefs <=>
                        f \in DOMAIN entries' /\ g \in entries'[f].insts.groups
    BY DEF FlowsAndGroupsAgree
  <2>1. f \in group'[g].frefs <=>
          \/ f \in group[g].frefs /\ ~(f \in sel /\ g \in entries[f].grefs)
          \/ g \in insts.groups /\ f \in sel
    BY <1>5 DEF GroupRefsAre, GroupsOf
  <2>2. f \in group[g].frefs <=> f \in DOMAIN entries /\ g \in entries[f].insts.groups
    BY <1>5 DEF GroupRefsAre, IInv, FlowsAndGroupsAgree
  <2> QED BY <1>4, <1>6, <1>7, <2>1, <2>2, Typed
<1>12. NoDanglingGroup'
  BY <1>3, <1>5, <1>6, <1>7 DEF NoDanglingGroup, IInv, GroupRefsAre
<1>13. GroupsAreLoopFree'
  BY <1>5 DEF GroupsAreLoopFree, IInv, GroupRefsAre
<1>14. FlowsAndMetersAgree'
  BY <1>2, <1>6, <1>8 DEF IInv, FlowsAndMetersAgree
<1>15. RulesAreUnique'
  BY <1>6, <1>8 DEF IInv, RulesAreUnique
<1> QED BY <1>9, <1>10, <1>11, <1>12, <1>13, <1>14, <1>15 DEF IInv
------------------------------------------------------------------------------
(* Adding and changing groups and meters *)

\* What a step that puts a group in the table, or changes its links, must keep
\* to: the rest follows.
LEMMA GroupChangeKeepsInv ==
  ASSUME IInv, UNCHANGED <<entries, meter, memory>>,
         GroupTable(group'), DOMAIN group \subseteq DOMAIN group',
         \A g \in DOMAIN group : group'[g].frefs = group[g].frefs,
         \A g \in DOMAIN group' \ DOMAIN group : group'[g].frefs = {},
         \A g \in DOMAIN group' : group'[g].links \subseteq DOMAIN group,
         GroupsAreLoopFree'
  PROVE  IInv'
<1>1. TypeOK'
  BY DEF IInv, TypeOK, GroupTable
<1>2. GrefsAreCurrent' /\ ListedAreKept' /\ FlowsAndMetersAgree' /\ RulesAreUnique'
  BY DEF IInv, GrefsAreCurrent, ListedAreKept, FlowsAndMetersAgree, RulesAreUnique
<1>3. FlowsAndGroupsAgree'
  <2> SUFFICES ASSUME NEW g \in DOMAIN group', NEW f
               PROVE  f \in group'[g].frefs <=>
                        f \in DOMAIN entries /\ g \in entries[f].insts.groups
    BY DEF FlowsAndGroupsAgree
  <2>1. CASE g \in DOMAIN group
    BY <2>1 DEF IInv, FlowsAndGroupsAgree
  <2>2. CASE g \notin DOMAIN group
    BY <2>2, Typed
  <2> QED BY <2>1, <2>2
<1>4. NoDanglingGroup'
  BY DEF IInv, NoDanglingGroup
<1> QED BY <1>1, <1>2, <1>3, <1>4 DEF IInv

LEMMA GroupAddStep == IInv /\ GroupAdd => IInv'
<1> SUFFICES ASSUME IInv, GroupAdd PROVE IInv'
  OBVIOUS
<1>1. PICK g \in GroupIds \ DOMAIN group, links \in SUBSET GroupIds :
        /\ links \subseteq DOMAIN group
        /\ group' = [h \in DOMAIN group \cup {g} |->
                       IF h = g THEN [links |-> links, frefs |-> {}, count |-> 0]
                       ELSE group[h]]
        /\ UNCHANGED <<entries, meter, memory>>
  BY DEF GroupAdd, Valid
<1>2. [links |-> links, frefs |-> {}, count |-> 0] \in Group
  BY TablesAssumption DEF Group
<1>3. /\ DOMAIN group' = DOMAIN group \cup {g}
      /\ group'[g].links = links /\ group'[g].frefs = {}
      /\ \A h \in DOMAIN group : group'[h] = group[h]
  BY <1>1
<1>4. GroupTable(group')
  BY <1>1, <1>2, <1>3, Typed DEF GroupTable
<1>5. \A h \in DOMAIN group' : group'[h].links \subseteq DOMAIN group
  BY <1>1, <1>3 DEF IInv, NoDanglingGroup
<1>6. GroupsAreLoopFree'
  <2> SUFFICES ASSUME NEW gs \in SUBSET DOMAIN group', gs # {}
               PROVE  \E h \in gs : group'[h].links \cap gs = {}
    BY DEF GroupsAreLoopFree
  <2>1. CASE gs \subseteq {g}
    <3>3. g \in gs /\ gs = {g}
      BY <2>1
    <3>2. group'[g].links \cap {g} = {}
      BY <1>1, <1>3
    <3> QED BY <3>2, <3>3
  <2>2. CASE ~(gs \subseteq {g})
    <3>1. gs \ {g} \in SUBSET DOMAIN group /\ gs \ {g} # {}
      BY <1>3, <2>2
    <3>2. PICK h \in gs \ {g} : group[h].links \cap (gs \ {g}) = {}
      BY <3>1 DEF IInv, GroupsAreLoopFree
    <3>3. g \notin group[h].links
      BY <1>1, <3>1, <3>2 DEF IInv, NoDanglingGroup
    <3> QED BY <1>3, <3>1, <3>2, <3>3
  <2> QED BY <2>1, <2>2
<1> QED BY <1>1, <1>3, <1>4, <1>5, <1>6, GroupChangeKeepsInv

LEMMA GroupModifyStep == IInv /\ GroupModify => IInv'
<1> SUFFICES ASSUME IInv, GroupModify PROVE IInv'
  OBVIOUS
<1>1. PICK g \in DOMAIN group, links \in SUBSET GroupIds :
        /\ links \subseteq DOMAIN group
        /\ IsLoopFree(g, links)
        /\ group' = [group EXCEPT ![g] = [links |-> links, frefs |-> @.frefs, count |-> 0]]
        /\ UNCHANGED <<entries, meter, memory>>
  BY DEF GroupModify, Valid
<1>2. [links |-> links, frefs |-> group[g].frefs, count |-> 0] \in Group
  BY Typed, TablesAssumption DEF Group
<1>3. /\ DOMAIN group' = DOMAIN group
      /\ group'[g].links = links /\ group'[g].frefs = group[g].frefs
      /\ \A h \in DOMAIN group \ {g} : group'[h] = group[h]
  BY <1>1, Typed
<1>4. GroupTable(group')
  BY <1>1, <1>2, <1>3, Typed DEF GroupTable
<1>5. \A h \in DOMAIN group' : group'[h].links \subseteq DOMAIN group
  BY <1>1, <1>3 DEF IInv, NoDanglingGroup
<1>6. GroupsAreLoopFree'
  <2> SUFFICES ASSUME NEW gs \in SUBSET DOMAIN group', gs # {}
               PROVE  \E h \in gs : group'[h].links \cap gs = {}
    BY DEF GroupsAreLoopFree
  <2>1. PICK visited \in SUBSET GroupIds :
          /\ links \subseteq visited /\ g \notin visited
          /\ \A h \in visited \cap DOMAIN group : group[h].links \subseteq visited
    BY <1>1 DEF IsLoopFree
  \* A loop through visited groups only was there before: they lead nowhere else.
  <2>2. CASE gs \cap visited # {}
    <3>1. PICK h \in gs \cap visited : group[h].links \cap (gs \cap visited) = {}
      BY <1>3, <2>2 DEF IInv, GroupsAreLoopFree
    <3> QED BY <1>3, <2>1, <3>1
  \* g leads to visited groups only.
  <2>3. CASE gs \cap visited = {} /\ g \in gs
    BY <1>3, <2>1, <2>3
  <2>4. CASE gs \cap visited = {} /\ g \notin gs
    BY <1>3, <2>4 DEF IInv, GroupsAreLoopFree
  <2> QED BY <2>2, <2>3, <2>4
<1> QED BY <1>1, <1>3, <1>4, <1>5, <1>6, GroupChangeKeepsInv

LEMMA MeterChangeKeepsInv ==
  ASSUME IInv, UNCHANGED <<entries, group, memory>>, MeterTable(meter'),
         DOMAIN meter \subseteq DOMAIN meter',
         \A m \in DOMAIN meter : meter'[m].frefs = meter[m].frefs,
         \A m \in DOMAIN meter' \ DOMAIN meter : meter'[m].frefs = {}
  PROVE  IInv'
<1>1. TypeOK'
  BY DEF IInv, TypeOK, MeterTable
<1>2. FlowsAndMetersAgree'
  <2>1. ASSUME NEW m \in DOMAIN meter', NEW e
        PROVE  e \in meter'[m].frefs <=> e \in DOMAIN entries /\ m \in entries[e].listed
    <3>1. CASE m \in DOMAIN meter
      BY <3>1 DEF IInv, FlowsAndMetersAgree
    <3>2. CASE m \notin DOMAIN meter
      BY <3>2, Outlived
    <3> QED BY <3>1, <3>2
  <2> QED BY <2>1, Outlived DEF FlowsAndMetersAgree
<1>3. GrefsAreCurrent' /\ ListedAreKept' /\ FlowsAndGroupsAgree' /\ NoDanglingGroup'
      /\ GroupsAreLoopFree' /\ RulesAreUnique'
  BY DEF IInv, GrefsAreCurrent, ListedAreKept, FlowsAndGroupsAgree, NoDanglingGroup,
         GroupsAreLoopFree, RulesAreUnique
<1> QED BY <1>1, <1>2, <1>3 DEF IInv

LEMMA MeterAddStep == IInv /\ MeterAdd => IInv'
<1> SUFFICES ASSUME IInv, MeterAdd PROVE IInv'
  OBVIOUS
<1>1. PICK m \in MeterIds \ DOMAIN meter :
        /\ meter' = [n \in DOMAIN meter \cup {m} |->
                       IF n = m THEN [frefs |-> {}, count |-> 0] ELSE meter[n]]
        /\ UNCHANGED <<entries, group, memory>>
  BY DEF MeterAdd
<1>2. [frefs |-> {}, count |-> 0] \in Meter
  BY TablesAssumption DEF Meter
<1>3. MeterTable(meter')
  BY <1>1, <1>2, Typed DEF MeterTable
<1>4. meter'[m].frefs = {} /\ DOMAIN meter' = DOMAIN meter \cup {m}
      /\ \A n \in DOMAIN meter : meter'[n] = meter[n]
  BY <1>1
<1> QED BY <1>1, <1>3, <1>4, MeterChangeKeepsInv

LEMMA MeterModifyStep == IInv /\ MeterModify => IInv'
<1> SUFFICES ASSUME IInv, MeterModify PROVE IInv'
  OBVIOUS
<1>1. PICK m \in DOMAIN meter :
        /\ meter' = [meter EXCEPT ![m] = [frefs |-> @.frefs, count |-> @.count]]
        /\ UNCHANGED <<entries, group, memory>>
  BY DEF MeterModify
<1>2. [frefs |-> meter[m].frefs, count |-> meter[m].count] \in Meter
  BY Typed DEF Meter
<1>3. MeterTable(meter')
  BY <1>1, <1>2, Typed DEF MeterTable
<1>4. DOMAIN meter' = DOMAIN meter
      /\ \A n \in DOMAIN meter : meter'[n].frefs = meter[n].frefs
  BY <1>1, Typed
<1> QED BY <1>1, <1>3, <1>4, MeterChangeKeepsInv
------------------------------------------------------------------------------
(* The invariant *)

LEMMA InitInv == Init => IInv
<1> SUFFICES ASSUME Init PROVE IInv
  OBVIOUS
<1>1. DOMAIN entries = {} /\ DOMAIN group = {} /\ DOMAIN meter = {}
  BY DEF Init
<1>2. TypeOK
  BY DEF Init, TypeOK
<1>3. GrefsAreCurrent /\ ListedAreKept /\ FlowsAndGroupsAgree /\ NoDanglingGroup
      /\ FlowsAndMetersAgree /\ RulesAreUnique
  BY <1>1 DEF GrefsAreCurrent, ListedAreKept, FlowsAndGroupsAgree, NoDanglingGroup,
              FlowsAndMetersAgree, RulesAreUnique
<1>4. GroupsAreLoopFree
  <2> SUFFICES ASSUME NEW gs \in SUBSET DOMAIN group, gs # {} PROVE FALSE
    BY DEF GroupsAreLoopFree
  <2> QED BY <1>1
<1> QED BY <1>2, <1>3, <1>4 DEF IInv

LEMMA NextInv == IInv /\ [Next]_vars => IInv'
<1> SUFFICES ASSUME IInv, [Next]_vars PROVE IInv'
  OBVIOUS
<1>1. CASE UNCHANGED vars
  BY <1>1 DEF vars, IInv, TypeOK, GrefsAreCurrent, ListedAreKept, FlowsAndGroupsAgree,
              NoDanglingGroup, GroupsAreLoopFree, FlowsAndMetersAgree, RulesAreUnique
<1>2. CASE Next
  BY <1>2, FlowAddStep, FlowModifyStep, FlowDeleteStep, FlowTimeoutStep, GroupAddStep,
     GroupModifyStep, GroupDeleteStep, GroupDeleteAllStep, MeterAddStep, MeterModifyStep,
     MeterDeleteStep, MeterDeleteAllStep DEF Next
<1> QED BY <1>1, <1>2

LEMMA Inductive == Spec => []IInv
BY InitInv, NextInv, PTL DEF Spec
------------------------------------------------------------------------------
(* Theorems *)

\* Every state is of its type, whatever the messages and timeouts.
THEOREM TypeCorrect == Spec => []TypeOK
BY Inductive, PTL DEF IInv

\* Groups always list the flows that name them, meters the flows that named them
\* when they were added and no flow outlives a meter that was told of it; no flow
\* and no group names a missing group, and a match and priority is at most once in
\* a table.
THEOREM ReferencesAlwaysAgree == Spec => []ReferencesAgree
<1>1. IInv => ReferencesAgree
  BY DEF IInv, ReferencesAgree
<1> QED BY <1>1, Inductive, PTL

\* The check of group_table_modify alone keeps the groups free of loops.
THEOREM NeverALoop == Spec => []GroupsAreLoopFree
BY Inductive, PTL DEF IInv

LEMMA DomainsKept ==
  ASSUME IInv, [Next]_vars
  PROVE  \/ GroupDelete \/ GroupDeleteAll \/ DOMAIN group \subseteq DOMAIN group'
<1> SUFFICES ASSUME ~GroupDelete, ~GroupDeleteAll
             PROVE  DOMAIN group \subseteq DOMAIN group'
  OBVIOUS
<1>1. ASSUME NEW gone, Remove(gone, group, meter) PROVE DOMAIN group' = DOMAIN group
  BY <1>1 DEF Remove, GroupRefs
<1>2. ASSUME NEW gone, NEW mt, Remove(gone, group, mt) PROVE DOMAIN group' = DOMAIN group
  BY <1>2 DEF Remove, GroupRefs
<1>3. CASE FlowAdd
  BY <1>3 DEF FlowAdd, Create, GroupRefs
<1>4. CASE FlowModify
  BY <1>4 DEF FlowModify, ReplaceInstructions, GroupRefs
<1>5. CASE FlowDelete \/ FlowTimeout
  BY <1>1, <1>5 DEF FlowDelete, FlowTimeout
<1>6. CASE GroupAdd \/ GroupModify
  BY <1>6, Typed DEF GroupAdd, GroupModify
<1>7. CASE MeterAdd \/ MeterModify \/ UNCHANGED vars
  BY <1>7 DEF MeterAdd, MeterModify, vars
<1>8. CASE MeterDelete \/ MeterDeleteAll
  BY <1>2, <1>8 DEF MeterDelete, MeterDeleteAll
<1> QED BY <1>3, <1>4, <1>5, <1>6, <1>7, <1>8 DEF Next

\* What deleting one group, or all of them, does to the two tables.
LEMMA GroupsTakeTheirFlows ==
  ASSUME IInv, GroupDelete \/ GroupDeleteAll
  PROVE  \E gs \in SUBSET DOMAIN group :
           /\ DOMAIN group' = DOMAIN group \ gs
           /\ \A g \in DOMAIN group' :
                group'[g].links = group[g].links /\ group[g].links \cap gs = {}
           /\ entries' = [e \in {f \in DOMAIN entries : entries[f].insts.groups \cap gs = {}}
                            |-> entries[e]]
<1>1. ASSUME NEW gs \in SUBSET DOMAIN group, NEW gr, NEW gone,
             DOMAIN gr = DOMAIN group \ gs, GroupTable(gr),
             \A g \in DOMAIN gr : gr[g] = group[g],
             gone = {e \in DOMAIN entries : entries[e].insts.groups \cap gs # {}},
             Remove(gone, gr, meter)
      PROVE  /\ DOMAIN group' = DOMAIN group \ gs
             /\ \A g \in DOMAIN group' : group'[g].links = group[g].links
             /\ entries' = [e \in {f \in DOMAIN entries :
                                     entries[f].insts.groups \cap gs = {}} |-> entries[e]]
  <2> DEFINE none == {}
  <2>1. GroupTable(gr) /\ none \subseteq EntryIds
    BY <1>1, Typed DEF GroupTable
  <2> HIDE DEF none
  <2>2. GroupRefsAre(GroupRefs(gr, gone, none, none), gr, gone, none, none)
    BY <2>1, GroupRefsLists
  <2>3. group' = GroupRefs(gr, gone, none, none)
    BY <1>1 DEF Remove, none
  <2>4. entries' = [e \in DOMAIN entries \ gone |-> entries[e]]
    BY <1>1 DEF Remove, Without
  <2>5. DOMAIN entries \ gone =
          {f \in DOMAIN entries : entries[f].insts.groups \cap gs = {}}
    BY <1>1
  <2> QED BY <1>1, <2>2, <2>3, <2>4, <2>5 DEF GroupRefsAre
<1>2. CASE GroupDelete
  <2>1. PICK g \in DOMAIN group :
          /\ ~Chained(g)
          /\ Remove(group[g].frefs, Without(group, {g}), meter)
    BY <1>2 DEF GroupDelete
  <2>2. group[g].frefs =
          {e \in DOMAIN entries : entries[e].insts.groups \cap {g} # {}}
    BY DEF IInv, FlowsAndGroupsAgree
  <2>3. /\ DOMAIN Without(group, {g}) = DOMAIN group \ {g}
        /\ \A h \in DOMAIN Without(group, {g}) : Without(group, {g})[h] = group[h]
        /\ GroupTable(Without(group, {g}))
    BY Typed DEF Without, GroupTable
  <2>4. \A h \in DOMAIN group : group[h].links \cap {g} = {}
    BY <2>1 DEF Chained
  <2> DEFINE gs == {g}
             gr == Without(group, {g})
             gone == group[g].frefs
  <2>5. gs \in SUBSET DOMAIN group
    OBVIOUS
  <2>6. /\ DOMAIN gr = DOMAIN group \ gs /\ GroupTable(gr)
        /\ \A h \in DOMAIN gr : gr[h] = group[h]
    BY <2>3
  <2>7. gone = {e \in DOMAIN entries : entries[e].insts.groups \cap gs # {}}
    BY <2>2
  <2>8. Remove(gone, gr, meter)
    BY <2>1
  <2>9. \A h \in DOMAIN group : group[h].links \cap gs = {}
    BY <2>4
  <2> HIDE DEF gs, gr, gone
  <2>10. /\ DOMAIN group' = DOMAIN group \ gs
         /\ \A h \in DOMAIN group' : group'[h].links = group[h].links
         /\ entries' = [e \in {f \in DOMAIN entries :
                                 entries[f].insts.groups \cap gs = {}} |-> entries[e]]
    BY <1>1, <2>5, <2>6, <2>7, <2>8
  <2>11. \A h \in DOMAIN group' :
           group'[h].links = group[h].links /\ group[h].links \cap gs = {}
    BY <2>9, <2>10
  <2> QED BY <2>5, <2>10, <2>11
<1>3. CASE GroupDeleteAll
  <2> DEFINE gr == [g \in {} |-> << >>]
             gone == UNION {group[g].frefs : g \in DOMAIN group}
             gs == DOMAIN group
  <2>1. Remove(gone, gr, meter)
    BY <1>3 DEF GroupDeleteAll
  <2>2. gone = {e \in DOMAIN entries : entries[e].insts.groups \cap gs # {}}
    BY ListedFlows
  <2>3. DOMAIN gr = DOMAIN group \ gs /\ gs \in SUBSET DOMAIN group
        /\ GroupTable(gr)
        /\ \A h \in DOMAIN gr : gr[h] = group[h]
    BY DEF GroupTable
  <2> HIDE DEF gr, gone, gs
  <2>4. /\ DOMAIN group' = DOMAIN group \ gs
        /\ entries' = [e \in {f \in DOMAIN entries :
                                entries[f].insts.groups \cap gs = {}} |-> entries[e]]
    BY <1>1, <2>1, <2>2, <2>3
  <2>5. DOMAIN group' = {}
    BY <2>4 DEF gs
  <2> QED BY <2>3, <2>4, <2>5
<1> QED BY <1>2, <1>3

\* Deleting groups removes the flows that name one of them, and no other.
THEOREM GroupsGoWithTheirFlows == Spec => DeletedGroupsTakeTheirFlows
<1> DEFINE deleted == DOMAIN group \ DOMAIN group'
           Takes == deleted # {} =>
                      DOMAIN entries' = {e \in DOMAIN entries :
                                           entries[e].insts.groups \cap deleted = {}}
<1>1. IInv /\ [Next]_vars => [Takes]_vars
  <2> SUFFICES ASSUME IInv, [Next]_vars, deleted # {} PROVE Takes
    OBVIOUS
  <2>1. GroupDelete \/ GroupDeleteAll
    BY DomainsKept
  <2>2. PICK gs \in SUBSET DOMAIN group :
          /\ DOMAIN group' = DOMAIN group \ gs
          /\ entries' = [e \in {f \in DOMAIN entries :
                                  entries[f].insts.groups \cap gs = {}} |-> entries[e]]
    BY <2>1, GroupsTakeTheirFlows
  <2>3. deleted = gs
    BY <2>2
  <2> QED BY <2>2, <2>3
<1> QED BY <1>1, Inductive, PTL DEF Spec, DeletedGroupsTakeTheirFlows
------------------------------------------------------------------------------
(* TableRefs implements OpenFlowTables *)

\* The abstract variables.
RuleSet == {<<entries[e].rule, entries[e].grefs>> : e \in DOMAIN entries}
Links == [g \in DOMAIN group |-> group[g].links]

LEMMA LinksKept ==
  ASSUME DOMAIN group' = DOMAIN group,
         \A g \in DOMAIN group : group'[g].links = group[g].links
  PROVE  Links' = Links
BY DEF Links

LEMMA RemoveKeepsLinks ==
  ASSUME IInv, NEW gone, NEW mt, Remove(gone, group, mt)
  PROVE  Links' = Links
<1> DEFINE none == {}
<1>1. GroupTable(group) /\ none \subseteq EntryIds
  BY Typed DEF GroupTable
<1> HIDE DEF none
<1>2. GroupRefsAre(GroupRefs(group, gone, none, none), group, gone, none, none)
  BY <1>1, GroupRefsLists
<1>3. group' = GroupRefs(group, gone, none, none)
  BY DEF Remove, none
<1> QED BY <1>2, <1>3, LinksKept DEF GroupRefsAre

LEMMA RemoveDrops ==
  ASSUME IInv, NEW gone, NEW mt, Remove(gone, group, mt)
  PROVE  Contents!Next
<1>1. \A e \in DOMAIN entries' : e \in DOMAIN entries /\ entries'[e] = entries[e]
  BY DEF Remove, Without
<1>2. RuleSet' \subseteq RuleSet
  BY <1>1 DEF RuleSet
<1>3. Contents!Drop
  BY <1>2, RemoveKeepsLinks DEF Contents!Drop, RuleSet, Links
<1> QED BY <1>3 DEF Contents!Next

\* Entries put are the entries of put, all with the groups gs; the others stay,
\* or one of put has taken their place.
LEMMA PutRules ==
  ASSUME RulesAreUnique', NEW gs \in SUBSET DOMAIN group, Links' = Links,
         NEW put \in SUBSET DOMAIN entries', put # {},
         \A e \in put : entries'[e].grefs = gs,
         \A e \in DOMAIN entries' \ put :
           /\ e \in DOMAIN entries
           /\ entries'[e].rule = entries[e].rule /\ entries'[e].grefs = entries[e].grefs,
         \A e \in DOMAIN entries :
           \/ e \in DOMAIN entries' \ put
           \/ \E f \in put : entries'[f].rule = entries[e].rule
  PROVE  Contents!Next
<1> DEFINE naming == {x[1] : x \in {y \in RuleSet' : y[2] = gs}}
<1>2. \A y : y \in RuleSet' <=>
               \E e \in DOMAIN entries' : y = <<entries'[e].rule, entries'[e].grefs>>
  BY DEF RuleSet
<1>1. \A r : r \in naming <=>
               \E e \in DOMAIN entries' : entries'[e].grefs = gs /\ entries'[e].rule = r
  <2>1. \A r : r \in naming <=> \E x \in RuleSet' : x[2] = gs /\ x[1] = r
    OBVIOUS
  <2> HIDE DEF naming
  <2>2. ASSUME NEW r \in naming
        PROVE  \E e \in DOMAIN entries' : entries'[e].grefs = gs /\ entries'[e].rule = r
    <3>1. PICK x \in RuleSet' : x[2] = gs /\ x[1] = r
      BY <2>1
    <3>2. PICK e \in DOMAIN entries' : x = <<entries'[e].rule, entries'[e].grefs>>
      BY <1>2
    <3> QED BY <3>1, <3>2
  <2>3. ASSUME NEW e \in DOMAIN entries', entries'[e].grefs = gs
        PROVE  entries'[e].rule \in naming
    <3>1. <<entries'[e].rule, gs>> \in RuleSet'
      BY <1>2, <2>3
    <3> QED BY <2>1, <3>1
  <2> QED BY <2>2, <2>3
<1>3. \A y : y \in RuleSet <=>
               \E e \in DOMAIN entries : y = <<entries[e].rule, entries[e].grefs>>
  BY DEF RuleSet
<1>4. naming = Contents!RulesNaming(gs)
  BY DEF Contents!RulesNaming, RuleSet
<1> HIDE DEF naming
<1>5. ASSUME NEW y \in RuleSet'
      PROVE  \/ y \in RuleSet /\ y[1] \notin naming
             \/ \E r \in naming : y = <<r, gs>>
  <2>1. PICK e \in DOMAIN entries' : y = <<entries'[e].rule, entries'[e].grefs>>
    BY <1>2, <1>5
  <2>2. CASE entries'[e].grefs = gs
    BY <1>1, <2>1, <2>2
  <2>3. CASE entries'[e].grefs # gs
    <3>1. e \in DOMAIN entries /\ y = <<entries[e].rule, entries[e].grefs>>
      BY <2>1, <2>3
    <3>2. y[1] \notin naming
      BY <1>1, <2>1, <2>3 DEF RulesAreUnique
    <3> QED BY <1>3, <3>1, <3>2
  <2> QED BY <2>2, <2>3
<1>6. ASSUME NEW y \in RuleSet, y[1] \notin naming PROVE y \in RuleSet'
  <2>1. PICK e \in DOMAIN entries : y = <<entries[e].rule, entries[e].grefs>>
    BY <1>3, <1>6
  <2>2. \A f \in put : entries'[f].rule # entries[e].rule
    BY <1>1, <1>6, <2>1
  <2> QED BY <1>2, <2>1, <2>2
<1>7. ASSUME NEW r \in naming PROVE <<r, gs>> \in RuleSet'
  BY <1>1, <1>2, <1>7
<1>8. RuleSet' = {x \in RuleSet : x[1] \notin naming} \cup {<<r, gs>> : r \in naming}
  BY <1>5, <1>6, <1>7
<1>9. gs \subseteq DOMAIN Links
  BY DEF Links
<1>10. Contents!Put(naming, gs)
  BY <1>8, <1>9 DEF Contents!Put, RuleSet, Links
<1>11. \E x \in RuleSet' : x[2] = gs
  <2>1. PICK e \in put : entries'[e].grefs = gs
    OBVIOUS
  <2>2. <<entries'[e].rule, gs>> \in RuleSet'
    BY <1>2, <2>1
  <2> QED BY <2>2
<1> QED BY <1>4, <1>10, <1>11 DEF Contents!Next, RuleSet

LEMMA FlowAddPuts == IInv /\ FlowAdd => Contents!Next
<1> SUFFICES ASSUME IInv, FlowAdd PROVE Contents!Next
  OBVIOUS
<1>1. PICK r \in Rules, insts \in Instructions, array \in NewArrays,
          e \in EntryIds \ DOMAIN entries :
        /\ Valid(GroupsOf(insts))
        /\ Create(e, r, insts, array, {f \in DOMAIN entries : entries[f].rule = r})
  BY DEF FlowAdd
<1> DEFINE old == {f \in DOMAIN entries : entries[f].rule = r}
           new == {e}
<1>2. GroupTable(group) /\ new \subseteq EntryIds
  BY Typed DEF GroupTable
<1>3. group' = GroupRefs(group, old, new, GroupsOf(insts))
  BY <1>1 DEF Create
<1>4. /\ DOMAIN entries' = (DOMAIN entries \ old) \cup {e}
      /\ entries'[e].rule = r /\ entries'[e].grefs = GroupsOf(insts)
      /\ \A f \in DOMAIN entries \ old : entries'[f] = entries[f]
  BY <1>1 DEF Create
<1>5. new = {e} /\ \A f \in old : entries[f].rule = r
  OBVIOUS
<1> HIDE DEF old, new
<1>6. Links' = Links
  <2>1. GroupRefsAre(group', group, old, new, GroupsOf(insts))
    BY <1>2, <1>3, GroupRefsLists
  <2> QED BY <2>1, LinksKept DEF GroupRefsAre
<1>7. GroupsOf(insts) \in SUBSET DOMAIN group
  BY <1>1 DEF Valid
<1>8. RulesAreUnique'
  BY FlowAddStep DEF IInv
<1>9. new \in SUBSET DOMAIN entries' /\ new # {}
      /\ \A f \in new : entries'[f].grefs = GroupsOf(insts)
  BY <1>4, <1>5
<1>10. \A f \in DOMAIN entries' \ new :
         /\ f \in DOMAIN entries
         /\ entries'[f].rule = entries[f].rule /\ entries'[f].grefs = entries[f].grefs
  BY <1>4, <1>5
<1>11. \A f \in DOMAIN entries :
         \/ f \in DOMAIN entries' \ new
         \/ \E x \in new : entries'[x].rule = entries[f].rule
  BY <1>1, <1>4, <1>5
<1> QED BY <1>6, <1>7, <1>8, <1>9, <1>10, <1>11, PutRules

LEMMA FlowModifyPuts == IInv /\ FlowModify => Contents!Next
<1> SUFFICES ASSUME IInv, FlowModify PROVE Contents!Next
  OBVIOUS
<1>1. PICK rs \in Selections \cup {{r} : r \in Rules}, insts \in Instructions,
          array \in NewArrays :
        /\ Valid(GroupsOf(insts))
        /\ {e \in DOMAIN entries : entries[e].rule \in rs} # {}
        /\ ReplaceInstructions({e \in DOMAIN entries : entries[e].rule \in rs},
                               insts, array)
  BY DEF FlowModify
<1> DEFINE sel == {e \in DOMAIN entries : entries[e].rule \in rs}
<1>2. /\ entries' = [e \in DOMAIN entries |->
                       IF e \in sel THEN [entries[e] EXCEPT !.insts = insts, !.array = array,
                                                           !.grefs = GroupsOf(insts)]
                       ELSE entries[e]]
      /\ group' = GroupRefs(group, sel, sel, GroupsOf(insts))
  BY <1>1 DEF ReplaceInstructions
<1>3. GroupTable(group) /\ sel \subseteq EntryIds /\ sel \subseteq DOMAIN entries /\ sel # {}
  BY <1>1, Typed DEF GroupTable
<1> HIDE DEF sel
<1>4. Links' = Links
  <2>1. GroupRefsAre(group', group, sel, sel, GroupsOf(insts))
    BY <1>2, <1>3, GroupRefsLists
  <2> QED BY <2>1, LinksKept DEF GroupRefsAre
<1>5. DOMAIN entries' = DOMAIN entries
  BY <1>2
<1>6. \A e \in sel : entries'[e].rule = entries[e].rule /\ entries'[e].grefs = GroupsOf(insts)
  <2> SUFFICES ASSUME NEW e \in sel
               PROVE  /\ entries'[e].rule = entries[e].rule
                      /\ entries'[e].grefs = GroupsOf(insts)
    OBVIOUS
  <2>1. entries[e] \in Entry
    BY <1>3, Typed
  <2>2. entries'[e] = [entries[e] EXCEPT !.insts = insts, !.array = array,
                                         !.grefs = GroupsOf(insts)]
    BY <1>2, <1>3
  <2> QED BY <2>1, <2>2 DEF Entry
<1>7. \A e \in DOMAIN entries \ sel : entries'[e] = entries[e]
  BY <1>2
<1>8. RulesAreUnique' /\ GroupsOf(insts) \in SUBSET DOMAIN group
  BY <1>1, FlowModifyStep DEF IInv, Valid
<1> QED BY <1>3, <1>4, <1>5, <1>6, <1>7, <1>8, PutRules

LEMMA GroupPut ==
  ASSUME IInv', UNCHANGED entries, NEW g, NEW links \in SUBSET DOMAIN group,
         DOMAIN group' = DOMAIN group \cup {g}, group'[g].links = links,
         \A h \in DOMAIN group \ {g} : group'[h] = group[h]
  PROVE  Contents!Next
<1>1. Links' = [h \in DOMAIN Links \cup {g} |-> IF h = g THEN links ELSE Links[h]]
  BY DEF Links
<1>2. g \in DOMAIN Links' /\ Links'[g] = links /\ links \subseteq DOMAIN Links
  BY DEF Links
<1>3. Contents!PutGroup(g, Links'[g])
  BY <1>1, <1>2 DEF Contents!PutGroup, Links
<1>4. Contents!LoopFree(Links')
  BY DEF Contents!LoopFree, Links, IInv, GroupsAreLoopFree
<1> QED BY <1>2, <1>3, <1>4 DEF Contents!Next, Links

LEMMA GroupsDrop ==
  ASSUME IInv, GroupDelete \/ GroupDeleteAll
  PROVE  Contents!Next
<1>1. PICK gs \in SUBSET DOMAIN group :
        /\ DOMAIN group' = DOMAIN group \ gs
        /\ \A g \in DOMAIN group' :
             group'[g].links = group[g].links /\ group[g].links \cap gs = {}
        /\ entries' = [e \in {f \in DOMAIN entries : entries[f].insts.groups \cap gs = {}}
                         |-> entries[e]]
  BY GroupsTakeTheirFlows
<1>2. /\ DOMAIN entries' = {e \in DOMAIN entries : entries[e].grefs \cap gs = {}}
      /\ \A e \in DOMAIN entries' : entries'[e] = entries[e]
  BY <1>1, Typed
<1>3. RuleSet' = {x \in RuleSet : x[2] \cap gs = {}}
  BY <1>2 DEF RuleSet
<1>4. Links' = [h \in DOMAIN Links \ gs |-> Links[h]]
      /\ \A h \in DOMAIN Links' : Links[h] \cap gs = {}
  BY <1>1 DEF Links
<1>5. Contents!DropGroups(gs) /\ gs \in SUBSET DOMAIN Links
  BY <1>3, <1>4 DEF Contents!DropGroups, RuleSet, Links
<1> QED BY <1>5 DEF Contents!Next, Links

\* What the tables hold is what a controller may expect: rules appear with
\* groups that exist and go with them, and groups never form a loop.
THEOREM KeepsContents == Spec => ContentsSpec
<1>1. Init => Contents!Init
  BY DEF Init, Contents!Init
<1>2. IInv /\ [Next]_vars => [Contents!Next]_(Contents!contents)
  <2> SUFFICES ASSUME IInv, [Next]_vars
               PROVE  Contents!Next \/ UNCHANGED Contents!contents
    OBVIOUS
  <2>1. CASE FlowAdd \/ FlowModify
    BY <2>1, FlowAddPuts, FlowModifyPuts
  <2>2. CASE FlowDelete \/ FlowTimeout
    BY <2>2, RemoveDrops DEF FlowDelete, FlowTimeout
  <2>3. CASE GroupAdd
    <3>1. IInv'
      BY <2>3, GroupAddStep
    <3>2. PICK g \in GroupIds \ DOMAIN group, links \in SUBSET GroupIds :
            /\ links \subseteq DOMAIN group
            /\ group' = [h \in DOMAIN group \cup {g} |->
                           IF h = g THEN [links |-> links, frefs |-> {}, count |-> 0]
                           ELSE group[h]]
            /\ UNCHANGED entries
      BY <2>3 DEF GroupAdd, Valid
    <3>3. /\ DOMAIN group' = DOMAIN group \cup {g} /\ group'[g].links = links
          /\ \A h \in DOMAIN group \ {g} : group'[h] = group[h]
      BY <3>2
    <3> QED BY <3>1, <3>2, <3>3, GroupPut
  <2>4. CASE GroupModify
    <3>1. IInv'
      BY <2>4, GroupModifyStep
    <3>2. PICK g \in DOMAIN group, links \in SUBSET GroupIds :
            /\ links \subseteq DOMAIN group
            /\ group' = [group EXCEPT ![g] = [links |-> links, frefs |-> @.frefs, count |-> 0]]
            /\ UNCHANGED entries
      BY <2>4 DEF GroupModify, Valid
    <3>3. /\ DOMAIN group' = DOMAIN group \cup {g} /\ group'[g].links = links
          /\ \A h \in DOMAIN group \ {g} : group'[h] = group[h]
      BY <3>2, Typed
    <3> QED BY <3>1, <3>2, <3>3, GroupPut
  <2>5. CASE GroupDelete \/ GroupDeleteAll
    BY <2>5, GroupsDrop
  <2>6. CASE MeterAdd \/ MeterModify \/ UNCHANGED vars
    BY <2>6 DEF MeterAdd, MeterModify, vars, Contents!contents
  <2>7. CASE MeterDelete \/ MeterDeleteAll
    BY <2>7, RemoveDrops DEF MeterDelete, MeterDeleteAll
  <2> QED BY <2>1, <2>2, <2>3, <2>4, <2>5, <2>6, <2>7 DEF Next
<1> QED BY <1>1, <1>2, Inductive, PTL DEF Spec, ContentsSpec, Contents!Spec
==============================================================================
