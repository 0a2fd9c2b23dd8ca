------------------------------ MODULE TableRefs ------------------------------
(***************************************************************************)
(* Flow, group and meter tables of one datapath, and the references they    *)
(* keep to each other.  A flow entry lists the groups and meters its        *)
(* instructions name, and each group and meter lists flow entries that name *)
(* it, as pointers: deleting a group or meter removes the flows it lists,   *)
(* so a pointer too many reaches freed memory and one too few leaves a flow *)
(* that names nothing.  A group hears of every change of instructions, a    *)
(* meter only of flows added while it exists.  Buckets name groups as well. *)
(*                                                                          *)
(* Every message of the controller and every timeout is handled in one      *)
(* step; one that ends in an error changes nothing and is no action.        *)
(* Ids of groups (and of meters) fall in different buckets of their hash    *)
(* map.  Matches have no masks: equal rules are the same rule (FlowMatch).  *)
(***************************************************************************)
EXTENDS Integers, FiniteSets

CONSTANTS
  Rules,      \* what identifies a flow: its table, match and priority
  Table,      \* rule -> table
  Selections, \* the sets of rules that a match with wildcards covers
  EntryIds,   \* addresses of struct flow_entry
  ArrayIds,   \* addresses of instruction arrays
  GroupIds, MeterIds,
  NoMeter,    \* no OFPIT_METER among the instructions
  AnyGroup,   \* OFPG_ANY
  MaxFlows, MaxGroups, MaxMeters,  \* capacity of a flow table, of the others
  CountMod    \* ref_count and flow_count are counted modulo this (2^32)

ASSUME TablesAssumption ==
  /\ NoMeter \notin MeterIds /\ AnyGroup \notin GroupIds
  /\ IsFiniteSet(EntryIds)
  /\ Selections \subseteq SUBSET Rules
  /\ MaxFlows \in Nat /\ MaxGroups \in Nat /\ MaxMeters \in Nat
  /\ CountMod \in Nat \ {0}

Instructions == [groups : SUBSET GroupIds, meter : MeterIds \cup {NoMeter}]

VARIABLES
  entries,  \* address -> flow entry, in any table
  group,    \* group id -> the groups its buckets name, its flow references
  meter,    \* meter id -> its flow references
  memory    \* "fine", or "dangling" once an entry's instructions were freed
            \* that another entry uses too

vars == <<entries, group, meter, memory>>

Entry == [rule : Rules, insts : Instructions, array : ArrayIds,
          grefs : SUBSET GroupIds, mrefs : SUBSET MeterIds,
          listed : SUBSET MeterIds] \* history: the meters told of it, init_meter_refs
Group == [links : SUBSET GroupIds, frefs : SUBSET EntryIds, count : 0 .. CountMod - 1]
Meter == [frefs : SUBSET EntryIds, count : 0 .. CountMod - 1]

TypeOK ==
  /\ DOMAIN entries \subseteq EntryIds /\ entries \in [DOMAIN entries -> Entry]
  /\ DOMAIN group \subseteq GroupIds /\ group \in [DOMAIN group -> Group]
  /\ DOMAIN meter \subseteq MeterIds /\ meter \in [DOMAIN meter -> Meter]
  /\ memory \in {"fine", "dangling"}

Init ==
  /\ entries = [e \in {} |-> << >>]
  /\ group = [g \in {} |-> << >>]
  /\ meter = [m \in {} |-> << >>]
  /\ memory = "fine"

------------------------------------------------------------------------------
(* References *)

\* The groups and meters named by instructions (init_group_refs, init_meter_refs).
GroupsOf(insts) == insts.groups
MetersOf(insts) == {insts.meter} \ {NoMeter}

\* Mutant: the 32 bit counter does not wrap.
Updated_NoWrap(x, del, add) ==
  LET left == x.frefs \ del
      n == Cardinality(left \cup add) - Cardinality(x.frefs) IN
  [x EXCEPT !.frefs = left \cup add, !.count = @ + n]

\* The references of object x after the entries of del have been deleted from
\* it and entry add, if it is not one of them, has been added: for each call the
\* count moves by one when the list does.
Updated(x, del, add) ==
  LET left == x.frefs \ del
      n == Cardinality(left \cup add) - Cardinality(x.frefs) IN
  [x EXCEPT !.frefs = left \cup add, !.count = (@ + n) % CountMod]

\* del_group_refs for the entries of gone, then init_group_refs for those of new
\* with instructions that name gs.  Only groups in the table are told.
GroupRefs(table, gone, new, gs) ==
  [g \in DOMAIN table |->
     Updated(table[g], {e \in gone : g \in entries[e].grefs},
             IF g \in gs THEN new ELSE {})]

\* The same for meters: only with new entries, never when instructions change.
MeterRefs(table, gone, new, ms) ==
  [m \in DOMAIN table |->
     Updated(table[m], {e \in gone : m \in entries[e].mrefs},
             IF m \in ms THEN new ELSE {})]

\* The instructions of the entries of gone are freed.
Freed(gone) ==
  memory' = IF \E e \in gone : \E f \in DOMAIN entries \ {e} :
                 entries[f].array = entries[e].array
              THEN "dangling" ELSE "fine"

Without(table, ids) == [i \in DOMAIN table \ ids |-> table[i]]

\* flow_entry_remove for each entry of gone, with the groups and meters that are
\* in their table meanwhile.
Remove(gone, groups, meters) ==
  /\ entries' = Without(entries, gone)
  /\ group' = GroupRefs(groups, gone, {}, {})
  /\ meter' = MeterRefs(meters, gone, {}, {})
  /\ Freed(gone)

\* An array not used by any entry.
NewArrays == ArrayIds \ {entries[e].array : e \in DOMAIN entries}

Fine == memory = "fine"

\* dp_actions_validate.
Valid(gs) == gs \subseteq DOMAIN group

InTable(t) == {e \in DOMAIN entries : Table[entries[e].rule] = t}
------------------------------------------------------------------------------
(* Flow-mod *)

\* flow_entry_create at address e, in the place of the entries of old.
Create(e, r, insts, array, old) ==
  /\ entries' = [f \in (DOMAIN entries \ old) \cup {e} |->
                   IF f = e THEN [rule |-> r, insts |-> insts, array |-> array,
                                  grefs |-> GroupsOf(insts), mrefs |-> MetersOf(insts),
                                  listed |-> MetersOf(insts) \cap DOMAIN meter]
                   ELSE entries[f]]
  /\ group' = GroupRefs(group, old, {e}, GroupsOf(insts))
  /\ meter' = MeterRefs(meter, old, {e}, MetersOf(insts))
  /\ Freed(old)

\* flow_table_add: an equal entry is replaced, otherwise the table must have room.
FlowAdd ==
  \E r \in Rules, insts \in Instructions, array \in NewArrays,
     e \in EntryIds \ DOMAIN entries :
    LET old == {f \in DOMAIN entries : entries[f].rule = r} IN
    /\ Fine /\ Valid(GroupsOf(insts))
    /\ old # {} \/ Cardinality(InTable(Table[r])) # MaxFlows
    /\ Create(e, r, insts, array, old)

\* Mutant: group references are not refreshed.
ReplaceInstructions_KeepsRefs(sel, insts, array) ==
  /\ entries' = [e \in DOMAIN entries |->
                   IF e \in sel THEN [entries[e] EXCEPT !.insts = insts, !.array = array]
                   ELSE entries[e]]
  /\ Freed(sel)
  /\ UNCHANGED <<group, meter>>

\* flow_entry_replace_instructions for every entry of sel: all get the one array
\* of the message, and their meter references stay as they are.
ReplaceInstructions(sel, insts, array) ==
  /\ entries' = [e \in DOMAIN entries |->
                   IF e \in sel THEN [entries[e] EXCEPT !.insts = insts, !.array = array,
                                                       !.grefs = GroupsOf(insts)]
                   ELSE entries[e]]
  /\ group' = GroupRefs(group, sel, sel, GroupsOf(insts))
  /\ Freed(sel)
  /\ UNCHANGED meter

\* flow_table_modify, strict (a single rule) or with wildcards.
FlowModify ==
  \E rs \in Selections \cup {{r} : r \in Rules}, insts \in Instructions,
     array \in NewArrays :
    LET sel == {e \in DOMAIN entries : entries[e].rule \in rs} IN
    /\ Fine /\ Valid(GroupsOf(insts))
    /\ sel # {}
    /\ ReplaceInstructions(sel, insts, array)

\* flow_table_delete, strict or with wildcards, for one out_group or any.
FlowDelete ==
  \E rs \in Selections \cup {{r} : r \in Rules}, og \in GroupIds \cup {AnyGroup} :
    LET gone == {e \in DOMAIN entries :
                   entries[e].rule \in rs /\ (og = AnyGroup \/ og \in entries[e].insts.groups)} IN
    /\ Fine
    /\ gone # {}
    /\ Remove(gone, group, meter)

\* flow_table_timeout: some entries have timed out.
FlowTimeout ==
  \E gone \in SUBSET DOMAIN entries \ {{}} :
    Fine /\ Remove(gone, group, meter)
------------------------------------------------------------------------------
(* Group-mod *)

\* group_table_add.
GroupAdd ==
  \E g \in GroupIds \ DOMAIN group, links \in SUBSET GroupIds :
    /\ Fine /\ Valid(links)
    /\ Cardinality(DOMAIN group) # MaxGroups
    /\ group' = [h \in DOMAIN group \cup {g} |->
                   IF h = g THEN [links |-> links, frefs |-> {}, count |-> 0]
                   ELSE group[h]]
    /\ UNCHANGED <<entries, meter, memory>>

\* is_loop_free: the groups visited from the new buckets on do not include g.
\* Mutant: only the groups that the buckets name are visited.
IsLoopFree_OneStep(g, links) == g \notin links
IsLoopFree(g, links) ==
  \E visited \in SUBSET GroupIds :
    /\ links \subseteq visited /\ g \notin visited
    /\ \A h \in visited \cap DOMAIN group : group[h].links \subseteq visited

\* group_table_modify: the new entry takes over the flow references, and its
\* ref_count starts again.
GroupModify ==
  \E g \in DOMAIN group, links \in SUBSET GroupIds :
    /\ Fine /\ Valid(links)
    /\ IsLoopFree(g, links)
    /\ group' = [group EXCEPT ![g] = [links |-> links, frefs |-> @.frefs, count |-> 0]]
    /\ UNCHANGED <<entries, meter, memory>>

\* group_table_delete: refused while a group names it; its flows go with it.
\* Mutant: groups that name it are not looked for.
Chained_Never(g) == FALSE
Chained(g) == \E h \in DOMAIN group : g \in group[h].links

GroupDelete ==
  \E g \in DOMAIN group :
    /\ Fine
    /\ ~Chained(g)
    /\ Remove(group[g].frefs, Without(group, {g}), meter)

GroupDeleteAll ==
  /\ Fine /\ DOMAIN group # {}
  /\ Remove(UNION {group[g].frefs : g \in DOMAIN group}, [g \in {} |-> << >>], meter)
------------------------------------------------------------------------------
(* Meter-mod *)

\* meter_table_add.
MeterAdd ==
  \E m \in MeterIds \ DOMAIN meter :
    /\ Fine
    /\ Cardinality(DOMAIN meter) # MaxMeters
    /\ meter' = [n \in DOMAIN meter \cup {m} |->
                   IF n = m THEN [frefs |-> {}, count |-> 0] ELSE meter[n]]
    /\ UNCHANGED <<entries, group, memory>>

\* meter_table_modify: a new entry with the flow references and the flow_count
\* of the old one, so that only the bands change.
MeterModify ==
  \E m \in DOMAIN meter :
    /\ Fine
    /\ meter' = [meter EXCEPT ![m] = [frefs |-> @.frefs, count |-> @.count]]
    /\ UNCHANGED <<entries, group, memory>>

\* meter_table_delete.
MeterDelete ==
  \E m \in DOMAIN meter :
    /\ Fine
    /\ Remove(meter[m].frefs, group, Without(meter, {m}))

MeterDeleteAll ==
  /\ Fine /\ DOMAIN meter # {}
  /\ Remove(UNION {meter[m].frefs : m \in DOMAIN meter}, group, [m \in {} |-> << >>])

Next ==
  \/ FlowAdd \/ FlowModify \/ FlowDelete \/ FlowTimeout
  \/ GroupAdd \/ GroupModify \/ GroupDelete \/ GroupDeleteAll
  \/ MeterAdd \/ MeterModify \/ MeterDelete \/ MeterDeleteAll

Spec == Init /\ [][Next]_vars
------------------------------------------------------------------------------
(* Properties *)

\* A group's list of flow references is the set of flows whose instructions name
\* the group, whatever was added, replaced, modified and timed out since: so
\* deleting the group follows no pointer to a freed flow and forgets no flow.
FlowsAndGroupsAgree ==
  \A g \in DOMAIN group :
    group[g].frefs = {e \in DOMAIN entries : g \in entries[e].insts.groups}

\* Every group that a flow or a bucket names exists, so that executing an action
\* never ends in group_table_execute's missing group, which keeps the packet.
NoDanglingGroup ==
  /\ \A e \in DOMAIN entries : entries[e].insts.groups \subseteq DOMAIN group
  /\ \A g \in DOMAIN group : group[g].links \subseteq DOMAIN group

\* Groups that name each other do so without a loop (is_loop_free assumes it and
\* only looks at modifications): a packet that enters a group leaves it.
GroupsAreLoopFree ==
  \A gs \in SUBSET DOMAIN group :
    gs # {} => \E g \in gs : group[g].links \cap gs = {}

\* A meter's list of flow references is the set of flows that named it when they
\* were added, while it was in the table, and such a flow never outlives it: so
\* deleting the meter follows no pointer to a freed flow and forgets no flow that
\* it was told of.  It is not told of a flow whose instructions change to name it
\* (flow_entry_replace_instructions), nor of one added before it.
FlowsAndMetersAgree ==
  /\ \A m \in DOMAIN meter :
       meter[m].frefs = {e \in DOMAIN entries : m \in entries[e].listed}
  /\ \A e \in DOMAIN entries : entries[e].listed \subseteq DOMAIN meter

\* No two entries of a table have the same match and priority: a strict
\* flow-mod means one flow.
RulesAreUnique ==
  \A e, f \in DOMAIN entries : entries[e].rule = entries[f].rule => e = f

\* Whatever was added, replaced, modified, deleted and timed out since, groups list
\* the flows that name them, meters those that named them when added, all groups
\* named exist, and a strict flow-mod means one flow.
ReferencesAgree ==
  FlowsAndGroupsAgree /\ NoDanglingGroup /\ FlowsAndMetersAgree /\ RulesAreUnique

\* Deleted groups take along the flows that name one of them, and no others.
DeletedGroupsTakeTheirFlows ==
  [][LET deleted == DOMAIN group \ DOMAIN group' IN
     deleted # {} =>
       DOMAIN entries' = {e \in DOMAIN entries : entries[e].insts.groups \cap deleted = {}}
    ]_vars

\* "remove all referencing flows" (meter_entry_destroy): no flow names a meter
\* that was deleted.
DeletedMetersTakeTheirFlows ==
  [][\A m \in DOMAIN meter \ DOMAIN meter' : \A e \in DOMAIN entries' :
       entries'[e].insts.meter # m]_vars

\* "Replaces the current instructions of the entry with the given ones"
\* (flow_entry.h): they are the entry's own, freed when it replaces them or goes.
InstructionsAreOwned == Fine

\* What OpenFlow promises about the contents of the tables.
Contents == INSTANCE OpenFlowTables WITH
              rules <- {<<entries[e].rule, entries[e].grefs>> : e \in DOMAIN entries},
              links <- [g \in DOMAIN group |-> group[g].links]

ContentsSpec == Contents!Spec
==============================================================================
