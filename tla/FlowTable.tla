------------------------------ MODULE FlowTable ------------------------------
(***************************************************************************)
(* One flow table of the datapath: the list of entries in the order in      *)
(* which a packet is matched, and the two lists by which entries time out.  *)
(* TableRefs has the references between tables, this module the order and   *)
(* the times.  What flow_table_modify changes, instructions and counters,   *)
(* is none of them; messages about removed flows are left out.              *)
(*                                                                          *)
(* OFSwitch13Device looks for timeouts once per period (DatapathTimeout);   *)
(* in between, packets and flow-mods of the controller come in any order.   *)
(***************************************************************************)
EXTENDS FlowMatch, Lists, Integers, SequencesExt

CONSTANTS
  Addresses,     \* addresses of struct flow_entry
  Priorities,    \* priorities of flow-mods
  Matches,       \* their matches
  Packets,       \* headers of packets
  Timeouts,      \* their hard and idle timeouts in seconds, 0 for none
  MaxEntries,    \* features->max_entries
  TicksPerSec,   \* ticks of the clock in a second
  Period,        \* ticks between two DatapathTimeouts
  MaxTime        \* bound: no flow-mod or packet after this tick

ASSUME FlowTableAssumption ==
  /\ IsFiniteSet(Addresses) /\ Cardinality(Addresses) > MaxEntries
  /\ Priorities \subseteq Nat
  /\ \A m \in Matches : IsMatch(m)
  /\ Timeouts \subseteq [hard : Nat, idle : Nat]
  /\ MaxEntries \in Nat /\ MaxTime \in Nat
  /\ TicksPerSec \in Nat \ {0} /\ Period \in Nat \ {0}

VARIABLES
  now,       \* time_msec (), in ticks
  due,       \* time of the next DatapathTimeout
  entries,   \* address -> struct flow_entry
  matchList, hardList, idleList,   \* match_entries, hard_entries, idle_entries
  active     \* active_count

lists == <<matchList, hardList, idleList>>
vars == <<now, due, entries, lists, active>>

Entry == [prio : Priorities, match : Matches, removeAt : Nat, idle : Nat, lastUsed : Nat]

TypeOK ==
  /\ now \in Nat /\ due \in Nat
  /\ DOMAIN entries \subseteq Addresses /\ entries \in [DOMAIN entries -> Entry]
  /\ \A l \in {matchList, hardList, idleList} : l \in Seq(Addresses)
  /\ active \in 0 .. MaxEntries

Init ==
  /\ now = 0 /\ due = Period
  /\ entries = [a \in {} |-> << >>]
  /\ matchList = << >> /\ hardList = << >> /\ idleList = << >>
  /\ active = 0
------------------------------------------------------------------------------
Without(l, gone) == Only(l, Addresses \ gone)

\* Mutant: hard timeout entries are put at the end of their list.
InsertHard_Last(l, a, e) == IF e.removeAt = 0 THEN l ELSE Append(l, a)

\* add_to_timeout_lists: by the time they should be removed at.
InsertHard(l, a, e) ==
  IF e.removeAt = 0 THEN l
  ELSE InsertAt(l, FirstPlace(l, {b \in DOMAIN entries : entries[b].removeAt > e.removeAt}), a)

InsertIdle(l, a, e) == IF e.idle = 0 THEN l ELSE Append(l, a)

\* flow_entry_create.
NewEntry(p, m, t) ==
  [prio |-> p, match |-> m, idle |-> t.idle, lastUsed |-> now,
   removeAt |-> IF t.hard = 0 THEN 0 ELSE now + t.hard * TicksPerSec]

\* flow_entry_remove of every entry of gone.  Mutant: they stay in idle_entries.
Leave_StaysIdle(gone) ==
  /\ entries' = [a \in DOMAIN entries \ gone |-> entries[a]]
  /\ matchList' = Without(matchList, gone)
  /\ hardList' = Without(hardList, gone)
  /\ active' = active - Cardinality(gone)
  /\ UNCHANGED idleList

Leave(gone) ==
  /\ entries' = [a \in DOMAIN entries \ gone |-> entries[a]]
  /\ matchList' = Without(matchList, gone)
  /\ hardList' = Without(hardList, gone)
  /\ idleList' = Without(idleList, gone)
  /\ active' = active - Cardinality(gone)

\* The controller and the network act up to the bound.
Ready == now < MaxTime
------------------------------------------------------------------------------
(* flow_table_add *)

Overlaps(e, p, m) == e.prio = p /\ Overlap(e.match, m)

SameRule(e, p, m) == e.prio = p /\ Strict(m, e.match)

\* Mutants: new entries are put last, or before those of equal priority.
Place_Last(p, m) ==
  FirstPlace(matchList, {a \in DOMAIN entries : SameRule(entries[a], p, m)})

Place_Before(p, m) ==
  FirstPlace(matchList,
             {a \in DOMAIN entries : SameRule(entries[a], p, m) \/ p >= entries[a].prio})

\* Where the loop of flow_table_add ends: at the entry it replaces, or the first
\* one of lower priority.
Place(p, m) ==
  FirstPlace(matchList,
             {a \in DOMAIN entries : SameRule(entries[a], p, m) \/ p > entries[a].prio})

FoundAt(i, p, m) == i <= Len(matchList) /\ SameRule(entries[matchList[i]], p, m)

\* With OFPFF_CHECK_OVERLAP, an entry that overlaps comes first.
Refused(check, i, p, m) ==
  check /\ \E j \in 1 .. i : j <= Len(matchList) /\ Overlaps(entries[matchList[j]], p, m)

Put(a, e, left) ==
  /\ entries' = [b \in left \cup {a} |-> IF b = a THEN e ELSE entries[b]]
  /\ hardList' = InsertHard(Without(hardList, DOMAIN entries \ left), a, e)
  /\ idleList' = InsertIdle(Without(idleList, DOMAIN entries \ left), a, e)
  /\ UNCHANGED <<now, due>>

\* The equal entry at place i is replaced, in its place and with new timeouts.
Replace(p, m, e, i, a) ==
  /\ FoundAt(i, p, m)
  /\ matchList' = [matchList EXCEPT ![i] = a]
  /\ Put(a, e, DOMAIN entries \ {matchList[i]})
  /\ UNCHANGED active

\* Mutant: the table may have one entry too many.
Insert_OneMore(p, m, e, i, a) ==
  /\ ~FoundAt(i, p, m)
  /\ active <= MaxEntries
  /\ matchList' = InsertAt(matchList, i, a)
  /\ active' = active + 1
  /\ Put(a, e, DOMAIN entries)

\* Otherwise the entry goes behind those of equal priority, if there is room.
Insert(p, m, e, i, a) ==
  /\ ~FoundAt(i, p, m)
  /\ active # MaxEntries
  /\ matchList' = InsertAt(matchList, i, a)
  /\ active' = active + 1
  /\ Put(a, e, DOMAIN entries)

FlowAdd ==
  \E p \in Priorities, m \in Matches, t \in Timeouts, check \in BOOLEAN,
     a \in Addresses \ DOMAIN entries :
    LET i == Place(p, m)
        e == NewEntry(p, m, t) IN
    /\ Ready
    /\ ~Refused(check, i, p, m)
    /\ Replace(p, m, e, i, a) \/ Insert(p, m, e, i, a)

(* flow_table_delete *)

\* flow_entry_matches, for any cookie.
Selected(strict, p, m) ==
  {a \in DOMAIN entries :
     IF strict THEN SameRule(entries[a], p, m) ELSE Nonstrict(m, entries[a].match)}

\* All that match, or those among them with one cookie, port or group: any.
FlowDelete ==
  \E strict \in BOOLEAN, p \in Priorities, m \in Matches :
    \E gone \in SUBSET Selected(strict, p, m) :
      /\ Ready
      /\ Leave(gone)
      /\ UNCHANGED <<now, due>>

(* flow_table_lookup *)

Found(pk) == FirstPlace(matchList, {a \in DOMAIN entries : Covers(entries[a].match, pk)})

Lookup ==
  \E pk \in Packets :
    LET i == Found(pk) IN
    /\ Ready
    /\ i <= Len(matchList)
    /\ entries' = [entries EXCEPT ![matchList[i]].lastUsed = now]
    /\ UNCHANGED <<now, due, lists, active>>

(* flow_table_timeout *)

HardExpired(e) == e.removeAt # 0 /\ now > e.removeAt
IdleExpired(e) == e.idle # 0 /\ now > e.lastUsed + e.idle * TicksPerSec

\* The loop over hard_entries ends at the first one that stays.
HardGone ==
  LET end == FirstPlace(hardList, {a \in DOMAIN entries : ~HardExpired(entries[a])}) IN
  {hardList[i] : i \in 1 .. end - 1}

IdleGone == {a \in ToSet(idleList) : a \notin HardGone /\ IdleExpired(entries[a])}

DatapathTimeout ==
  /\ now = due
  /\ Leave(HardGone \cup IdleGone)
  /\ due' = now + Period
  /\ UNCHANGED now

Tick ==
  /\ Ready /\ now # due
  /\ now' = now + 1
  /\ UNCHANGED <<due, entries, lists, active>>

Next == FlowAdd \/ FlowDelete \/ Lookup \/ DatapathTimeout \/ Tick

Spec == Init /\ [][Next]_vars
------------------------------------------------------------------------------
(* Properties *)

\* Every entry is in the lists it belongs to and in no other, once, also after it
\* was replaced or timed out in one list while it is in the other: no list keeps
\* the address of a freed entry.  active_count, which add compares with the
\* table's capacity, is the number of entries.
ListsAgree ==
  /\ \A l \in {matchList, hardList, idleList} : NoTwice(l)
  /\ ToSet(matchList) = DOMAIN entries
  /\ ToSet(hardList) = {a \in DOMAIN entries : entries[a].removeAt # 0}
  /\ ToSet(idleList) = {a \in DOMAIN entries : entries[a].idle # 0}
  /\ active = Cardinality(DOMAIN entries)

\* A packet gets the entry of highest priority that covers it, though the
\* look-up ends at the first.
HighestPriorityFound ==
  \A pk \in Packets, a \in DOMAIN entries :
    Covers(entries[a].match, pk) =>
      /\ Found(pk) <= Len(matchList)
      /\ entries[a].prio <= entries[matchList[Found(pk)]].prio

\* "new entries will be placed behind those with equal priority"
\* (flow_table_add): entries that stay keep their order, and one that comes does
\* not take packets from an older one of its priority.
OlderComesFirst ==
  [][LET stay == DOMAIN entries \cap DOMAIN entries' IN
     /\ \A a, b \in stay : Before(matchList', a, b) <=> Before(matchList, a, b)
     /\ active' > active =>
          \A a \in stay, b \in DOMAIN entries' \ stay :
            entries'[a].prio = entries'[b].prio => Before(matchList', a, b)
    ]_vars

\* A round of timeouts removes exactly the entries whose time is over, whichever
\* list tells: one that a packet used since, or that was replaced, stays.
RoundRemovesTheExpired ==
  [][due' # due =>
       DOMAIN entries' = {a \in DOMAIN entries :
                            ~HardExpired(entries[a]) /\ ~IdleExpired(entries[a])}]_vars

\* "Two matches strictly match if their wildcard fields are the same, and all the
\* non-wildcarded fields match on the same exact values" (match_std_strict): a
\* flow that is added takes the place of a flow with its match only.
OnlyItsMatchIsReplaced ==
  [][FlowAdd =>
       \A a \in DOMAIN entries \ DOMAIN entries', b \in DOMAIN entries' \ DOMAIN entries :
         SameMatch(entries[a].match, entries'[b].match)]_vars
==============================================================================
