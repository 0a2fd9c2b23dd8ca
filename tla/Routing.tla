------------------------------- MODULE Routing -------------------------------
(***************************************************************************)
(* Periodic routing: the simple controllers (simple-controller.cc,         *)
(* simple-controller-flex.cc), the graph they route on (topology.cc), the  *)
(* flow tables they write and a packet on its way through them.            *)
(*                                                                         *)
(* A route is a flow-mod per switch and host.  They are computed for all   *)
(* switches in one event and arrive at each switch in their own time, so   *)
(* that tables of different ages meet, and a packet may go in circles for  *)
(* a while.  A switch does not send it back through the port it came by.   *)
(*                                                                         *)
(* A packet takes nothing away from another, so one on its way at a time   *)
(* is enough.  The two commands before the routes of a handshake (default  *)
(* rule, set-config) only decide whether a packet without a route goes to  *)
(* the controller, which has no use for it, and are left out.  The         *)
(* controller gets port status messages and does nothing about them.       *)
(***************************************************************************)
EXTENDS Integers, Sequences, FiniteSetsExt, SequencesExt

CONSTANTS
  Switches,
  Hosts,        \* those that packets go to
  HostOrder,    \* NodeContainer::GetGlobalHosts: the hosts in order
  Links,        \* the edges: sets of two nodes
  Flexes,       \* readings of the energy API, at the first handshake (0) and at each
                \* update: a float for each switch, as parts of which Scale make up 1
  Scale,
  MaxUpdates    \* bound: runs of UpdateRouting

Nodes == Switches \cup Hosts
Neighbours(n) == {k \in Nodes \ {n} : {n, k} \in Links}

ASSUME RoutingAssumption ==
  /\ HostOrder \in Seq(Hosts) /\ IsInjective(HostOrder) /\ Range(HostOrder) = Hosts
  /\ MaxUpdates \in Nat

\* Two nodes have at most one link.
ASSUME GraphAssumption ==
  /\ Switches \cap Hosts = {} /\ "no route" \notin Nodes
  /\ \A e \in Links : e \subseteq Nodes /\ Cardinality(e) = 2
  /\ Flexes \in [0 .. MaxUpdates -> [Switches -> Int]] /\ Scale \in Nat \ {0}
------------------------------------------------------------------------------
(* Topology *)

\* AddLink gives each edge the weight 1.
Unit == [e \in Links |-> 1]

\* The sum of two readings becomes an int, so its parts are cut off, and counts as
\* 0 when it is negative.  Edges of hosts keep their weight.
WeightOf(f) ==
  [e \in Links |->
     IF e \subseteq Switches
     THEN LET ends == SetToSeq(e)
              sum == f[ends[1]] + f[ends[2]]
          IN  IF sum < 0 THEN 0 ELSE sum \div Scale
     ELSE 1]

Weightings == {Unit} \cup {WeightOf(Flexes[i]) : i \in 0 .. MaxUpdates}

\* The least sum of weights on a path from each node to a host that does not come
\* by switch s; Far without one.
Far(w) == 1 + MapThenSumSet(LAMBDA e : w[e], Links)
Shorter(w, d, s) ==
  [n \in Nodes |-> IF n = s THEN d[n]
                  ELSE Min({d[n]} \cup {d[k] + w[{n, k}] : k \in Neighbours(n)})]
Distance(w, h, s) ==
  FoldSet(LAMBDA i, d : Shorter(w, d, s),
          [n \in Nodes |-> IF n = h THEN 0 ELSE Far(w)], 1 .. Cardinality(Nodes))

\* The nodes that a shortest path from each switch to a host goes to first.
FirstHops ==
  [w \in Weightings |-> [h \in Hosts |-> [s \in Switches |->
     LET d == Distance(w, h, s)
         by == {k \in Neighbours(s) : d[k] < Far(w)}
     IN  {k \in by : \A j \in by : w[{s, k}] + d[k] <= w[{s, j}] + d[j]}]]]

\* Hosts can be reached: the walk back of DijkstraShortestPathInternal would not
\* end otherwise (topology.cc:106).
ASSUME HostsAreReachable ==
  \A w \in Weightings, h \in Hosts, s \in Switches : FirstHops[w][h][s] # {}

\* The second node on the path of DijkstraShortestPath, which is the one that
\* GetPortNoConnectedTo looks a port up for.  The same graph gives the same path.
NextHop(w, h, s) == CHOOSE k \in FirstHops[w][h][s] : TRUE
------------------------------------------------------------------------------
VARIABLES
  weight,       \* of the edges of Topology::m_graph
  first,        \* m_isFirstUpdate; without it UpdateRouting is scheduled
  registered,   \* switches whose handshake is over
  pending,      \* commands for switches that are not registered
  underway,     \* flow-mods on their way to a switch
  table,        \* per switch and host, where it outputs; NoRoute without a flow
  packet,       \* the packet: the switch it is at, the one it came from, its destination
  updates       \* runs of UpdateRouting

vars == <<weight, first, registered, pending, underway, table, packet, updates>>

NoRoute == "no route"
Packet == [at : Switches, from : Switches \cup {NoRoute}, to : Hosts]
NoPacket == [at |-> NoRoute, from |-> NoRoute, to |-> NoRoute]
FlowMod == [host : Hosts, output : Nodes]

TypeOK ==
  /\ weight \in Weightings /\ first \in BOOLEAN /\ (first <=> registered = {})
  /\ registered \subseteq Switches
  /\ pending \in [Switches -> Seq(FlowMod)]
  /\ underway \in [Switches -> Seq(FlowMod)]
  /\ \A s \in registered : pending[s] = << >>
  /\ \A s \in Switches \ registered : underway[s] = << >>
  /\ table \in [Switches -> [Hosts -> Nodes \cup {NoRoute}]]
  /\ packet \in Packet \cup {NoPacket}
  /\ updates \in 0 .. MaxUpdates

Init ==
  /\ weight = Unit /\ first = TRUE /\ registered = {}
  /\ pending = [s \in Switches |-> << >>]
  /\ underway = [s \in Switches |-> << >>]
  /\ table = [s \in Switches |-> [h \in Hosts |-> NoRoute]]
  /\ packet = NoPacket /\ updates = 0
------------------------------------------------------------------------------
(* The controller *)

\* The commands of ApplyRouting, a flow-mod for each host.
ApplyRouting(w, s) ==
  [i \in DOMAIN HostOrder |->
     [host |-> HostOrder[i], output |-> NextHop(w, HostOrder[i], s)]]

\* Only the first handshake reads weights.
WeightsAtHandshake == IF first THEN WeightOf(Flexes[0]) ELSE weight

\* HandleFeaturesReply: the commands that wait go first, then those of the handler.
HandshakeSuccessful(s) ==
  /\ s \notin registered
  /\ weight' = WeightsAtHandshake
  /\ first' = FALSE
  /\ registered' = registered \cup {s}
  /\ underway' = [underway EXCEPT ![s] = pending[s] \o ApplyRouting(weight', s)]
  /\ pending' = [pending EXCEPT ![s] = << >>]
  /\ UNCHANGED <<table, packet, updates>>

\* Mutant: a switch that has yet to take earlier routes gets none.
Replace_Idle(w) ==
  /\ underway' = [s \in Switches |->
       IF s \in registered /\ underway[s] = << >> THEN ApplyRouting(w, s) ELSE underway[s]]
  /\ pending' = [s \in Switches |->
       IF s \in registered THEN pending[s] ELSE pending[s] \o ApplyRouting(w, s)]

\* New routes for all switches, also for those that are not registered.
Replace(w) ==
  /\ underway' = [s \in Switches |->
       IF s \in registered THEN underway[s] \o ApplyRouting(w, s) ELSE underway[s]]
  /\ pending' = [s \in Switches |->
       IF s \in registered THEN pending[s] ELSE pending[s] \o ApplyRouting(w, s)]

\* Mutant: routes come before the weights are read.
UpdateRouting_Late ==
  /\ ~first /\ updates < MaxUpdates
  /\ weight' = WeightOf(Flexes[updates + 1])
  /\ Replace(weight)
  /\ updates' = updates + 1
  /\ UNCHANGED <<first, registered, table, packet>>
UpdateRouting ==
  /\ ~first /\ updates < MaxUpdates
  /\ weight' = WeightOf(Flexes[updates + 1])
  /\ Replace(weight')
  /\ updates' = updates + 1
  /\ UNCHANGED <<first, registered, table, packet>>
------------------------------------------------------------------------------
(* Switches *)

\* A flow-mod replaces the flow with its match.
HandleFlowMod(s) ==
  /\ underway[s] # << >>
  /\ table' = [table EXCEPT ![s][Head(underway[s]).host] = Head(underway[s]).output]
  /\ underway' = [underway EXCEPT ![s] = Tail(@)]
  /\ UNCHANGED <<weight, first, registered, pending, packet, updates>>

\* A host behind any switch sends, by a port that no route of the switch uses.
HostSends ==
  /\ packet = NoPacket
  /\ packet' \in [at : Switches, from : {NoRoute}, to : Hosts]
  /\ UNCHANGED <<weight, first, registered, pending, underway, table, updates>>

\* To the next switch, or out of the network: to a host, for lack of a route, or
\* as its route is the port it came by.
Forward ==
  /\ packet # NoPacket
  /\ LET next == table[packet.at][packet.to]
     IN  packet' = IF next \in Switches \ {packet.from}
                   THEN [packet EXCEPT !.at = next, !.from = packet.at] ELSE NoPacket
  /\ UNCHANGED <<weight, first, registered, pending, underway, table, updates>>

Next ==
  \/ \E s \in Switches : HandshakeSuccessful(s) \/ HandleFlowMod(s)
  \/ UpdateRouting \/ HostSends \/ Forward

Spec == Init /\ [][Next]_vars

\* TCP delivers, and so do links.
FairSpec == Spec /\ WF_vars(Forward) /\ \A s \in Switches : WF_vars(HandleFlowMod(s))
------------------------------------------------------------------------------
(* Properties *)

\* A registered switch that all flow-mods have reached has the routes of the
\* weights that hold now, whenever it connected and however many updates it was
\* sent before (ofswitch13-controller.cc:83, simple-controller-flex.cc:85).
RoutesAreCurrent ==
  \A s \in registered : \A h \in Hosts :
    underway[s] = << >> => table[s][h] = NextHop(weight, h, s)

\* Tables of different ages may send a packet in circles of three switches or
\* more, but not for ever: once updates have arrived it leaves the network, where
\* weights are positive.  With weights of 0 the order of boost's heap decides
\* between paths, and current routes of different switches need not fit.
EveryPacketLeaves == (packet # NoPacket) ~> (packet = NoPacket)
==============================================================================
