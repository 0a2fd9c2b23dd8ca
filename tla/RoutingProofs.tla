---------------------------- MODULE RoutingProofs ----------------------------
(* Theorems about Routing, for any graph in which hosts can be reached and  *)
(* any number of hosts and updates.                                         *)
EXTENDS Routing, TLAPS

\* Once its flow-mods have arrived, a switch has the routes of the weights: the
\* last flow-mod under way for a host is its route, or the table has it already.
Ends(q, t, w, s) ==
  \A h \in Hosts :
    \/ /\ t[h] = NextHop(w, h, s)
       /\ \A i \in 1 .. Len(q) : q[i].host # h
    \/ \E i \in 1 .. Len(q) :
         /\ q[i].host = h /\ q[i].output = NextHop(w, h, s)
         /\ \A j \in 1 .. Len(q) : j > i => q[j].host # h

LastWins == \A s \in registered : Ends(underway[s], table[s], weight, s)

IInv == TypeOK /\ LastWins

\* A path goes to a node first.
LEMMA HopType ==
  ASSUME NEW w \in Weightings, NEW h \in Hosts, NEW s \in Switches
  PROVE  NextHop(w, h, s) \in Nodes
<1>1. FirstHops[w][h][s] # {} BY HostsAreReachable
<1>2. NextHop(w, h, s) \in FirstHops[w][h][s] BY <1>1 DEF NextHop
<1>3. FirstHops[w][h][s] \subseteq Neighbours(s)
  BY Zenon DEF FirstHops
<1> QED BY <1>2, <1>3 DEF Neighbours

\* ApplyRouting sends one flow-mod for each host.
LEMMA RoutesType ==
  ASSUME NEW w \in Weightings, NEW s \in Switches
  PROVE  /\ ApplyRouting(w, s) \in Seq(FlowMod)
         /\ Len(ApplyRouting(w, s)) = Len(HostOrder)
         /\ \A i \in 1 .. Len(HostOrder) :
              ApplyRouting(w, s)[i] =
                [host |-> HostOrder[i], output |-> NextHop(w, HostOrder[i], s)]
<1>1. /\ HostOrder \in Seq(Hosts) /\ Len(HostOrder) \in Nat
      /\ DOMAIN HostOrder = 1 .. Len(HostOrder)
  BY RoutingAssumption
<1>2. \A i \in 1 .. Len(HostOrder) :
        /\ HostOrder[i] \in Hosts
        /\ NextHop(w, HostOrder[i], s) \in Nodes
  BY <1>1, HopType
<1>3. \A i \in 1 .. Len(HostOrder) :
        [host |-> HostOrder[i], output |-> NextHop(w, HostOrder[i], s)] \in FlowMod
  BY <1>2 DEF FlowMod
<1> QED BY <1>1, <1>3 DEF ApplyRouting

\* Whatever is under way, new routes behind it come to hold.
LEMMA RoutesAppended ==
  ASSUME NEW w \in Weightings, NEW s \in Switches, NEW q \in Seq(FlowMod), NEW t
  PROVE  Ends(q \o ApplyRouting(w, s), t, w, s)
<1> DEFINE r == ApplyRouting(w, s)
           p == q \o r
<1>1. r \in Seq(FlowMod) /\ Len(r) = Len(HostOrder) BY RoutesType
<1>2. /\ Len(q) \in Nat /\ Len(r) \in Nat /\ Len(p) = Len(q) + Len(r)
      /\ \A i \in 1 .. Len(p) : i > Len(q) => p[i] = r[i - Len(q)]
  BY <1>1
<1>3. \A i \in 1 .. Len(r) :
        r[i].host = HostOrder[i] /\ r[i].output = NextHop(w, HostOrder[i], s)
  <2> SUFFICES ASSUME NEW i \in 1 .. Len(r)
               PROVE  r[i].host = HostOrder[i] /\ r[i].output = NextHop(w, HostOrder[i], s)
    OBVIOUS
  <2>1. i \in 1 .. Len(HostOrder) BY <1>1
  <2>2. r[i] = [host |-> HostOrder[i], output |-> NextHop(w, HostOrder[i], s)]
    BY <2>1, RoutesType
  <2> HIDE DEF r
  <2> QED BY <2>2
<1> HIDE DEF r, p
<1> SUFFICES ASSUME NEW h \in Hosts
             PROVE  \E i \in 1 .. Len(p) :
                      /\ p[i].host = h /\ p[i].output = NextHop(w, h, s)
                      /\ \A j \in 1 .. Len(p) : j > i => p[j].host # h
  BY DEF Ends, p, r
<1>4. /\ DOMAIN HostOrder = 1 .. Len(r)
      /\ \A a, b \in 1 .. Len(r) : HostOrder[a] = HostOrder[b] => a = b
  BY <1>1, RoutingAssumption DEF IsInjective
<1>5. PICK k \in 1 .. Len(r) : HostOrder[k] = h
  BY <1>4, RoutingAssumption DEF Range
<1> DEFINE i == Len(q) + k
<1>6. i \in 1 .. Len(p) /\ i > Len(q) /\ i - Len(q) = k BY <1>2, <1>5
<1>7. p[i].host = h /\ p[i].output = NextHop(w, h, s)
  BY <1>2, <1>3, <1>5, <1>6
<1>8. ASSUME NEW j \in 1 .. Len(p), j > i PROVE p[j].host # h
  <2>1. /\ j > Len(q) /\ j - Len(q) \in 1 .. Len(r) /\ j - Len(q) # k
    BY <1>2, <1>5, <1>8
  <2>2. p[j].host = HostOrder[j - Len(q)] BY <1>2, <1>3, <2>1
  <2> QED BY <1>4, <1>5, <2>1, <2>2
<1> QED BY <1>6, <1>7, <1>8

\* A flow-mod that arrives changes nothing about how it ends.
LEMMA FlowModHandled ==
  ASSUME NEW w, NEW s, NEW q \in Seq(FlowMod), q # << >>,
         NEW t \in [Hosts -> Nodes \cup {NoRoute}], Ends(q, t, w, s)
  PROVE  Ends(Tail(q), [t EXCEPT ![Head(q).host] = Head(q).output], w, s)
<1> DEFINE p == Tail(q)
           u == [t EXCEPT ![Head(q).host] = Head(q).output]
<1>1. /\ Len(q) \in Nat /\ Len(q) > 0 /\ Len(p) = Len(q) - 1 /\ Head(q) = q[1]
      /\ \A i \in 1 .. Len(p) : p[i] = q[i + 1]
  OBVIOUS
<1>2. \A h \in Hosts : u[h] = IF h = q[1].host THEN q[1].output ELSE t[h]
  BY <1>1
<1> HIDE DEF p, u
<1> SUFFICES ASSUME NEW h \in Hosts
             PROVE  \/ /\ u[h] = NextHop(w, h, s)
                       /\ \A i \in 1 .. Len(p) : p[i].host # h
                    \/ \E i \in 1 .. Len(p) :
                         /\ p[i].host = h /\ p[i].output = NextHop(w, h, s)
                         /\ \A j \in 1 .. Len(p) : j > i => p[j].host # h
  BY DEF Ends, p, u
<1>3. CASE t[h] = NextHop(w, h, s) /\ \A i \in 1 .. Len(q) : q[i].host # h
  <2>1. \A i \in 1 .. Len(p) : p[i].host # h BY <1>1, <1>3
  <2>2. 1 \in 1 .. Len(q) BY <1>1
  <2>3. u[h] = t[h] BY <1>2, <1>3, <2>2
  <2> QED BY <1>3, <2>1, <2>3
<1>4. ASSUME NEW i \in 1 .. Len(q), q[i].host = h, q[i].output = NextHop(w, h, s),
             \A j \in 1 .. Len(q) : j > i => q[j].host # h
      PROVE  \/ /\ u[h] = NextHop(w, h, s)
                /\ \A k \in 1 .. Len(p) : p[k].host # h
             \/ \E k \in 1 .. Len(p) :
                  /\ p[k].host = h /\ p[k].output = NextHop(w, h, s)
                  /\ \A j \in 1 .. Len(p) : j > k => p[j].host # h
  <2>1. ASSUME NEW j \in 1 .. Len(p), j + 1 > i PROVE p[j].host # h
    BY <1>1, <1>4, <2>1
  <2>2. CASE i = 1
    <3>1. u[h] = NextHop(w, h, s) BY <1>2, <1>4, <2>2
    <3>2. \A k \in 1 .. Len(p) : p[k].host # h BY <1>1, <2>1, <2>2
    <3> QED BY <3>1, <3>2
  <2>3. CASE i > 1
    <3> DEFINE k == i - 1
    <3>1. k \in 1 .. Len(p) /\ k + 1 = i BY <1>1, <1>4, <2>3
    <3>2. p[k].host = h /\ p[k].output = NextHop(w, h, s) BY <1>1, <1>4, <3>1
    <3>3. \A j \in 1 .. Len(p) : j > k => p[j].host # h BY <1>1, <2>1, <3>1
    <3> QED BY <3>1, <3>2, <3>3
  <2> QED BY <1>1, <1>4, <2>2, <2>3
<1> QED BY <1>3, <1>4 DEF Ends
------------------------------------------------------------------------------
LEMMA InitInv == Init => IInv
<1> SUFFICES ASSUME Init PROVE TypeOK /\ LastWins BY DEF IInv
<1>1. Unit \in Weightings BY Zenon DEF Weightings
<1>2. updates \in 0 .. MaxUpdates BY RoutingAssumption DEF Init
<1>3. << >> \in Seq(FlowMod) OBVIOUS
<1>4. TypeOK BY <1>1, <1>2, <1>3 DEF Init, TypeOK
<1> QED BY <1>4 DEF Init, LastWins

\* The weights that a handshake or an update leaves.
LEMMA WeightType ==
  ASSUME TypeOK
  PROVE  /\ WeightsAtHandshake \in Weightings
         /\ \A i \in 0 .. MaxUpdates : WeightOf(Flexes[i]) \in Weightings
<1>1. \A i \in 0 .. MaxUpdates : WeightOf(Flexes[i]) \in Weightings
  BY Zenon DEF Weightings
<1>2. 0 \in 0 .. MaxUpdates BY RoutingAssumption
<1> QED BY <1>1, <1>2 DEF TypeOK, WeightsAtHandshake

LEMMA HandshakeStep ==
  ASSUME IInv, NEW s \in Switches, HandshakeSuccessful(s)
  PROVE  IInv'
<1>1. weight' \in Weightings
  BY WeightType DEF IInv, HandshakeSuccessful
<1> DEFINE r == ApplyRouting(weight', s)
<1>2. r \in Seq(FlowMod) BY <1>1, RoutesType
<1>3. /\ pending[s] \in Seq(FlowMod) /\ pending[s] \o r \in Seq(FlowMod)
  BY <1>2 DEF IInv, TypeOK
<1>4. Ends(pending[s] \o r, table[s], weight', s)
  BY <1>1, <1>3, RoutesAppended
<1> HIDE DEF r
<1>5. /\ first' = FALSE /\ registered' = registered \cup {s}
      /\ underway' = [underway EXCEPT ![s] = pending[s] \o r]
      /\ pending' = [pending EXCEPT ![s] = << >>]
      /\ table' = table /\ packet' = packet /\ updates' = updates
  BY DEF HandshakeSuccessful, r
<1>6. TypeOK' BY <1>1, <1>3, <1>5 DEF IInv, TypeOK
<1>7. first \/ weight' = weight BY DEF HandshakeSuccessful, WeightsAtHandshake
<1>8. LastWins'
  <2> SUFFICES ASSUME NEW k \in registered'
               PROVE  Ends(underway'[k], table'[k], weight', k)
    BY Zenon DEF LastWins
  <2>1. CASE k = s
    <3>1. underway'[k] = pending[s] \o r BY <1>5, <2>1 DEF IInv, TypeOK
    <3> QED BY <1>4, <1>5, <2>1, <3>1
  <2>2. CASE k # s
    <3>1. k \in registered /\ ~first BY <1>5, <2>2 DEF IInv, TypeOK
    <3>2. underway'[k] = underway[k] /\ weight' = weight
      BY <1>5, <1>7, <2>2, <3>1 DEF IInv, TypeOK
    <3>3. Ends(underway[k], table[k], weight, k) BY <3>1 DEF IInv, LastWins
    <3> QED BY <1>5, <3>2, <3>3
  <2> QED BY <2>1, <2>2
<1> QED BY <1>6, <1>8 DEF IInv

LEMMA UpdateStep ==
  ASSUME IInv, UpdateRouting
  PROVE  IInv'
<1>1. weight' \in Weightings
  <2>1. updates + 1 \in 0 .. MaxUpdates
    BY RoutingAssumption DEF IInv, TypeOK, UpdateRouting
  <2> QED BY <2>1, WeightType DEF IInv, UpdateRouting
<1>2. \A s \in Switches : ApplyRouting(weight', s) \in Seq(FlowMod)
  BY <1>1, RoutesType
<1>3. \A s \in Switches :
        /\ underway[s] \in Seq(FlowMod) /\ pending[s] \in Seq(FlowMod)
        /\ underway[s] \o ApplyRouting(weight', s) \in Seq(FlowMod)
        /\ pending[s] \o ApplyRouting(weight', s) \in Seq(FlowMod)
  BY <1>2 DEF IInv, TypeOK
<1>4. /\ underway' = [s \in Switches |->
           IF s \in registered THEN underway[s] \o ApplyRouting(weight', s) ELSE underway[s]]
      /\ pending' = [s \in Switches |->
           IF s \in registered THEN pending[s] ELSE pending[s] \o ApplyRouting(weight', s)]
      /\ first' = first /\ registered' = registered /\ table' = table /\ packet' = packet
      /\ updates < MaxUpdates /\ updates' = updates + 1
  BY DEF UpdateRouting, Replace
<1>5. TypeOK'
  <2>1. /\ underway' \in [Switches -> Seq(FlowMod)]
        /\ pending' \in [Switches -> Seq(FlowMod)]
    BY <1>3, <1>4
  <2>2. /\ \A s \in registered : pending'[s] = pending[s]
        /\ \A s \in Switches \ registered : underway'[s] = underway[s]
    BY <1>4 DEF IInv, TypeOK
  <2>3. updates' \in 0 .. MaxUpdates BY <1>4, RoutingAssumption DEF IInv, TypeOK
  <2> QED BY <1>1, <1>4, <2>1, <2>2, <2>3 DEF IInv, TypeOK
<1>6. LastWins'
  <2> SUFFICES ASSUME NEW s \in registered'
               PROVE  Ends(underway'[s], table'[s], weight', s)
    BY Zenon DEF LastWins
  <2>1. s \in registered /\ s \in Switches BY <1>4 DEF IInv, TypeOK
  <2>2. underway'[s] = underway[s] \o ApplyRouting(weight', s) BY <1>4, <2>1
  <2>3. Ends(underway[s] \o ApplyRouting(weight', s), table'[s], weight', s)
    BY <1>1, <1>3, <2>1, RoutesAppended
  <2> QED BY <2>2, <2>3
<1> QED BY <1>5, <1>6 DEF IInv

LEMMA FlowModStep ==
  ASSUME IInv, NEW s \in Switches, HandleFlowMod(s)
  PROVE  IInv'
<1> DEFINE q == underway[s]
           t == table[s]
           u == [t EXCEPT ![Head(q).host] = Head(q).output]
<1>1. /\ q \in Seq(FlowMod) /\ q # << >> /\ t \in [Hosts -> Nodes \cup {NoRoute}]
  BY DEF IInv, TypeOK, HandleFlowMod
<1>2. s \in registered BY <1>1 DEF IInv, TypeOK
<1>3. Ends(Tail(q), u, weight, s)
  BY <1>1, <1>2, FlowModHandled DEF IInv, LastWins
<1>4. /\ table' = [table EXCEPT ![s] = u] /\ underway' = [underway EXCEPT ![s] = Tail(q)]
      /\ UNCHANGED <<weight, first, registered, pending, packet, updates>>
  BY DEF HandleFlowMod, IInv, TypeOK
<1>5. Tail(q) \in Seq(FlowMod) /\ u \in [Hosts -> Nodes \cup {NoRoute}]
  <2>1. Head(q) \in FlowMod BY <1>1
  <2>2. Head(q).host \in Hosts /\ Head(q).output \in Nodes BY <2>1 DEF FlowMod
  <2> QED BY <1>1, <2>2
<1> HIDE DEF q, t, u
<1>6. TypeOK' BY <1>2, <1>4, <1>5 DEF IInv, TypeOK
<1>7. LastWins'
  <2> SUFFICES ASSUME NEW k \in registered
               PROVE  Ends(underway'[k], table'[k], weight, k)
    BY <1>4 DEF LastWins
  <2>1. k \in Switches BY DEF IInv, TypeOK
  <2>2. CASE k = s
    <3>1. underway'[k] = Tail(q) /\ table'[k] = u BY <1>4, <2>2 DEF IInv, TypeOK
    <3> QED BY <1>3, <2>2, <3>1
  <2>3. CASE k # s
    <3>1. underway'[k] = underway[k] /\ table'[k] = table[k]
      BY <1>4, <2>1, <2>3 DEF IInv, TypeOK
    <3> QED BY <3>1 DEF IInv, LastWins
  <2> QED BY <2>2, <2>3
<1> QED BY <1>6, <1>7 DEF IInv

\* The packet has no part in the invariant but its type.
LEMMA PacketStep ==
  ASSUME IInv, HostSends \/ Forward
  PROVE  IInv'
<1>1. UNCHANGED <<weight, first, registered, pending, underway, table, updates>>
  BY DEF HostSends, Forward
<1>2. packet' \in Packet \cup {NoPacket}
  <2>1. CASE HostSends BY <2>1 DEF HostSends, Packet
  <2>2. CASE Forward
    <3>1. packet \in Packet BY <2>2 DEF Forward, IInv, TypeOK
    <3> QED BY <2>2, <3>1 DEF Forward, Packet
  <2> QED BY <2>1, <2>2
<1>3. TypeOK' BY <1>1, <1>2 DEF IInv, TypeOK
<1>4. LastWins' BY <1>1 DEF IInv, LastWins
<1> QED BY <1>3, <1>4 DEF IInv

LEMMA NextInv == IInv /\ [Next]_vars => IInv'
<1> SUFFICES ASSUME IInv, [Next]_vars PROVE IInv' OBVIOUS
<1>1. CASE \E s \in Switches : HandshakeSuccessful(s) BY <1>1, HandshakeStep
<1>2. CASE \E s \in Switches : HandleFlowMod(s) BY <1>2, FlowModStep
<1>3. CASE UpdateRouting BY <1>3, UpdateStep
<1>4. CASE HostSends \/ Forward BY <1>4, PacketStep
<1>5. CASE UNCHANGED vars BY <1>5 DEF vars, IInv, TypeOK, LastWins
<1> QED BY <1>1, <1>2, <1>3, <1>4, <1>5 DEF Next

\* Where nothing is under way, the table has the route.
LEMMA InvImplies == IInv => RoutesAreCurrent
BY DEF IInv, TypeOK, LastWins, Ends, RoutesAreCurrent

\* The controller's books and the tables keep their types; commands wait for a
\* switch only until its handshake, and none is sent before it.
THEOREM TypeCorrect == Spec => []TypeOK
<1>1. IInv => TypeOK BY DEF IInv
<1> QED BY <1>1, InitInv, NextInv, PTL DEF Spec

\* A registered switch that all flow-mods have reached routes by the weights that
\* hold now, on any graph.
THEOREM RoutesCatchUp == Spec => []RoutesAreCurrent
BY InitInv, NextInv, InvImplies, PTL DEF Spec
==============================================================================
