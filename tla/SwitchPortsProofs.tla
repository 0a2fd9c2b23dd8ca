-------------------------- MODULE SwitchPortsProofs --------------------------
(* Theorems about what SwitchPorts knows of its links and tells of its      *)
(* ports, and about the frames that its ports queue and transmit, for any   *)
(* number of ports, queues, controllers, frames and changes.                *)
EXTENDS SwitchPorts, SequenceTheorems, WellFoundedInduction, TLAPS

\* What does not concern frames.
StatusType ==
  /\ up \in [Ports -> BOOLEAN] /\ changed \subseteq Ports
  /\ portDown \in [Ports -> BOOLEAN]
  /\ linkDown \in [Ports -> BOOLEAN] /\ live \in [Ports -> BOOLEAN]
  /\ connected \subseteq Controllers
  /\ role \in [Controllers -> Roles] /\ mask \in [Controllers -> Mask]
  /\ told \in [Controllers -> [Ports -> SUBSET PortDesc]]
  /\ missed \in [Controllers -> SUBSET Ports]

\* A link state is wrong only if the link changed since the switch last looked.
StateIsAPeriodOld == \A p \in Ports \ changed : linkDown[p] = ~up[p]

IInv == StatusType /\ NoChangeGoesUntold /\ StateIsAPeriodOld

\* Frames pass without a part in it.
StatusUnchanged ==
  UNCHANGED <<up, portDown, linkDown, live, connected, role, mask, told, missed, changed>>

LEMMA InitInv == Init => IInv
<1> SUFFICES ASSUME Init PROVE StatusType /\ NoChangeGoesUntold /\ StateIsAPeriodOld
  BY DEF IInv
<1>1. role \in [Controllers -> Roles] /\ mask \in [Controllers -> Mask]
  BY DEF Init, Roles, Mask
<1>2. /\ told \in [Controllers -> [Ports -> SUBSET PortDesc]]
      /\ missed \in [Controllers -> SUBSET Ports]
  BY DEF Init
<1>3. StatusType BY <1>1, <1>2 DEF Init, StatusType
<1>4. NoChangeGoesUntold BY DEF Init, NoChangeGoesUntold
<1> QED BY <1>3, <1>4 DEF Init, StateIsAPeriodOld

LEMMA FrameStep ==
  ASSUME IInv, StatusUnchanged
  PROVE  IInv'
BY DEF IInv, StatusType, NoChangeGoesUntold, StateIsAPeriodOld, StatusUnchanged, Desc

LEMMA SetLinkStep ==
  ASSUME IInv, NEW p \in Ports, SetLink(p)
  PROVE  IInv'
<1>1. /\ up' = [up EXCEPT ![p] = ~@] /\ changed' = changed \cup {p}
      /\ UNCHANGED <<portDown, linkDown, live, connected, role, mask, told, missed>>
  BY DEF SetLink, status, remote
<1>2. StatusType' BY <1>1 DEF IInv, StatusType
<1>3. NoChangeGoesUntold' BY <1>1 DEF IInv, NoChangeGoesUntold, Desc
<1>4. StateIsAPeriodOld' BY <1>1 DEF IInv, StatusType, StateIsAPeriodOld
<1> QED BY <1>2, <1>3, <1>4 DEF IInv

\* The description of a port is of its type.
LEMMA DescType ==
  ASSUME StatusType, NEW p \in Ports
  PROVE  Desc(p) \in PortDesc
BY DEF StatusType, Desc, PortDesc

\* A port status about each port that changed leaves nothing untold but what masks
\* keep back.
LEMMA StatusTells ==
  ASSUME IInv, NEW ps \in SUBSET Ports, SendStatus(ps),
         \A p \in Ports \ ps : Desc(p)' = Desc(p)
  PROVE  NoChangeGoesUntold'
<1> SUFFICES ASSUME NEW c \in Controllers, NEW p \in Ports, p \notin missed'[c]
             PROVE  told'[c][p] \subseteq {Desc(p)'}
  BY DEF NoChangeGoesUntold
<1>1. /\ told'[c][p] = IF Hears(c) /\ p \in ps THEN {Desc(p)'} ELSE told[c][p]
      /\ missed'[c] = IF Hears(c) THEN missed[c] \ ps
                      ELSE missed[c] \cup {k \in Ports : Desc(k)' # Desc(k)}
  BY DEF SendStatus
<1>2. p \notin missed[c] => told[c][p] \subseteq {Desc(p)}
  BY DEF IInv, NoChangeGoesUntold
<1>3. CASE Hears(c) /\ p \in ps BY <1>1, <1>3
<1>4. CASE Hears(c) /\ p \notin ps
  <2>1. p \notin missed[c] /\ Desc(p)' = Desc(p) BY <1>1, <1>4
  <2> QED BY <1>1, <1>2, <1>4, <2>1
<1>5. CASE ~Hears(c)
  <2>1. p \notin missed[c] /\ Desc(p)' = Desc(p) BY <1>1, <1>5
  <2> QED BY <1>1, <1>2, <1>5, <2>1
<1> QED BY <1>3, <1>4, <1>5

\* What controllers are told and miss has its type.
LEMMA ToldType ==
  ASSUME IInv, NEW ps \in SUBSET Ports, SendStatus(ps),
         \A p \in Ports : Desc(p)' \in PortDesc
  PROVE  /\ told' \in [Controllers -> [Ports -> SUBSET PortDesc]]
         /\ missed' \in [Controllers -> SUBSET Ports]
<1>1. \A c \in Controllers, p \in Ports : told'[c][p] \in SUBSET PortDesc
  BY DEF IInv, StatusType, SendStatus
<1>2. told' \in [Controllers -> [Ports -> SUBSET PortDesc]]
  BY <1>1 DEF SendStatus
<1>3. \A c \in Controllers : missed'[c] \in SUBSET Ports
  BY DEF IInv, StatusType, SendStatus
<1> QED BY <1>2, <1>3 DEF SendStatus

LEMMA PollStep ==
  ASSUME IInv, PortUpdateStates
  PROVE  IInv'
<1> DEFINE ps == {p \in Ports : Differs(p)}
<1>1. /\ portDown' = portDown /\ linkDown' = [p \in Ports |-> ~up[p]]
      /\ live' = [p \in Ports |-> ~linkDown'[p] /\ ~portDown'[p]]
      /\ changed' = {} /\ UNCHANGED <<up, connected, role, mask>>
  BY DEF PortUpdateStates, LiveUpdate
<1>2. SendStatus(ps) BY DEF PortUpdateStates
<1>3. /\ portDown' \in [Ports -> BOOLEAN] /\ linkDown' \in [Ports -> BOOLEAN]
      /\ live' \in [Ports -> BOOLEAN]
  BY <1>1 DEF IInv, StatusType
<1>4. \A p \in Ports : Desc(p)' \in PortDesc
  BY <1>3 DEF Desc, PortDesc
<1>5. \A p \in Ports \ ps : Desc(p)' = Desc(p)
  BY <1>1 DEF Differs, Desc
<1>6. ps \in SUBSET Ports OBVIOUS
<1> HIDE DEF ps
<1>7. /\ told' \in [Controllers -> [Ports -> SUBSET PortDesc]]
      /\ missed' \in [Controllers -> SUBSET Ports]
  BY <1>2, <1>4, <1>6, ToldType
<1>8. NoChangeGoesUntold' BY <1>2, <1>5, <1>6, StatusTells
<1>9. StatusType' BY <1>1, <1>3, <1>7 DEF IInv, StatusType
<1>10. StateIsAPeriodOld' BY <1>1 DEF StateIsAPeriodOld
<1> QED BY <1>8, <1>9, <1>10 DEF IInv

LEMMA PortModStep ==
  ASSUME IInv, NEW k \in Ports, NEW b \in BOOLEAN, PortMod(k, b)
  PROVE  IInv'
<1>1. /\ portDown' = [portDown EXCEPT ![k] = b] /\ linkDown' = linkDown
      /\ live' = [p \in Ports |->
                    IF p \in {k} THEN ~linkDown'[p] /\ ~portDown'[p] ELSE live[p]]
      /\ UNCHANGED <<up, connected, role, mask, changed>>
  BY DEF PortMod, LiveUpdate
<1>2. SendStatus({k}) BY DEF PortMod
<1>3. /\ portDown' \in [Ports -> BOOLEAN] /\ linkDown' \in [Ports -> BOOLEAN]
      /\ live' \in [Ports -> BOOLEAN]
  BY <1>1 DEF IInv, StatusType
<1>4. \A p \in Ports : Desc(p)' \in PortDesc
  BY <1>3 DEF Desc, PortDesc
<1>5. \A p \in Ports \ {k} : Desc(p)' = Desc(p)
  BY <1>1 DEF IInv, StatusType, Desc
<1>6. /\ told' \in [Controllers -> [Ports -> SUBSET PortDesc]]
      /\ missed' \in [Controllers -> SUBSET Ports]
  BY <1>2, <1>4, ToldType
<1>7. NoChangeGoesUntold' BY <1>2, <1>5, StatusTells
<1>8. StatusType' BY <1>1, <1>3, <1>6 DEF IInv, StatusType
<1>9. StateIsAPeriodOld' BY <1>1 DEF IInv, StateIsAPeriodOld
<1> QED BY <1>7, <1>8, <1>9 DEF IInv

\* Connections, roles and masks tell nothing.
LEMMA RemoteStep ==
  ASSUME IInv, NEW c \in Controllers,
         \/ Connect(c)
         \/ \E r \in Roles : RoleRequest(c, r)
         \/ \E m \in Mask : SetAsync(c, m)
  PROVE  IInv'
<1>1. UNCHANGED <<up, portDown, linkDown, live, told, missed, changed>>
  BY DEF Connect, RoleRequest, SetAsync, status
<1>2. connected' \subseteq Controllers
  BY DEF Connect, RoleRequest, SetAsync, IInv, StatusType
<1>3. role' \in [Controllers -> Roles]
  BY DEF Connect, RoleRequest, SetAsync, IInv, StatusType, Roles
<1>4. mask' \in [Controllers -> Mask]
  BY DEF Connect, RoleRequest, SetAsync, IInv, StatusType
<1>5. StatusType' BY <1>1, <1>2, <1>3, <1>4 DEF IInv, StatusType
<1>6. NoChangeGoesUntold' /\ StateIsAPeriodOld'
  BY <1>1 DEF IInv, NoChangeGoesUntold, StateIsAPeriodOld, Desc
<1> QED BY <1>5, <1>6 DEF IInv

\* A reply tells of every port.
LEMMA PortDescStep ==
  ASSUME IInv, NEW c \in Controllers, PortDescRequest(c)
  PROVE  IInv'
<1>1. /\ told' = [told EXCEPT ![c] = [p \in Ports |-> {Desc(p)}]]
      /\ missed' = [missed EXCEPT ![c] = {}]
      /\ UNCHANGED <<up, portDown, linkDown, live, connected, role, mask, changed>>
  BY DEF PortDescRequest, status
<1>2. \A p \in Ports : Desc(p)' = Desc(p) BY <1>1 DEF Desc
<1>3. StatusType' BY <1>1, DescType DEF IInv, StatusType
<1>4. NoChangeGoesUntold'
  <2> SUFFICES ASSUME NEW d \in Controllers, NEW p \in Ports, p \notin missed'[d]
               PROVE  told'[d][p] \subseteq {Desc(p)'}
    BY DEF NoChangeGoesUntold
  <2>1. CASE d = c BY <1>1, <1>2, <2>1 DEF IInv, StatusType
  <2>2. CASE d # c BY <1>1, <1>2, <2>2 DEF IInv, StatusType, NoChangeGoesUntold
  <2> QED BY <2>1, <2>2
<1>5. StateIsAPeriodOld' BY <1>1 DEF IInv, StateIsAPeriodOld
<1> QED BY <1>3, <1>4, <1>5 DEF IInv

LEMMA NextInv == IInv /\ [Next]_vars => IInv'
<1> SUFFICES ASSUME IInv, [Next]_vars PROVE IInv' OBVIOUS
<1>1. ASSUME NEW p, NEW q, Send(p, q) PROVE IInv'
  BY <1>1, FrameStep DEF Send, StatusUnchanged, status, remote
<1>2. CASE \E p \in Ports, q \in Queues : Send(p, q) BY <1>1, <1>2
<1>3. CASE \E q \in Queues : Failover(q) BY <1>1, <1>3 DEF Failover
<1>4. CASE \E p \in Ports : TransmitComplete(p)
  <2>1. StatusUnchanged BY <1>4 DEF TransmitComplete, StatusUnchanged, status, remote
  <2> QED BY <2>1, FrameStep
<1>5. CASE \E p \in Ports : Receive(p)
  <2>1. StatusUnchanged BY <1>5 DEF Receive, StatusUnchanged, status, remote
  <2> QED BY <2>1, FrameStep
<1>6. CASE \E p \in Ports : SetLink(p) BY <1>6, SetLinkStep
<1>7. CASE PortUpdateStates BY <1>7, PollStep
<1>8. CASE \E p \in Ports, b \in BOOLEAN : PortMod(p, b) BY <1>8, PortModStep
<1>9. CASE \E c \in Controllers : \/ Connect(c)
                                  \/ \E r \in Roles : RoleRequest(c, r)
                                  \/ \E m \in Mask : SetAsync(c, m)
  BY <1>9, RemoteStep
<1>11. CASE \E c \in Controllers : PortDescRequest(c) BY <1>11, PortDescStep
<1>10. CASE UNCHANGED vars
  <2>1. StatusUnchanged BY <1>10 DEF vars, status, remote, StatusUnchanged
  <2> QED BY <2>1, FrameStep
<1> QED BY <1>2, <1>3, <1>4, <1>5, <1>6, <1>7, <1>8, <1>9, <1>10, <1>11 DEF Next

\* What controllers were told of ports is current, however polls, port modifications,
\* roles and masks interleave; only a change that the mask of a controller's role
\* kept from it may have passed since (ofswitch13-port.cc:221, dp_ports.c:774,
\* datapath.c:496).
THEOREM NothingGoesUntold == Spec => []NoChangeGoesUntold
<1>1. IInv => NoChangeGoesUntold BY DEF IInv
<1> QED BY <1>1, InitInv, NextInv, PTL DEF Spec

\* Fast failover passes over a port that works, or chooses one that does not, only
\* in the period in which its link changed (group_entry.c:394).
THEOREM FailoverCatchesUp == Spec => []FailoverIsAPeriodBehind
<1>1. IInv => FailoverIsAPeriodBehind
  BY DEF IInv, StatusType, StateIsAPeriodOld, FailoverIsAPeriodBehind, BucketIsAlive
<1> QED BY <1>1, InitInv, NextInv, PTL DEF Spec
------------------------------------------------------------------------------
(* Frames.  They are numbered as the pipeline outputs them, and every list has *)
(* those of a queue in the order of their numbers; so what is in which place   *)
(* follows from who has which frames.                                          *)

Rising(l) == \A i, j \in DOMAIN l : i < j => l[i].n < l[j].n

\* Internal queue k has the frames of queue q in the port's own list.
Held(k, list, q) == Rising(k) /\ ToSet(k) = {f \in ToSet(list) : f.queue = q}

\* Of the frames t that the device took for queue q, those that have not arrived,
\* the ones behind a, are on the wire w or in the internal queue k, and those on
\* the wire are older.
Line(k, w, t, a, q, m) ==
  /\ Rising(t) /\ Len(a) <= Len(t)
  /\ \A f \in ToSet(t) : f.n \in 1 .. m
  /\ {t[i] : i \in Len(a) + 1 .. Len(t)} = {f \in ToSet(w) : f.queue = q} \cup ToSet(k)
  /\ \A i, j \in DOMAIN w : i < j /\ w[i].queue = q /\ w[j].queue = q => w[i].n < w[j].n
  /\ \A f \in ToSet(w), g \in ToSet(k) : f.queue = q => f.n < g.n

\* A port after m outputs: its internal queues qs, its list, the wire, and what
\* was taken and arrived per queue.
PortInv(qs, list, w, tk, ar, m) ==
  /\ qs \in [Queues -> Seq(Frame)] /\ list \in Seq(Frame) /\ w \in Seq(Frame)
  /\ tk \in [Queues -> Seq(Frame)] /\ ar \in [Queues -> Seq(Frame)]
  /\ Rising(list)
  /\ \A q \in Queues : Held(qs[q], list, q) /\ Line(qs[q], w, tk[q], ar[q], q, m)

FrameTypes ==
  /\ queue \in [Ports -> [Queues -> Seq(Frame)]] /\ frames \in [Ports -> Seq(Frame)]
  /\ current \in [Ports -> Frame \cup {NoFrame}]
  /\ wire \in [Ports -> Seq(Frame)]
  /\ taken \in [Ports -> [Queues -> Seq(Frame)]] /\ arrived \in [Ports -> [Queues -> Seq(Frame)]]
  /\ outputs \in 0 .. MaxFrames

FrameInv ==
  /\ FrameTypes
  /\ \A p \in Ports :
       /\ PortInv(queue[p], frames[p], wire[p], taken[p], arrived[p], outputs)
       /\ \A q \in Queues : Len(queue[p][q]) <= QueueSize
       /\ current[p] = NoFrame => frames[p] = << >>

\* Every set of numbers has a least one.
LEMMA LeastNumber ==
  ASSUME NEW T \in SUBSET Nat, T # {}
  PROVE  Min(T) \in T /\ \A y \in T : Min(T) <= y
<1> DEFINE R == OpToRel(<, Nat)
<1>1. IsWellFoundedOn(R, Nat)
  BY NatLessThanWellFounded
<1>2. PICK x \in T : \A y \in T : ~(<<y, x>> \in R)
  <2> HIDE DEF R
  <2> QED BY <1>1, WFMin
<1>3. \A y \in T : ~(y < x)
  BY <1>2 DEF OpToRel
<1>4. \A y \in T : x <= y
  BY <1>3
<1> QED BY <1>4 DEF Min

\* Frame e behind the others, which are older.
LEMMA AppendFacts ==
  ASSUME NEW l \in Seq(Frame), NEW e \in Frame
  PROVE  /\ Append(l, e) \in Seq(Frame) /\ Len(Append(l, e)) = Len(l) + 1
         /\ \A i \in 1 .. Len(l) : Append(l, e)[i] = l[i]
         /\ Append(l, e)[Len(l) + 1] = e
         /\ ToSet(Append(l, e)) = ToSet(l) \cup {e}
         /\ Rising(l) /\ (\A f \in ToSet(l) : f.n < e.n) => Rising(Append(l, e))
<1> DEFINE w == Append(l, e)
<1>1. /\ Len(l) \in Nat /\ DOMAIN l = 1 .. Len(l) /\ w \in Seq(Frame) /\ Len(w) = Len(l) + 1
      /\ DOMAIN w = 1 .. Len(l) + 1
      /\ \A i \in 1 .. Len(l) : w[i] = l[i]
      /\ w[Len(l) + 1] = e
  OBVIOUS
<1> HIDE DEF w
<1>2. \A i \in 1 .. Len(l) + 1 : i \in 1 .. Len(l) \/ i = Len(l) + 1
  BY <1>1
<1>3. ToSet(w) = ToSet(l) \cup {e}
  <2>1. Len(l) + 1 \in DOMAIN w /\ \A i \in DOMAIN l : i \in DOMAIN w
    BY <1>1
  <2> QED BY <1>1, <1>2, <2>1 DEF ToSet
<1>4. ASSUME Rising(l), \A f \in ToSet(l) : f.n < e.n PROVE Rising(w)
  <2> SUFFICES ASSUME NEW i \in 1 .. Len(l) + 1, NEW j \in 1 .. Len(l) + 1, i < j
               PROVE  w[i].n < w[j].n
    BY <1>1 DEF Rising
  <2>1. i \in 1 .. Len(l) /\ w[i] = l[i] /\ l[i] \in ToSet(l)
    BY <1>1 DEF ToSet
  <2>2. CASE j = Len(l) + 1
    BY <1>1, <1>4, <2>1, <2>2
  <2>3. CASE j \in 1 .. Len(l)
    BY <1>1, <1>4, <2>1, <2>3 DEF Rising
  <2> QED BY <1>2, <2>2, <2>3
<1> QED BY <1>1, <1>3, <1>4 DEF w

\* The list without the frame at its head.
LEMMA TailFacts ==
  ASSUME NEW l \in Seq(Frame), l # << >>
  PROVE  /\ Head(l) \in Frame /\ Head(l) \in ToSet(l) /\ Head(l) = l[1] /\ 1 \in DOMAIN l
         /\ Tail(l) \in Seq(Frame) /\ Len(Tail(l)) = Len(l) - 1
         /\ \A i \in 1 .. Len(l) - 1 : Tail(l)[i] = l[i + 1]
         /\ Rising(l) =>
              /\ Rising(Tail(l)) /\ ToSet(Tail(l)) = ToSet(l) \ {Head(l)}
              /\ \A g \in ToSet(Tail(l)) : Head(l).n < g.n
<1> DEFINE h == Head(l)
           r == Tail(l)
<1>1. /\ Len(l) \in Nat /\ Len(l) >= 1 /\ DOMAIN l = 1 .. Len(l)
      /\ h = l[1] /\ r \in Seq(Frame) /\ Len(r) = Len(l) - 1 /\ DOMAIN r = 1 .. Len(l) - 1
      /\ \A i \in 1 .. Len(l) - 1 : r[i] = l[i + 1]
      /\ \A i \in 1 .. Len(l) : l[i] \in Frame
  OBVIOUS
<1> HIDE DEF h, r
<1>2. 1 \in 1 .. Len(l) /\ \A i \in 1 .. Len(l) - 1 : i + 1 \in 1 .. Len(l) /\ 1 < i + 1
  BY <1>1
<1>3. h \in Frame /\ h \in ToSet(l)
  BY <1>1, <1>2 DEF ToSet
<1>4. ASSUME Rising(l) PROVE \A i \in 1 .. Len(l) - 1 : h.n < r[i].n
  BY <1>1, <1>2, <1>4 DEF Rising
<1>5. ASSUME Rising(l) PROVE Rising(r)
  <2>1. ASSUME NEW i \in 1 .. Len(l) - 1, NEW j \in 1 .. Len(l) - 1, i < j PROVE r[i].n < r[j].n
    <3>1. /\ i + 1 \in 1 .. Len(l) /\ j + 1 \in 1 .. Len(l) /\ i + 1 < j + 1
          /\ r[i] = l[i + 1] /\ r[j] = l[j + 1]
      BY <1>1, <1>2, <2>1
    <3>2. l[i + 1].n < l[j + 1].n
      BY <1>1, <1>5, <3>1 DEF Rising
    <3> QED BY <3>1, <3>2
  <2> QED BY <1>1, <2>1 DEF Rising
<1>6. ASSUME Rising(l) PROVE ToSet(r) = ToSet(l) \ {h}
  <2>1. h.n \in Nat
    BY <1>3 DEF Frame
  <2>2. \A i \in 1 .. Len(l) - 1 : r[i] # h
    BY <1>4, <1>6, <2>1
  <2>3. ASSUME NEW i \in 1 .. Len(l), l[i] # h PROVE l[i] \in ToSet(r)
    <3>1. i - 1 \in 1 .. Len(l) - 1 /\ (i - 1) + 1 = i
      BY <1>1, <2>3
    <3>2. r[i - 1] = l[i]
      BY <1>1, <3>1
    <3> QED BY <1>1, <3>1, <3>2 DEF ToSet
  <2>4. ToSet(r) = {r[i] : i \in 1 .. Len(l) - 1}
    BY <1>1 DEF ToSet
  <2>5. ToSet(l) = {l[i] : i \in 1 .. Len(l)}
    BY <1>1 DEF ToSet
  <2>6. \A i \in 1 .. Len(l) - 1 : r[i] \in ToSet(l)
    BY <1>1, <1>2, <2>5
  <2> QED BY <2>2, <2>3, <2>4, <2>5, <2>6
<1>7. ASSUME Rising(l) PROVE \A g \in ToSet(r) : h.n < g.n
  BY <1>1, <1>4, <1>7 DEF ToSet
<1> QED BY <1>1, <1>2, <1>3, <1>5, <1>6, <1>7 DEF h, r

\* NotifyDequeue finds the frame and takes it out.
LEMMA RemoveFacts ==
  ASSUME NEW l \in Seq(Frame), Rising(l), NEW f \in ToSet(l)
  PROVE  /\ NotifyDequeue(l, f) \in Seq(Frame)
         /\ Rising(NotifyDequeue(l, f))
         /\ ToSet(NotifyDequeue(l, f)) = ToSet(l) \ {f}
<1> DEFINE c == FirstPlace(l, {f})
           w == NotifyDequeue(l, f)
           front == SubSeq(l, 1, c - 1)
           back == SubSeq(l, c + 1, Len(l))
<1>1. /\ Len(l) \in Nat /\ DOMAIN l = 1 .. Len(l)
      /\ \A i \in 1 .. Len(l) : l[i] \in Frame /\ l[i].n \in Nat
  <2>1. /\ Len(l) \in Nat /\ DOMAIN l = 1 .. Len(l)
        /\ \A i \in 1 .. Len(l) : l[i] \in Frame
    OBVIOUS
  <2>2. \A g \in Frame : g.n \in Nat
    BY DEF Frame
  <2> QED BY <2>1, <2>2
<1>2. PICK i \in 1 .. Len(l) : l[i] = f
  BY <1>1 DEF ToSet
<1>3. \A j, k \in 1 .. Len(l) : l[j] = l[k] => j = k
  <2> SUFFICES ASSUME NEW j \in 1 .. Len(l), NEW k \in 1 .. Len(l), l[j] = l[k], j # k
               PROVE  FALSE
    OBVIOUS
  <2>1. l[j].n \in Nat /\ l[k].n = l[j].n /\ (j < k \/ k < j)
    BY <1>1
  <2> QED BY <1>1, <2>1 DEF Rising
<1>4. c \in 1 .. Len(l) /\ l[c] = f
  <2> DEFINE P(j) == /\ j <= Len(l) => l[j] \in {f}
                     /\ \A k \in 1 .. j - 1 : l[k] \notin {f}
  <2>1. i \in 1 .. Len(l) + 1 /\ i <= Len(l) /\ \A k \in 1 .. i - 1 : k \in 1 .. Len(l) /\ k # i
    BY <1>1
  <2>2. P(i)
    BY <1>2, <1>3, <2>1
  <2>3. c \in 1 .. Len(l) + 1 /\ P(c)
    <3>1. c = CHOOSE j \in 1 .. Len(l) + 1 : P(j)
      BY DEF FirstPlace
    <3> HIDE DEF P, c
    <3> QED BY <2>1, <2>2, <3>1
  <2>4. c # Len(l) + 1
    <3>1. ASSUME c = Len(l) + 1 PROVE FALSE
      <4>1. i \in 1 .. c - 1
        BY <1>1, <3>1
      <4> QED BY <1>2, <2>3, <4>1
    <3> QED BY <3>1
  <2> HIDE DEF c
  <2> QED BY <1>1, <2>3, <2>4
<1>5. w = front \o back
  BY DEF NotifyDequeue, RemoveAt
<1> HIDE DEF c
<1>6. /\ front \in Seq(Frame) /\ Len(front) = c - 1
      /\ \A j \in 1 .. c - 1 : front[j] = l[j]
      /\ back \in Seq(Frame) /\ Len(back) = Len(l) - c
      /\ \A j \in 1 .. Len(l) - c : back[j] = l[c + j]
  <2>1. c \in Nat /\ c - 1 \in Nat /\ c >= 1 /\ c <= Len(l)
    BY <1>1, <1>4
  <2>2. /\ front \in Seq(Frame) /\ Len(front) = c - 1
        /\ \A j \in 1 .. c - 1 : front[j] = l[j]
    BY <1>1, <2>1
  <2>3. c + 1 \in Int /\ Len(l) \in Int /\ \A j \in c + 1 .. Len(l) : l[j] \in Frame
    BY <1>1, <2>1
  <2>4. /\ back \in Seq(Frame)
        /\ Len(back) = IF c + 1 <= Len(l) THEN Len(l) - (c + 1) + 1 ELSE 0
        /\ \A j \in 1 .. Len(l) - (c + 1) + 1 : back[j] = l[c + 1 + j - 1]
    BY <2>3, SubSeqProperties
  <2> HIDE DEF front, back
  <2>5. Len(back) = Len(l) - c
    <3>1. \A n, d \in Nat :
            d <= n => (IF d + 1 <= n THEN n - (d + 1) + 1 ELSE 0) = n - d
      OBVIOUS
    <3>2. Len(l) \in Nat /\ c \in Nat /\ c <= Len(l)
      BY <1>1, <2>1
    <3>3. (IF c + 1 <= Len(l) THEN Len(l) - (c + 1) + 1 ELSE 0) = Len(l) - c
      BY <3>1, <3>2
    <3> QED BY <2>4, <3>3
  <2>6. ASSUME NEW j \in 1 .. Len(l) - c PROVE back[j] = l[c + j]
    <3>1. j \in 1 .. Len(l) - (c + 1) + 1 /\ c + 1 + j - 1 = c + j
      BY <1>1, <2>1
    <3>2. back[j] = l[c + 1 + j - 1]
      BY <2>4, <3>1
    <3> QED BY <3>1, <3>2
  <2> QED BY <2>2, <2>4, <2>5, <2>6
<1> HIDE DEF front, back, w
<1>7. /\ w \in Seq(Frame) /\ Len(w) = Len(l) - 1
      /\ \A j \in 1 .. Len(l) - 1 : w[j] = IF j < c THEN l[j] ELSE l[j + 1]
  <2>1. /\ w \in Seq(Frame) /\ Len(w) = Len(front) + Len(back)
        /\ \A j \in 1 .. Len(front) + Len(back) :
             w[j] = IF j <= Len(front) THEN front[j] ELSE back[j - Len(front)]
    BY <1>5, <1>6, ConcatProperties
  <2>2. Len(w) = Len(l) - 1
    BY <1>1, <1>4, <1>6, <2>1
  <2>3. ASSUME NEW j \in 1 .. Len(l) - 1, j < c PROVE w[j] = l[j]
    BY <1>1, <1>4, <1>6, <2>1, <2>3
  <2>4. ASSUME NEW j \in 1 .. Len(l) - 1, ~(j < c) PROVE w[j] = l[j + 1]
    <3>1. j - (c - 1) \in 1 .. Len(l) - c /\ c + (j - (c - 1)) = j + 1 /\ ~(j <= c - 1)
      BY <1>1, <1>4, <2>4
    <3>2. j \in 1 .. Len(front) + Len(back) /\ Len(front) = c - 1
      BY <1>1, <1>4, <1>6
    <3>3. w[j] = IF j <= Len(front) THEN front[j] ELSE back[j - Len(front)]
      BY <2>1, <3>2
    <3>4. w[j] = back[j - (c - 1)]
      BY <3>1, <3>2, <3>3
    <3> QED BY <1>6, <3>1, <3>4
  <2> QED BY <2>1, <2>2, <2>3, <2>4
<1> DEFINE At(j) == IF j < c THEN j ELSE j + 1
<1>8. \A j \in 1 .. Len(l) - 1 : At(j) \in 1 .. Len(l) /\ At(j) # c /\ w[j] = l[At(j)]
  BY <1>1, <1>4, <1>7
<1>9. \A j, k \in 1 .. Len(l) - 1 : j < k => At(j) < At(k)
  BY <1>1, <1>4
<1>10. \A k \in 1 .. Len(l) : k # c => \E j \in 1 .. Len(l) - 1 : k = At(j)
  <2> SUFFICES ASSUME NEW k \in 1 .. Len(l), k # c PROVE \E j \in 1 .. Len(l) - 1 : k = At(j)
    OBVIOUS
  <2>1. CASE k < c
    <3>1. k \in 1 .. Len(l) - 1 /\ k = At(k)
      BY <1>1, <1>4, <2>1
    <3> QED BY <3>1
  <2>2. CASE k > c
    <3>1. k - 1 \in 1 .. Len(l) - 1 /\ k = At(k - 1)
      BY <1>1, <1>4, <2>2
    <3> QED BY <3>1
  <2> QED BY <1>4, <2>1, <2>2
<1> HIDE DEF At
<1>11. DOMAIN w = 1 .. Len(l) - 1
  BY <1>7
<1>12. Rising(w)
  BY <1>1, <1>8, <1>9, <1>11 DEF Rising
<1>13. ToSet(w) = ToSet(l) \ {f}
  <2>1. ASSUME NEW j \in 1 .. Len(l) - 1 PROVE w[j] \in ToSet(l) /\ w[j] # f
    BY <1>1, <1>3, <1>4, <1>8 DEF ToSet
  <2>2. ASSUME NEW k \in 1 .. Len(l), l[k] # f PROVE l[k] \in ToSet(w)
    <3>1. PICK j \in 1 .. Len(l) - 1 : k = At(j)
      BY <1>4, <1>10, <2>2
    <3> QED BY <1>8, <1>11, <3>1 DEF ToSet
  <2>3. ToSet(w) = {w[j] : j \in 1 .. Len(l) - 1}
    BY <1>11 DEF ToSet
  <2>4. ToSet(l) = {l[j] : j \in 1 .. Len(l)}
    BY <1>1 DEF ToSet
  <2> QED BY <2>1, <2>2, <2>3, <2>4
<1> QED BY <1>7, <1>12, <1>13 DEF w
------------------------------------------------------------------------------
(* What happens to the frames of one port *)

\* More outputs of other ports.
LEMMA Older ==
  ASSUME NEW qs, NEW list, NEW w, NEW tk, NEW ar, NEW m \in Nat, NEW n \in Nat, m <= n,
         PortInv(qs, list, w, tk, ar, m)
  PROVE  PortInv(qs, list, w, tk, ar, n)
<1>1. \A i \in 1 .. m : i \in 1 .. n
  OBVIOUS
<1>2. \A q \in Queues : Line(qs[q], w, tk[q], ar[q], q, m) => Line(qs[q], w, tk[q], ar[q], q, n)
  BY <1>1 DEF Line
<1> QED BY <1>2 DEF PortInv

\* The frames of a queue that are in the port were taken.
LEMMA InPort ==
  ASSUME NEW qs, NEW list, NEW w, NEW tk, NEW ar, NEW m \in Nat,
         PortInv(qs, list, w, tk, ar, m)
  PROVE  /\ \A f \in ToSet(list) : f \in Frame /\ f.n \in 1 .. m /\ f \in ToSet(qs[f.queue])
         /\ \A f \in ToSet(w) : f \in Frame /\ f.n \in 1 .. m
         /\ \A q \in Queues : \A f \in ToSet(qs[q]) :
              f \in Frame /\ f.queue = q /\ f \in ToSet(list) /\ f.n \in 1 .. m
<1>1. \A q \in Queues : \A f \in ToSet(qs[q]) : f.queue = q /\ f \in ToSet(list)
  BY DEF PortInv, Held
<1>2. \A f \in ToSet(list) \cup ToSet(w) : f \in Frame /\ f.queue \in Queues
  <2>1. \A f \in ToSet(list) : f \in Frame
    BY DEF PortInv, ToSet
  <2>2. \A f \in ToSet(w) : f \in Frame
    BY DEF PortInv, ToSet
  <2> QED BY <2>1, <2>2 DEF Frame
<1>3. \A f \in ToSet(list) : f \in ToSet(qs[f.queue])
  BY <1>2 DEF PortInv, Held
<1>4. ASSUME NEW q \in Queues, NEW f,
             f \in ToSet(qs[q]) \/ (f \in ToSet(w) /\ f.queue = q)
      PROVE  f.n \in 1 .. m
  <2> DEFINE t == tk[q]
             a == ar[q]
  <2>1. Line(qs[q], w, t, a, q, m)
    BY DEF PortInv
  <2>2. Len(a) \in Nat /\ Len(t) \in Nat /\ DOMAIN t = 1 .. Len(t)
    BY DEF PortInv
  <2> HIDE DEF t, a
  <2>3. PICK i \in Len(a) + 1 .. Len(t) : f = t[i]
    BY <1>4, <2>1 DEF Line
  <2>4. i \in 1 .. Len(t) /\ f \in ToSet(t)
    BY <2>2, <2>3 DEF ToSet
  <2> QED BY <2>1, <2>4 DEF Line
<1> QED BY <1>1, <1>2, <1>3, <1>4

\* SendFrom puts a new frame into an internal queue and the list.
LEMMA Queued ==
  ASSUME NEW qs, NEW list, NEW w, NEW tk, NEW ar, NEW m \in Nat,
         PortInv(qs, list, w, tk, ar, m),
         NEW f \in Frame, f.n = m + 1
  PROVE  PortInv([qs EXCEPT ![f.queue] = Append(@, f)], Append(list, f), w,
                 [tk EXCEPT ![f.queue] = Append(@, f)], ar, m + 1)
<1> DEFINE r == f.queue
           qs2 == [qs EXCEPT ![r] = Append(@, f)]
           list2 == Append(list, f)
           tk2 == [tk EXCEPT ![r] = Append(@, f)]
<1>1. /\ qs \in [Queues -> Seq(Frame)] /\ list \in Seq(Frame) /\ w \in Seq(Frame)
      /\ tk \in [Queues -> Seq(Frame)] /\ ar \in [Queues -> Seq(Frame)]
      /\ Rising(list) /\ r \in Queues
  BY DEF PortInv, Frame
<1>2. /\ qs2 \in [Queues -> Seq(Frame)] /\ qs2[r] = Append(qs[r], f)
      /\ tk2 \in [Queues -> Seq(Frame)] /\ tk2[r] = Append(tk[r], f)
      /\ \A q \in Queues : q # r => qs2[q] = qs[q] /\ tk2[q] = tk[q]
  BY <1>1
<1>3. \A g \in ToSet(list) : g.n < f.n
  BY InPort
<1>4. list2 \in Seq(Frame) /\ Rising(list2) /\ ToSet(list2) = ToSet(list) \cup {f}
  BY <1>1, <1>3, AppendFacts
<1> HIDE DEF qs2, list2, tk2
<1>5. ASSUME NEW q \in Queues, q # r
      PROVE  Held(qs2[q], list2, q) /\ Line(qs2[q], w, tk2[q], ar[q], q, m + 1)
  <2>1. Held(qs[q], list, q) /\ Line(qs[q], w, tk[q], ar[q], q, m)
    BY DEF PortInv
  <2>2. Held(qs2[q], list2, q)
    BY <1>2, <1>4, <1>5, <2>1 DEF Held
  <2>3. \A i \in 1 .. m : i \in 1 .. m + 1
    OBVIOUS
  <2>4. Line(qs[q], w, tk[q], ar[q], q, m + 1)
    BY <2>1, <2>3 DEF Line
  <2> QED BY <1>2, <1>5, <2>2, <2>4
<1>6. Held(qs2[r], list2, r)
  <2>1. Rising(qs[r]) /\ ToSet(qs[r]) = {g \in ToSet(list) : g.queue = r} /\ qs[r] \in Seq(Frame)
    BY <1>1 DEF PortInv, Held
  <2>2. Rising(qs2[r]) /\ ToSet(qs2[r]) = ToSet(qs[r]) \cup {f}
    BY <1>2, <1>3, <2>1, AppendFacts
  <2> QED BY <1>4, <2>1, <2>2 DEF Held
<1>7. Line(qs2[r], w, tk2[r], ar[r], r, m + 1)
  <2> DEFINE k == qs[r]
             t == tk[r]
             a == ar[r]
             k2 == qs2[r]
             t2 == tk2[r]
  <2>1. Line(k, w, t, a, r, m) /\ k \in Seq(Frame) /\ t \in Seq(Frame) /\ a \in Seq(Frame)
    BY <1>1 DEF PortInv
  <2>2. k2 = Append(k, f) /\ t2 = Append(t, f)
    BY <1>2
  <2>3. Len(a) \in Nat /\ Len(t) \in Nat /\ Len(a) <= Len(t)
    BY <2>1 DEF Line
  <2>4. \A g \in ToSet(w) : g.n < f.n
    BY InPort
  <2> HIDE DEF k, t, a, k2, t2
  <2>5. \A g \in ToSet(t) : g.n \in 1 .. m /\ g.n < f.n
    BY <2>1 DEF Line
  <2>6. ToSet(k2) = ToSet(k) \cup {f}
    BY <2>1, <2>2, AppendFacts
  <2>7. /\ ToSet(t2) = ToSet(t) \cup {f} /\ Len(t2) = Len(t) + 1
        /\ \A i \in 1 .. Len(t) : t2[i] = t[i]
        /\ t2[Len(t) + 1] = f
    BY <2>1, <2>2, AppendFacts
  <2>8. Rising(t2)
    BY <2>1, <2>2, <2>5, AppendFacts DEF Line
  <2>9. \A g \in ToSet(t2) : g.n \in 1 .. m + 1
    BY <2>5, <2>7
  <2>10. {t2[i] : i \in Len(a) + 1 .. Len(t2)} = {t[i] : i \in Len(a) + 1 .. Len(t)} \cup {f}
    <3>1. \A i \in Len(a) + 1 .. Len(t) : i \in Len(a) + 1 .. Len(t2) /\ i \in 1 .. Len(t)
      BY <2>3, <2>7
    <3>2. Len(t) + 1 \in Len(a) + 1 .. Len(t2)
      BY <2>3, <2>7
    <3>3. \A i \in Len(a) + 1 .. Len(t2) : i \in Len(a) + 1 .. Len(t) \/ i = Len(t) + 1
      BY <2>3, <2>7
    <3> QED BY <2>7, <3>1, <3>2, <3>3
  <2>11. \A g \in ToSet(w), h \in ToSet(k2) : g.queue = r => g.n < h.n
    BY <2>1, <2>4, <2>6 DEF Line
  <2>12. {t2[i] : i \in Len(a) + 1 .. Len(t2)} = {g \in ToSet(w) : g.queue = r} \cup ToSet(k2)
    BY <2>1, <2>6, <2>10 DEF Line
  <2>13. Len(a) <= Len(t2)
    BY <2>3, <2>7
  <2> HIDE DEF r
  <2> QED BY <2>1, <2>8, <2>9, <2>11, <2>12, <2>13 DEF Line, k2, t2, a
<1> QED BY <1>1, <1>2, <1>4, <1>5, <1>6, <1>7 DEF PortInv, qs2, list2, tk2

\* The device starts to transmit the oldest frame of a queue.
LEMMA Started ==
  ASSUME NEW qs, NEW list, NEW w, NEW tk, NEW ar, NEW m \in Nat,
         PortInv(qs, list, w, tk, ar, m),
         NEW r \in Queues, qs[r] # << >>
  PROVE  /\ PortInv([qs EXCEPT ![r] = Tail(@)], NotifyDequeue(list, Head(qs[r])),
                    Append(w, Head(qs[r])), tk, ar, m)
         /\ Head(qs[r]) \in Frame /\ Head(qs[r]).n \in 1 .. m
         /\ Len(Tail(qs[r])) <= Len(qs[r])
<1> DEFINE k == qs[r]
           f == Head(k)
           qs2 == [qs EXCEPT ![r] = Tail(@)]
           list2 == NotifyDequeue(list, f)
           w2 == Append(w, f)
<1>1. /\ qs \in [Queues -> Seq(Frame)] /\ list \in Seq(Frame) /\ w \in Seq(Frame)
      /\ tk \in [Queues -> Seq(Frame)] /\ ar \in [Queues -> Seq(Frame)]
      /\ Rising(list)
  BY DEF PortInv
<1>2. /\ qs2 \in [Queues -> Seq(Frame)] /\ qs2[r] = Tail(k)
      /\ \A q \in Queues : q # r => qs2[q] = qs[q]
  BY <1>1
<1>3. k \in Seq(Frame) /\ k # << >> /\ Rising(k) /\ ToSet(k) = {g \in ToSet(list) : g.queue = r}
  BY <1>1 DEF PortInv, Held
<1>4. /\ f \in Frame /\ f \in ToSet(k) /\ Tail(k) \in Seq(Frame) /\ Len(Tail(k)) = Len(k) - 1
      /\ Rising(Tail(k)) /\ ToSet(Tail(k)) = ToSet(k) \ {f}
      /\ \A g \in ToSet(Tail(k)) : f.n < g.n
  <2> HIDE DEF k
  <2> QED BY <1>3, TailFacts
<1>5. f.n \in 1 .. m /\ f.queue = r /\ f \in ToSet(list)
  BY <1>4, InPort
<1>6. Len(Tail(k)) <= Len(k)
  BY <1>3, <1>4
<1> HIDE DEF k, f
<1>7. list2 \in Seq(Frame) /\ Rising(list2) /\ ToSet(list2) = ToSet(list) \ {f}
  BY <1>1, <1>5, RemoveFacts
<1>8. /\ w2 \in Seq(Frame) /\ Len(w2) = Len(w) + 1 /\ ToSet(w2) = ToSet(w) \cup {f}
      /\ \A i \in 1 .. Len(w) : w2[i] = w[i]
      /\ w2[Len(w) + 1] = f
  BY <1>1, <1>4, AppendFacts
<1>9. /\ Len(w) \in Nat /\ DOMAIN w = 1 .. Len(w) /\ DOMAIN w2 = 1 .. Len(w) + 1
      /\ \A i \in 1 .. Len(w) + 1 : i \in 1 .. Len(w) \/ i = Len(w) + 1
  BY <1>1, <1>8
<1> HIDE DEF qs2, list2, w2
<1>10. ASSUME NEW q \in Queues, q # r
       PROVE  Held(qs2[q], list2, q) /\ Line(qs2[q], w2, tk[q], ar[q], q, m)
  <2>1. Held(qs[q], list, q) /\ Line(qs[q], w, tk[q], ar[q], q, m)
    BY DEF PortInv
  <2>2. Held(qs[q], list2, q)
    BY <1>5, <1>7, <1>10, <2>1 DEF Held
  <2>3. {g \in ToSet(w2) : g.queue = q} = {g \in ToSet(w) : g.queue = q}
    BY <1>5, <1>8, <1>10
  <2>4. \A i, j \in DOMAIN w2 : i < j /\ w2[i].queue = q /\ w2[j].queue = q => w2[i].n < w2[j].n
    <3> SUFFICES ASSUME NEW i \in 1 .. Len(w) + 1, NEW j \in 1 .. Len(w) + 1, i < j,
                        w2[i].queue = q, w2[j].queue = q
                 PROVE  w2[i].n < w2[j].n
      BY <1>9
    <3>1. i # Len(w) + 1 /\ j # Len(w) + 1
      BY <1>5, <1>8, <1>10
    <3>2. i \in 1 .. Len(w) /\ j \in 1 .. Len(w)
      BY <1>9, <3>1
    <3> QED BY <1>8, <1>9, <2>1, <3>2 DEF Line
  <2>5. \A g \in ToSet(w2), h \in ToSet(qs[q]) : g.queue = q => g.n < h.n
    BY <2>1, <2>3 DEF Line
  <2>6. Line(qs[q], w2, tk[q], ar[q], q, m)
    BY <2>1, <2>3, <2>4, <2>5 DEF Line
  <2> QED BY <1>2, <1>10, <2>2, <2>6
<1>11. Held(Tail(k), list2, r)
  BY <1>3, <1>4, <1>7 DEF Held
<1>12. Line(Tail(k), w2, tk[r], ar[r], r, m)
  <2>1. Line(k, w, tk[r], ar[r], r, m)
    BY DEF PortInv, k
  <2>2. {g \in ToSet(w2) : g.queue = r} = {g \in ToSet(w) : g.queue = r} \cup {f}
    BY <1>5, <1>8
  <2>3. {g \in ToSet(w2) : g.queue = r} \cup ToSet(Tail(k))
          = {g \in ToSet(w) : g.queue = r} \cup ToSet(k)
    BY <1>4, <2>2
  <2>4. \A i, j \in DOMAIN w2 : i < j /\ w2[i].queue = r /\ w2[j].queue = r => w2[i].n < w2[j].n
    <3> SUFFICES ASSUME NEW i \in 1 .. Len(w) + 1, NEW j \in 1 .. Len(w) + 1, i < j,
                        w2[i].queue = r, w2[j].queue = r
                 PROVE  w2[i].n < w2[j].n
      BY <1>9
    <3>1. i \in 1 .. Len(w) /\ w2[i] = w[i] /\ w[i] \in ToSet(w)
      BY <1>8, <1>9 DEF ToSet
    <3>2. CASE j = Len(w) + 1
      <4>1. w2[j] = f
        BY <1>8, <3>2
      <4>2. w[i].n < f.n
        BY <1>4, <2>1, <3>1 DEF Line
      <4> QED BY <3>1, <4>1, <4>2
    <3>3. CASE j \in 1 .. Len(w)
      BY <1>8, <1>9, <2>1, <3>1, <3>3 DEF Line
    <3> QED BY <1>9, <3>2, <3>3
  <2>5. ASSUME NEW g \in ToSet(w2), NEW h \in ToSet(Tail(k)), g.queue = r PROVE g.n < h.n
    <3>1. CASE g = f
      BY <1>4, <3>1
    <3>2. CASE g \in ToSet(w)
      BY <1>4, <2>1, <2>5, <3>2 DEF Line
    <3> QED BY <1>8, <3>1, <3>2
  <2> QED BY <2>1, <2>3, <2>4, <2>5 DEF Line
<1>13. \A q \in Queues : Held(qs2[q], list2, q) /\ Line(qs2[q], w2, tk[q], ar[q], q, m)
  BY <1>2, <1>10, <1>11, <1>12
<1>14. PortInv(qs2, list2, w2, tk, ar, m)
  BY <1>1, <1>2, <1>7, <1>8, <1>13 DEF PortInv
<1> QED BY <1>4, <1>5, <1>6, <1>14 DEF qs2, list2, w2, f, k

\* A frame arrives: it is the next one that was taken for its queue.
LEMMA Delivered ==
  ASSUME NEW qs, NEW list, NEW w, NEW tk, NEW ar, NEW m \in Nat,
         PortInv(qs, list, w, tk, ar, m), w # << >>
  PROVE  LET f == Head(w)
             q == f.queue IN
         /\ f \in Frame /\ q \in Queues
         /\ Len(ar[q]) < Len(tk[q]) /\ f = tk[q][Len(ar[q]) + 1]
         /\ PortInv(qs, list, Tail(w), tk, [ar EXCEPT ![q] = Append(@, f)], m)
<1> DEFINE f == Head(w)
           r == f.queue
           t == tk[r]
           a == ar[r]
           w2 == Tail(w)
           ar2 == [ar EXCEPT ![r] = Append(@, f)]
<1>1. /\ qs \in [Queues -> Seq(Frame)] /\ list \in Seq(Frame) /\ w \in Seq(Frame)
      /\ tk \in [Queues -> Seq(Frame)] /\ ar \in [Queues -> Seq(Frame)]
      /\ Rising(list)
  BY DEF PortInv
<1>2. /\ f \in Frame /\ f \in ToSet(w) /\ f = w[1] /\ 1 \in DOMAIN w
      /\ w2 \in Seq(Frame) /\ Len(w2) = Len(w) - 1
      /\ \A i \in 1 .. Len(w) - 1 : w2[i] = w[i + 1]
  BY <1>1, TailFacts
<1>3. /\ Len(w) \in Nat /\ DOMAIN w = 1 .. Len(w) /\ DOMAIN w2 = 1 .. Len(w) - 1
      /\ \A i \in 1 .. Len(w) - 1 : i + 1 \in DOMAIN w /\ 1 < i + 1
      /\ \A i, j \in 1 .. Len(w) - 1 : i < j => i + 1 < j + 1
  BY <1>1, <1>2
<1>4. r \in Queues /\ f.n \in Nat
  BY <1>2 DEF Frame
<1> HIDE DEF f, w2
<1>5. ASSUME NEW g \in ToSet(w), g # f
      PROVE  \E i \in 1 .. Len(w) - 1 : g = w2[i]
  <2>1. PICK j \in 1 .. Len(w) : g = w[j]
    BY <1>3 DEF ToSet
  <2>2. j # 1
    BY <1>2, <1>5, <2>1
  <2>3. j - 1 \in 1 .. Len(w) - 1 /\ (j - 1) + 1 = j
    BY <1>3, <2>2
  <2>4. w2[j - 1] = g
    BY <1>2, <2>1, <2>3
  <2> QED BY <2>3, <2>4
<1>6. \A g : g \in ToSet(w2) <=> \E i \in 1 .. Len(w) - 1 : g = w2[i]
  BY <1>3 DEF ToSet
<1>7. \A g \in ToSet(w2) : g \in ToSet(w)
  BY <1>2, <1>3, <1>6 DEF ToSet
<1>8. ToSet(w) = ToSet(w2) \cup {f}
  BY <1>2, <1>5, <1>6, <1>7
<1>9. Line(qs[r], w, t, a, r, m) /\ t \in Seq(Frame) /\ a \in Seq(Frame)
  BY <1>1, <1>4 DEF PortInv
<1>10. /\ Len(t) \in Nat /\ Len(a) \in Nat /\ Len(a) <= Len(t) /\ DOMAIN t = 1 .. Len(t)
  BY <1>9 DEF Line
<1> HIDE DEF t, a
<1>11. \A g \in ToSet(w2) : g.queue = r => f.n < g.n
  <2> SUFFICES ASSUME NEW i \in 1 .. Len(w) - 1, w2[i].queue = r PROVE f.n < w2[i].n
    BY <1>6
  <2>1. w2[i] = w[i + 1] /\ i + 1 \in DOMAIN w /\ 1 < i + 1
    BY <1>2, <1>3
  <2>2. w[1].queue = r /\ w[i + 1].queue = r
    BY <1>2, <2>1
  <2> QED BY <1>2, <1>9, <2>1, <2>2 DEF Line
<1>12. \A g \in ToSet(qs[r]) : f.n < g.n
  BY <1>2, <1>9 DEF Line
<1>13. PICK i \in Len(a) + 1 .. Len(t) : f = t[i]
  BY <1>2, <1>9 DEF Line
<1>14. Len(a) < Len(t) /\ Len(a) + 1 \in Len(a) + 1 .. Len(t)
  BY <1>10, <1>13
<1>15. i = Len(a) + 1
  <2> SUFFICES ASSUME Len(a) + 1 < i PROVE FALSE
    BY <1>10, <1>13
  <2> DEFINE g == t[Len(a) + 1]
  <2>1. g.n < f.n
    <3>1. Len(a) + 1 \in DOMAIN t /\ i \in DOMAIN t
      BY <1>10, <1>13, <1>14
    <3> QED BY <1>9, <1>13, <3>1 DEF Line, Rising
  <2>2. g \in {h \in ToSet(w) : h.queue = r} \cup ToSet(qs[r])
    BY <1>9, <1>14 DEF Line
  <2>3. g \in Frame
    BY <1>9, <1>10, <1>14
  <2>4. g.n \in Nat
    BY <2>3 DEF Frame
  <2> HIDE DEF g
  <2>5. f.n < g.n \/ g = f
    BY <1>8, <1>11, <1>12, <2>2
  <2> QED BY <1>4, <2>1, <2>4, <2>5
<1>16. f = t[Len(a) + 1]
  BY <1>13, <1>15
<1>17. /\ ar2 \in [Queues -> Seq(Frame)] /\ ar2[r] = Append(a, f)
       /\ \A q \in Queues : q # r => ar2[q] = ar[q]
  BY <1>1, <1>2, <1>4 DEF a
<1>18. Len(Append(a, f)) = Len(a) + 1
  BY <1>9
<1> HIDE DEF ar2, r
<1>19. ASSUME NEW q \in Queues
       PROVE  \A j, k \in DOMAIN w2 :
                j < k /\ w2[j].queue = q /\ w2[k].queue = q => w2[j].n < w2[k].n
  <2>1. Line(qs[q], w, tk[q], ar[q], q, m)
    BY DEF PortInv
  <2> SUFFICES ASSUME NEW j \in 1 .. Len(w) - 1, NEW k \in 1 .. Len(w) - 1, j < k,
                      w2[j].queue = q, w2[k].queue = q
               PROVE  w2[j].n < w2[k].n
    BY <1>3
  <2>2. w2[j] = w[j + 1] /\ w2[k] = w[k + 1]
    BY <1>2
  <2>3. j + 1 \in DOMAIN w /\ k + 1 \in DOMAIN w /\ j + 1 < k + 1
    BY <1>3
  <2>4. w[j + 1].n < w[k + 1].n
    BY <2>1, <2>2, <2>3 DEF Line
  <2> QED BY <2>2, <2>4
<1>20. ASSUME NEW q \in Queues, q # r
       PROVE  Line(qs[q], w2, tk[q], ar2[q], q, m)
  <2>1. Line(qs[q], w, tk[q], ar[q], q, m)
    BY DEF PortInv
  <2>2. f.queue # q
    BY <1>20 DEF r
  <2>3. {g \in ToSet(w2) : g.queue = q} = {g \in ToSet(w) : g.queue = q}
    BY <1>8, <2>2
  <2>4. \A g \in ToSet(w2), h \in ToSet(qs[q]) : g.queue = q => g.n < h.n
    BY <1>7, <2>1 DEF Line
  <2>5. Line(qs[q], w2, tk[q], ar[q], q, m)
    BY <1>19, <2>1, <2>3, <2>4 DEF Line
  <2> QED BY <1>17, <1>20, <2>5
<1>21. Line(qs[r], w2, t, Append(a, f), r, m)
  <2>1. Len(a) + 1 <= Len(t)
    BY <1>10, <1>14
  <2>2. \A j \in Len(a) + 2 .. Len(t) : t[j] # f
    <3> SUFFICES ASSUME NEW j \in Len(a) + 2 .. Len(t) PROVE t[j] # f
      OBVIOUS
    <3>1. Len(a) + 1 \in DOMAIN t /\ j \in DOMAIN t /\ Len(a) + 1 < j
      BY <1>10, <1>14
    <3>2. t[Len(a) + 1].n < t[j].n
      BY <1>9, <3>1 DEF Line, Rising
    <3> QED BY <1>4, <1>16, <3>2
  <2>3. \A j : j \in Len(a) + 1 .. Len(t) <=> j = Len(a) + 1 \/ j \in Len(a) + 2 .. Len(t)
    BY <1>10, <2>1
  <2>4. {t[j] : j \in Len(a) + 2 .. Len(t)} = {t[j] : j \in Len(a) + 1 .. Len(t)} \ {f}
    BY <1>16, <2>2, <2>3
  <2>5. f \notin ToSet(w2) /\ f \notin ToSet(qs[r])
    <3>1. f.queue = r /\ ~(f.n < f.n)
      BY <1>4 DEF r
    <3> QED BY <1>11, <1>12, <3>1
  <2>6. {g \in ToSet(w) : g.queue = r} = {g \in ToSet(w2) : g.queue = r} \cup {f}
    BY <1>8 DEF r
  <2>7. {t[j] : j \in Len(a) + 2 .. Len(t)} = {g \in ToSet(w2) : g.queue = r} \cup ToSet(qs[r])
    BY <1>9, <2>4, <2>5, <2>6 DEF Line
  <2>8. (Len(a) + 1) + 1 = Len(a) + 2
    BY <1>10
  <2>9. {t[j] : j \in Len(Append(a, f)) + 1 .. Len(t)}
          = {g \in ToSet(w2) : g.queue = r} \cup ToSet(qs[r])
    BY <1>18, <2>7, <2>8
  <2>10. \A g \in ToSet(w2), h \in ToSet(qs[r]) : g.queue = r => g.n < h.n
    BY <1>7, <1>9 DEF Line
  <2> QED BY <1>4, <1>9, <1>18, <1>19, <2>1, <2>9, <2>10 DEF Line
<1>22. \A q \in Queues : Held(qs[q], list, q) /\ Line(qs[q], w2, tk[q], ar2[q], q, m)
  <2>1. \A q \in Queues : Held(qs[q], list, q)
    BY DEF PortInv
  <2> QED BY <1>17, <1>20, <1>21, <2>1 DEF t
<1>23. PortInv(qs, list, w2, tk, ar2, m)
  BY <1>1, <1>2, <1>17, <1>22 DEF PortInv
<1> QED BY <1>2, <1>4, <1>14, <1>16, <1>23 DEF f, r, t, a, w2, ar2
------------------------------------------------------------------------------
(* What happens to the frames of all ports *)

\* The frames of one port are in order, and the others stay as they are.
LEMMA OnePort ==
  ASSUME FrameInv, NEW p \in Ports,
         NEW qs, NEW list, NEW c \in Frame \cup {NoFrame}, NEW w, NEW tk, NEW ar,
         NEW m \in 0 .. MaxFrames, outputs <= m,
         queue' = [queue EXCEPT ![p] = qs], frames' = [frames EXCEPT ![p] = list],
         current' = [current EXCEPT ![p] = c], wire' = [wire EXCEPT ![p] = w],
         taken' = [taken EXCEPT ![p] = tk], arrived' = [arrived EXCEPT ![p] = ar],
         outputs' = m,
         PortInv(qs, list, w, tk, ar, m),
         \A q \in Queues : Len(qs[q]) <= QueueSize,
         c = NoFrame => list = << >>
  PROVE  FrameInv'
<1>1. /\ queue \in [Ports -> [Queues -> Seq(Frame)]] /\ frames \in [Ports -> Seq(Frame)]
      /\ current \in [Ports -> Frame \cup {NoFrame}]
      /\ wire \in [Ports -> Seq(Frame)]
      /\ taken \in [Ports -> [Queues -> Seq(Frame)]]
      /\ arrived \in [Ports -> [Queues -> Seq(Frame)]]
      /\ outputs \in 0 .. MaxFrames
  BY DEF FrameInv, FrameTypes
<1>2. m \in Nat /\ outputs \in Nat
  BY <1>1, PortsAssumption
<1>3. /\ qs \in [Queues -> Seq(Frame)] /\ list \in Seq(Frame) /\ w \in Seq(Frame)
      /\ tk \in [Queues -> Seq(Frame)] /\ ar \in [Queues -> Seq(Frame)]
  BY DEF PortInv
<1>4. FrameTypes'
  BY <1>1, <1>3 DEF FrameTypes
<1>5. /\ queue'[p] = qs /\ frames'[p] = list /\ current'[p] = c /\ wire'[p] = w
      /\ taken'[p] = tk /\ arrived'[p] = ar
  BY <1>1
<1>6. ASSUME NEW o \in Ports, o # p
      PROVE  /\ queue'[o] = queue[o] /\ frames'[o] = frames[o] /\ current'[o] = current[o]
             /\ wire'[o] = wire[o] /\ taken'[o] = taken[o] /\ arrived'[o] = arrived[o]
  BY <1>1, <1>6
<1>7. ASSUME NEW o \in Ports
      PROVE  /\ PortInv(queue'[o], frames'[o], wire'[o], taken'[o], arrived'[o], m)
             /\ \A q \in Queues : Len(queue'[o][q]) <= QueueSize
             /\ current'[o] = NoFrame => frames'[o] = << >>
  <2>1. CASE o = p
    BY <1>5, <2>1
  <2>2. CASE o # p
    <3>1. /\ PortInv(queue[o], frames[o], wire[o], taken[o], arrived[o], outputs)
          /\ \A q \in Queues : Len(queue[o][q]) <= QueueSize
          /\ current[o] = NoFrame => frames[o] = << >>
      BY DEF FrameInv
    <3>2. PortInv(queue[o], frames[o], wire[o], taken[o], arrived[o], m)
      BY <1>2, <3>1, Older
    <3> QED BY <1>6, <2>2, <3>1, <3>2
  <2> QED BY <2>1, <2>2
<1> QED BY <1>4, <1>7 DEF FrameInv

\* TransmitNext, after the frames of the port were put into qs and list.
LEMMA NextFrame ==
  ASSUME FrameInv, NEW p \in Ports, NEW qs, NEW list, NEW tk, NEW m \in 0 .. MaxFrames,
         TransmitNext(p, qs, list), taken' = [taken EXCEPT ![p] = tk], arrived' = arrived,
         outputs' = m, outputs <= m,
         PortInv(qs, list, wire[p], tk, arrived[p], m),
         \A q \in Queues : Len(qs[q]) <= QueueSize
  PROVE  FrameInv'
<1> DEFINE waiting == {q \in Queues : qs[q] # << >>}
           first == Min(waiting)
           f == Head(qs[first])
<1>1. /\ wire = [wire EXCEPT ![p] = wire[p]]
      /\ arrived' = [arrived EXCEPT ![p] = arrived[p]]
      /\ m \in Nat
  BY PortsAssumption DEF FrameInv, FrameTypes
<1>2. qs \in [Queues -> Seq(Frame)] /\ list \in Seq(Frame)
  BY DEF PortInv
<1>3. CASE /\ waiting = {}
           /\ queue' = [queue EXCEPT ![p] = qs] /\ frames' = [frames EXCEPT ![p] = list]
           /\ current' = [current EXCEPT ![p] = NoFrame]
           /\ wire' = wire
  <2>1. list = << >>
    <3>1. ASSUME NEW g \in ToSet(list) PROVE FALSE
      <4>1. g \in Frame /\ g \in ToSet(qs[g.queue])
        BY <1>1, InPort
      <4>2. g.queue \in Queues
        BY <4>1 DEF Frame
      <4>3. qs[g.queue] = << >>
        BY <1>3, <4>2
      <4>4. ToSet(<< >>) = {}
        BY DEF ToSet
      <4> QED BY <4>1, <4>3, <4>4
    <3>2. ASSUME list # << >> PROVE FALSE
      <4>1. list[1] \in ToSet(list)
        BY <1>2, <3>2 DEF ToSet
      <4> QED BY <3>1, <4>1
    <3> QED BY <3>2
  <2>2. wire' = [wire EXCEPT ![p] = wire[p]]
    BY <1>1, <1>3
  <2>3. /\ queue' = [queue EXCEPT ![p] = qs] /\ frames' = [frames EXCEPT ![p] = list]
        /\ current' = [current EXCEPT ![p] = NoFrame]
        /\ NoFrame \in Frame \cup {NoFrame}
    BY <1>3
  <2> QED BY <1>1, <2>1, <2>2, <2>3, OnePort
<1>4. CASE /\ waiting # {}
           /\ queue' = [queue EXCEPT ![p] = [qs EXCEPT ![first] = Tail(@)]]
           /\ frames' = [frames EXCEPT ![p] = NotifyDequeue(list, f)]
           /\ current' = [current EXCEPT ![p] = f]
           /\ wire' = [wire EXCEPT ![p] = Append(@, f)]
  <2>1. first \in waiting
    <3>1. waiting \in SUBSET Nat
      BY PortsAssumption
    <3> HIDE DEF waiting
    <3> QED BY <1>4, <3>1, LeastNumber
  <2>2. first \in Queues /\ qs[first] # << >>
    BY <2>1
  <2> DEFINE qs2 == [qs EXCEPT ![first] = Tail(@)]
             list2 == NotifyDequeue(list, f)
             w2 == Append(wire[p], f)
  <2> HIDE DEF first
  <2>3. /\ PortInv(qs2, list2, w2, tk, arrived[p], m)
        /\ f \in Frame /\ f.n \in 1 .. m /\ Len(Tail(qs[first])) <= Len(qs[first])
    BY <1>1, <2>2, Started
  <2>4. f # NoFrame
    BY <2>3 DEF NoFrame
  <2>5. wire' = [wire EXCEPT ![p] = w2]
    BY <1>4 DEF FrameInv, FrameTypes
  <2>6. ASSUME NEW q \in Queues PROVE Len(qs2[q]) <= QueueSize
    <3>1. CASE q = first
      <4>1. qs2[q] = Tail(qs[first])
        BY <1>2, <2>2, <3>1
      <4>2. Len(qs[first]) \in Nat /\ Len(Tail(qs[first])) \in Nat /\ QueueSize \in Nat
        BY <1>2, <2>2, PortsAssumption
      <4> QED BY <2>2, <2>3, <4>1, <4>2
    <3>2. CASE q # first
      BY <1>2, <3>2
    <3> QED BY <3>1, <3>2
  <2>7. queue' = [queue EXCEPT ![p] = qs2] /\ frames' = [frames EXCEPT ![p] = list2]
        /\ current' = [current EXCEPT ![p] = f]
    BY <1>4
  <2> HIDE DEF qs2, list2, w2, f
  <2>8. /\ queue' = [queue EXCEPT ![p] = qs2] /\ frames' = [frames EXCEPT ![p] = list2]
        /\ current' = [current EXCEPT ![p] = f] /\ wire' = [wire EXCEPT ![p] = w2]
        /\ PortInv(qs2, list2, w2, tk, arrived[p], m)
        /\ \A q \in Queues : Len(qs2[q]) <= QueueSize
        /\ f = NoFrame => list2 = << >>
    BY <2>3, <2>4, <2>5, <2>6, <2>7
  <2>9. f \in Frame \cup {NoFrame}
    BY <2>3
  <2> QED BY <1>1, <2>8, <2>9, OnePort
<1> QED BY <1>3, <1>4 DEF TransmitNext

\* To replace the value of a port by itself changes nothing.
LEMMA SameFunctions ==
  ASSUME FrameInv, NEW p \in Ports
  PROVE  /\ queue = [queue EXCEPT ![p] = queue[p]] /\ frames = [frames EXCEPT ![p] = frames[p]]
         /\ current = [current EXCEPT ![p] = current[p]]
         /\ wire = [wire EXCEPT ![p] = wire[p]]
         /\ taken = [taken EXCEPT ![p] = taken[p]]
         /\ arrived = [arrived EXCEPT ![p] = arrived[p]]
         /\ current[p] \in Frame \cup {NoFrame}
         /\ outputs \in Nat /\ outputs \in 0 .. MaxFrames /\ MaxFrames \in Nat
BY PortsAssumption DEF FrameInv, FrameTypes

\* A frame that the device takes is behind all others of its line.
LEMMA SendStep ==
  ASSUME FrameInv, NEW p \in Ports, NEW q \in Queues, Send(p, q)
  PROVE  /\ FrameInv' /\ arrived' = arrived
         /\ \/ taken' = taken
            \/ \E f \in Frame : taken' = [taken EXCEPT ![p][q] = Append(@, f)]
<1> DEFINE m == outputs + 1
           f == [n |-> outputs + 1, queue |-> q]
<1>1. /\ outputs < MaxFrames /\ outputs' = m /\ arrived' = arrived
      /\ \/ UNCHANGED <<queue, frames, current, wire, taken>>
         \/ DeviceSend(p, f)
  BY DEF Send
<1>2. /\ PortInv(queue[p], frames[p], wire[p], taken[p], arrived[p], outputs)
      /\ \A r \in Queues : Len(queue[p][r]) <= QueueSize
      /\ current[p] = NoFrame => frames[p] = << >>
  BY DEF FrameInv
<1>3. m \in 0 .. MaxFrames /\ m \in Nat /\ outputs <= m
  BY <1>1, SameFunctions
<1>4. f \in Frame /\ f.n = m /\ f.queue = q
  BY <1>3 DEF Frame
<1> HIDE DEF m, f
<1>5. ASSUME UNCHANGED <<queue, frames, current, wire, taken>> PROVE FrameInv'
  <2>1. PortInv(queue[p], frames[p], wire[p], taken[p], arrived[p], m)
    BY <1>2, <1>3, SameFunctions, Older
  <2>2. /\ queue' = [queue EXCEPT ![p] = queue[p]] /\ frames' = [frames EXCEPT ![p] = frames[p]]
        /\ current' = [current EXCEPT ![p] = current[p]]
        /\ wire' = [wire EXCEPT ![p] = wire[p]]
        /\ taken' = [taken EXCEPT ![p] = taken[p]]
        /\ arrived' = [arrived EXCEPT ![p] = arrived[p]]
        /\ current[p] \in Frame \cup {NoFrame}
    BY <1>1, <1>5, SameFunctions
  <2> QED BY <1>1, <1>2, <1>3, <2>1, <2>2, OnePort
<1>6. ASSUME up[p], Len(queue[p][q]) < QueueSize,
             taken' = [taken EXCEPT ![p][q] = Append(@, f)],
             LET qs == [queue[p] EXCEPT ![q] = Append(@, f)]
                 list == Append(frames[p], f) IN
             IF current[p] = NoFrame THEN TransmitNext(p, qs, list)
             ELSE /\ queue' = [queue EXCEPT ![p] = qs] /\ frames' = [frames EXCEPT ![p] = list]
                  /\ UNCHANGED <<current, wire>>
      PROVE  FrameInv'
  <2> DEFINE qs == [queue[p] EXCEPT ![q] = Append(@, f)]
             list == Append(frames[p], f)
             tk == [taken[p] EXCEPT ![q] = Append(@, f)]
  <2>1. PortInv(qs, list, wire[p], tk, arrived[p], m)
    <3>1. f.n = outputs + 1 /\ m = outputs + 1 /\ outputs \in Nat
      BY <1>4, SameFunctions DEF m
    <3>2. PortInv([queue[p] EXCEPT ![f.queue] = Append(@, f)], Append(frames[p], f), wire[p],
                  [taken[p] EXCEPT ![f.queue] = Append(@, f)], arrived[p], outputs + 1)
      BY <1>2, <1>4, <3>1, Queued
    <3> QED BY <1>4, <3>1, <3>2
  <2>2. ASSUME NEW r \in Queues PROVE Len(qs[r]) <= QueueSize
    <3>1. queue[p] \in [Queues -> Seq(Frame)] /\ queue[p][q] \in Seq(Frame) /\ QueueSize \in Nat
      BY PortsAssumption DEF FrameInv, FrameTypes
    <3>2. CASE r = q
      <4>1. qs[r] = Append(queue[p][q], f)
        BY <3>1, <3>2
      <4>2. Len(Append(queue[p][q], f)) = Len(queue[p][q]) + 1 /\ Len(queue[p][q]) \in Nat
        BY <3>1
      <4> QED BY <1>6, <3>1, <4>1, <4>2
    <3>3. CASE r # q
      BY <1>2, <3>1, <3>3
    <3> QED BY <3>2, <3>3
  <2>3. taken' = [taken EXCEPT ![p] = tk]
    BY <1>6 DEF FrameInv, FrameTypes
  <2>4. arrived' = [arrived EXCEPT ![p] = arrived[p]]
    BY <1>1, SameFunctions
  <2>5. CASE current[p] = NoFrame
    <3>1. TransmitNext(p, qs, list)
      BY <1>6, <2>5
    <3> HIDE DEF qs, list, tk
    <3> QED BY <1>1, <1>3, <2>1, <2>2, <2>3, <3>1, NextFrame
  <2>6. CASE current[p] # NoFrame
    <3>1. /\ queue' = [queue EXCEPT ![p] = qs] /\ frames' = [frames EXCEPT ![p] = list]
          /\ current' = [current EXCEPT ![p] = current[p]]
          /\ wire' = [wire EXCEPT ![p] = wire[p]]
          /\ current[p] \in Frame \cup {NoFrame}
      BY <1>6, <2>6, SameFunctions
    <3> HIDE DEF qs, list, tk
    <3> QED BY <1>1, <1>3, <2>1, <2>2, <2>3, <2>4, <2>6, <3>1, OnePort
  <2> QED BY <2>5, <2>6
<1>7. CASE UNCHANGED <<queue, frames, current, wire, taken>>
  BY <1>1, <1>5, <1>7
<1>8. CASE DeviceSend(p, f) /\ up[p] /\ Len(queue[p][q]) < QueueSize
           /\ taken' = [taken EXCEPT ![p][q] = Append(@, f)]
  <2>1. LET qs == [queue[p] EXCEPT ![q] = Append(@, f)]
            list == Append(frames[p], f) IN
        IF current[p] = NoFrame THEN TransmitNext(p, qs, list)
        ELSE /\ queue' = [queue EXCEPT ![p] = qs] /\ frames' = [frames EXCEPT ![p] = list]
             /\ UNCHANGED <<current, wire>>
    <3>1. ~(~up[p] \/ Len(queue[p][q]) >= QueueSize)
      <4>1. Len(queue[p][q]) \in Nat /\ QueueSize \in Nat
        BY PortsAssumption DEF FrameInv, FrameTypes
      <4> QED BY <1>8, <4>1
    <3> QED BY <1>4, <1>8, <3>1 DEF DeviceSend
  <2>2. FrameInv'
    BY <1>6, <1>8, <2>1
  <2> QED BY <1>1, <1>4, <1>8, <2>2
<1>9. DeviceSend(p, f) =>
        \/ UNCHANGED <<queue, frames, current, wire, taken>>
        \/ /\ up[p] /\ Len(queue[p][q]) < QueueSize
           /\ taken' = [taken EXCEPT ![p][q] = Append(@, f)]
  BY <1>4 DEF DeviceSend
<1> QED BY <1>1, <1>7, <1>8, <1>9

LEMMA CompleteStep ==
  ASSUME FrameInv, NEW p \in Ports, TransmitComplete(p)
  PROVE  FrameInv' /\ UNCHANGED <<taken, arrived>>
<1>1. /\ TransmitNext(p, queue[p], frames[p])
      /\ UNCHANGED <<taken, arrived, outputs>>
  BY DEF TransmitComplete, GoesOn
<1>2. /\ PortInv(queue[p], frames[p], wire[p], taken[p], arrived[p], outputs)
      /\ \A r \in Queues : Len(queue[p][r]) <= QueueSize
  BY DEF FrameInv
<1>3. outputs \in Nat /\ outputs \in 0 .. MaxFrames
  BY SameFunctions
<1>4. taken' = [taken EXCEPT ![p] = taken[p]] /\ arrived' = [arrived EXCEPT ![p] = arrived[p]]
  BY <1>1, SameFunctions
<1>5. outputs <= outputs /\ outputs' = outputs /\ arrived' = arrived
  BY <1>1, <1>3
<1>6. FrameInv'
  BY <1>1, <1>2, <1>3, <1>4, <1>5, NextFrame
<1> QED BY <1>1, <1>6

\* The frame that arrives is the next one of its line.
LEMMA ReceiveStep ==
  ASSUME FrameInv, NEW p \in Ports, Receive(p)
  PROVE  /\ FrameInv' /\ taken' = taken
         /\ \E q \in Queues :
              /\ Len(arrived[p][q]) < Len(taken[p][q])
              /\ arrived' = [arrived EXCEPT ![p][q] = Append(@, taken[p][q][Len(arrived[p][q]) + 1])]
<1> DEFINE f == Head(wire[p])
           r == f.queue
           ar == [arrived[p] EXCEPT ![r] = Append(@, f)]
<1>1. /\ wire[p] # << >> /\ wire' = [wire EXCEPT ![p] = Tail(@)]
      /\ arrived' = [arrived EXCEPT ![p][r] = Append(@, f)]
      /\ UNCHANGED <<queue, frames, current, taken, outputs>>
  BY DEF Receive
<1>2. /\ PortInv(queue[p], frames[p], wire[p], taken[p], arrived[p], outputs)
      /\ \A q \in Queues : Len(queue[p][q]) <= QueueSize
      /\ current[p] = NoFrame => frames[p] = << >>
  BY DEF FrameInv
<1>3. outputs \in Nat /\ outputs \in 0 .. MaxFrames /\ outputs <= outputs
  BY SameFunctions
<1>4. /\ f \in Frame /\ r \in Queues
      /\ Len(arrived[p][r]) < Len(taken[p][r])
      /\ f = taken[p][r][Len(arrived[p][r]) + 1]
      /\ PortInv(queue[p], frames[p], Tail(wire[p]), taken[p], ar, outputs)
  BY <1>1, <1>2, <1>3, Delivered
<1>5. arrived' = [arrived EXCEPT ![p] = ar] /\ wire' = [wire EXCEPT ![p] = Tail(wire[p])]
  BY <1>1, <1>4 DEF FrameInv, FrameTypes
<1>6. /\ queue' = [queue EXCEPT ![p] = queue[p]] /\ frames' = [frames EXCEPT ![p] = frames[p]]
      /\ current' = [current EXCEPT ![p] = current[p]]
      /\ taken' = [taken EXCEPT ![p] = taken[p]]
      /\ current[p] \in Frame \cup {NoFrame}
  BY <1>1, SameFunctions
<1>7. FrameInv'
  <2>1. PortInv(queue[p], frames[p], Tail(wire[p]), taken[p], ar, outputs) /\ outputs' = outputs
    BY <1>1, <1>4
  <2> HIDE DEF f, r, ar
  <2> QED BY <1>2, <1>3, <1>5, <1>6, <2>1, OnePort
<1> HIDE DEF f
<1> QED BY <1>1, <1>4, <1>7

\* Steps that leave frames alone.
LEMMA LineUnchanged ==
  ASSUME FrameInv, UNCHANGED line
  PROVE  FrameInv' /\ UNCHANGED <<taken, arrived>>
BY DEF FrameInv, FrameTypes, line

LEMMA InitFrames == Init => FrameInv
<1> SUFFICES ASSUME Init PROVE FrameInv
  OBVIOUS
<1>1. << >> \in Seq(Frame) /\ Len(<< >>) = 0 /\ DOMAIN << >> = {} /\ ToSet(<< >>) = {}
  BY DEF ToSet
<1>2. FrameTypes
  BY <1>1, PortsAssumption DEF Init, FrameTypes
<1>3. Rising(<< >>)
  BY <1>1 DEF Rising
<1>4. ASSUME NEW q PROVE Held(<< >>, << >>, q) /\ Line(<< >>, << >>, << >>, << >>, q, 0)
  <2>1. {<< >>[i] : i \in 0 + 1 .. 0} = {}
    OBVIOUS
  <2> QED BY <1>1, <1>3, <2>1 DEF Held, Line
<1> DEFINE none == [q \in Queues |-> << >>]
<1>5. none \in [Queues -> Seq(Frame)] /\ \A q \in Queues : none[q] = << >>
  BY <1>1
<1>6. PortInv(none, << >>, << >>, none, none, 0)
  <2> HIDE DEF none
  <2> QED BY <1>1, <1>3, <1>4, <1>5 DEF PortInv
<1>7. \A p \in Ports : /\ queue[p] = none /\ frames[p] = << >> /\ wire[p] = << >>
                       /\ taken[p] = none /\ arrived[p] = none
  BY DEF Init
<1>8. outputs = 0
  BY DEF Init
<1>9. \A p \in Ports : \A q \in Queues : Len(queue[p][q]) <= QueueSize
  BY <1>1, <1>5, <1>7, PortsAssumption
<1> HIDE DEF none
<1>10. \A p \in Ports : PortInv(queue[p], frames[p], wire[p], taken[p], arrived[p], outputs)
  BY <1>6, <1>7, <1>8
<1> QED BY <1>2, <1>7, <1>9, <1>10 DEF FrameInv

\* What a step does to the two ends of a line, as FrameLines has it.
Takes(p, q) ==
  /\ \E f \in Frame : taken' = [taken EXCEPT ![p][q] = Append(@, f)]
  /\ UNCHANGED arrived

Arrives(p, q) ==
  /\ Len(arrived[p][q]) < Len(taken[p][q])
  /\ arrived' = [arrived EXCEPT ![p][q] = Append(@, taken[p][q][Len(arrived[p][q]) + 1])]
  /\ UNCHANGED taken

LEMMA FramesNext ==
  ASSUME FrameInv, [Next]_vars
  PROVE  /\ FrameInv'
         /\ \/ UNCHANGED <<taken, arrived>>
            \/ \E p \in Ports, q \in Queues : Takes(p, q) \/ Arrives(p, q)
<1> DEFINE Moves == \/ UNCHANGED <<taken, arrived>>
                    \/ \E p \in Ports, q \in Queues : Takes(p, q) \/ Arrives(p, q)
<1> SUFFICES FrameInv' /\ Moves
  OBVIOUS
<1>1. ASSUME NEW p \in Ports, NEW q \in Queues, Send(p, q) PROVE FrameInv' /\ Moves
  BY <1>1, SendStep DEF Takes
<1>2. ASSUME NEW q \in Queues, Failover(q) PROVE FrameInv' /\ Moves
  <2> DEFINE alive == {p \in Ports : BucketIsAlive(p)}
  <2>1. alive # {} /\ Send(Min(alive), q)
    BY <1>2 DEF Failover
  <2>2. Min(alive) \in alive
    <3>1. alive \in SUBSET Nat
      BY PortsAssumption
    <3> HIDE DEF alive
    <3> QED BY <2>1, <3>1, LeastNumber
  <2>3. Min(alive) \in Ports
    BY <2>2
  <2> HIDE DEF alive
  <2> QED BY <1>1, <2>1, <2>3
<1>3. ASSUME NEW p \in Ports, TransmitComplete(p) PROVE FrameInv' /\ Moves
  BY <1>3, CompleteStep
<1>4. ASSUME NEW p \in Ports, Receive(p) PROVE FrameInv' /\ Moves
  BY <1>4, ReceiveStep DEF Arrives
<1>5. ASSUME UNCHANGED line PROVE FrameInv' /\ Moves
  BY <1>5, LineUnchanged
<1> HIDE DEF Moves
<1>6. CASE \E p \in Ports : SetLink(p)
  BY <1>5, <1>6 DEF SetLink
<1>7. CASE PortUpdateStates
  BY <1>5, <1>7 DEF PortUpdateStates
<1>8. CASE \E p \in Ports, b \in BOOLEAN : PortMod(p, b)
  BY <1>5, <1>8 DEF PortMod
<1>9. CASE \E c \in Controllers : \/ Connect(c) \/ PortDescRequest(c)
                                  \/ \E r \in Roles : RoleRequest(c, r)
                                  \/ \E m \in Mask : SetAsync(c, m)
  BY <1>5, <1>9 DEF Connect, PortDescRequest, RoleRequest, SetAsync
<1>10. CASE UNCHANGED vars
  BY <1>5, <1>10 DEF vars
<1> QED BY <1>1, <1>2, <1>3, <1>4, <1>6, <1>7, <1>8, <1>9, <1>10 DEF Next

\* Frames whose numbers rise are all different.
LEMMA RisingOnce ==
  ASSUME NEW list \in Seq(Frame), Rising(list)
  PROVE  NoTwice(list)
<1>1. /\ Len(list) \in Nat /\ DOMAIN list = 1 .. Len(list)
      /\ \A i \in DOMAIN list : list[i] \in Frame
  OBVIOUS
<1> SUFFICES ASSUME NEW i \in DOMAIN list, NEW j \in DOMAIN list, list[i] = list[j], i # j
             PROVE  FALSE
  BY DEF NoTwice
<1>2. list[i].n \in Nat /\ list[j].n = list[i].n /\ (i < j \/ j < i)
  BY <1>1 DEF Frame
<1> QED BY <1>2 DEF Rising

\* Each internal queue is a part of the port's list.
LEMMA PartOfTheList ==
  ASSUME NEW k \in Seq(Frame), NEW list \in Seq(Frame), NEW q, Rising(list), Held(k, list, q)
  PROVE  IsPart(k, list, q)
<1>1. /\ Len(list) \in Nat /\ DOMAIN list = 1 .. Len(list)
      /\ \A i \in DOMAIN list : list[i] \in Frame
  OBVIOUS
<1>2. ASSUME NEW i \in DOMAIN k, NEW j \in DOMAIN k, i < j PROVE Before(list, k[i], k[j])
  <2>1. k[i] \in ToSet(list) /\ k[j] \in ToSet(list)
    BY DEF Held, ToSet
  <2>2. PICK a \in DOMAIN list, b \in DOMAIN list : list[a] = k[i] /\ list[b] = k[j]
    BY <2>1 DEF ToSet
  <2>3. k[i].n < k[j].n
    BY <1>2 DEF Held, Rising
  <2>4. a < b
    <3> SUFFICES ASSUME b <= a PROVE FALSE
      BY <1>1
    <3>1. a = b \/ list[b].n < list[a].n
      BY <1>1 DEF Rising
    <3>2. list[a].n \in Nat /\ list[b].n \in Nat
      BY <1>1 DEF Frame
    <3> QED BY <2>2, <2>3, <3>1, <3>2
  <2> QED BY <2>2, <2>4 DEF Before
<1> QED BY <1>2 DEF IsPart, Held

\* The bound on changes is kept.
Changes == changes \in 0 .. MaxInputs

LEMMA ChangesNext == FrameInv /\ Changes /\ [Next]_vars => Changes'
<1> SUFFICES ASSUME FrameInv, Changes, [Next]_vars PROVE Changes'
  OBVIOUS
<1>1. changes' = changes \/ (outputs + changes < MaxInputs /\ changes' = changes + 1)
  <2>1. ASSUME NEW p, NEW q, Send(p, q) PROVE changes' = changes
    BY <2>1 DEF Send
  <2>2. ASSUME NEW p, TransmitComplete(p) \/ Receive(p) PROVE changes' = changes
    BY <2>2 DEF TransmitComplete, Receive
  <2> QED BY <2>1, <2>2
          DEF Next, vars, Failover, SetLink, PortUpdateStates, PortMod, Connect,
              PortDescRequest, RoleRequest, SetAsync, Change
<1>2. outputs \in Nat
  BY PortsAssumption DEF FrameInv, FrameTypes
<1> QED BY <1>1, <1>2, PortsAssumption DEF Changes

\* The list of a port, which only keeps statistics right, has the frames of its
\* internal queues whatever order they leave in, those keep to their size, and no
\* frame waits behind a transmitter that is READY
\* (ofswitch13-queue.cc:191, point-to-point-ethernet-net-device.cc:306).
THEOREM TypeCorrect == Spec => []TypeOK
<1>1. Init => Changes
  BY PortsAssumption DEF Init, Changes
<1>2. FrameInv /\ [Next]_vars => FrameInv'
  BY FramesNext
<1>3. IInv /\ FrameInv /\ Changes => TypeOK
  <2> SUFFICES ASSUME IInv, FrameInv, Changes PROVE TypeOK
    OBVIOUS
  <2>1. ASSUME NEW p \in Ports
        PROVE  /\ NoTwice(frames[p])
               /\ \A q \in Queues : /\ IsPart(queue[p][q], frames[p], q)
                                    /\ Len(queue[p][q]) <= QueueSize
               /\ current[p] = NoFrame => frames[p] = << >>
    <3>1. /\ queue[p] \in [Queues -> Seq(Frame)] /\ frames[p] \in Seq(Frame) /\ Rising(frames[p])
          /\ \A q \in Queues : Held(queue[p][q], frames[p], q) /\ Len(queue[p][q]) <= QueueSize
          /\ current[p] = NoFrame => frames[p] = << >>
      BY DEF FrameInv, PortInv
    <3>2. NoTwice(frames[p]) /\ \A q \in Queues : IsPart(queue[p][q], frames[p], q)
      BY <3>1, RisingOnce, PartOfTheList
    <3> QED BY <3>1, <3>2
  <2> QED BY <2>1 DEF IInv, StatusType, FrameInv, FrameTypes, Changes, TypeOK
<1> QED BY <1>1, <1>2, <1>3, InitInv, NextInv, InitFrames, ChangesNext, PTL DEF Spec
------------------------------------------------------------------------------
(* The links keep the promise of FrameLines *)

LEMMA TakesIsTake ==
  ASSUME FrameInv, NEW p \in Ports, NEW q \in Queues, Takes(p, q)
  PROVE  Promise!Take(<<p, q>>)
<1> DEFINE l == <<p, q>>
<1>1. PICK f \in Frame : taken' = [taken EXCEPT ![p][q] = Append(@, f)]
  BY DEF Takes
<1>2. taken \in [Ports -> [Queues -> Seq(Frame)]]
  BY DEF FrameInv, FrameTypes
<1>3. PerQueue(taken)' = [PerQueue(taken) EXCEPT ![l] = Append(@, f)]
  <2>1. ASSUME NEW o \in Ports, NEW r \in Queues
        PROVE  taken'[o][r] = IF <<o, r>> = l THEN Append(taken[o][r], f) ELSE taken[o][r]
    BY <1>1, <1>2
  <2>2. ASSUME NEW k \in Ports \X Queues
        PROVE  taken'[k[1]][k[2]] = IF k = l THEN Append(taken[k[1]][k[2]], f) ELSE taken[k[1]][k[2]]
    BY <2>1
  <2> QED BY <2>2 DEF PerQueue
<1>4. f \in {PerQueue(taken)'[l][i] : i \in DOMAIN PerQueue(taken)'[l]}
  <2>1. l \in Ports \X Queues /\ PerQueue(taken)[l] = taken[p][q] /\ taken[p][q] \in Seq(Frame)
    BY <1>2 DEF PerQueue
  <2>2. PerQueue(taken)'[l] = Append(taken[p][q], f)
    BY <1>3, <2>1 DEF PerQueue
  <2>3. /\ Len(taken[p][q]) + 1 \in DOMAIN Append(taken[p][q], f)
        /\ Append(taken[p][q], f)[Len(taken[p][q]) + 1] = f
    BY <2>1
  <2> QED BY <2>2, <2>3
<1>5. PerQueue(arrived)' = PerQueue(arrived)
  BY DEF Takes, PerQueue
<1> QED BY <1>3, <1>4, <1>5 DEF Promise!Take

LEMMA ArrivesIsArrive ==
  ASSUME FrameInv, NEW p \in Ports, NEW q \in Queues, Arrives(p, q)
  PROVE  Promise!Arrive(<<p, q>>)
<1> DEFINE l == <<p, q>>
           f == taken[p][q][Len(arrived[p][q]) + 1]
<1>1. /\ Len(arrived[p][q]) < Len(taken[p][q])
      /\ arrived' = [arrived EXCEPT ![p][q] = Append(@, f)]
      /\ taken' = taken
  BY DEF Arrives
<1>2. /\ l \in Ports \X Queues /\ PerQueue(taken)[l] = taken[p][q]
      /\ PerQueue(arrived)[l] = arrived[p][q]
  BY DEF PerQueue
<1>3. arrived \in [Ports -> [Queues -> Seq(Frame)]]
  BY DEF FrameInv, FrameTypes
<1>4. PerQueue(arrived)' = [PerQueue(arrived) EXCEPT ![l] = Append(@, f)]
  <2> HIDE DEF f
  <2>1. ASSUME NEW o \in Ports, NEW r \in Queues
        PROVE  arrived'[o][r] = IF <<o, r>> = l THEN Append(arrived[o][r], f) ELSE arrived[o][r]
    BY <1>1, <1>3
  <2>2. ASSUME NEW k \in Ports \X Queues
        PROVE  arrived'[k[1]][k[2]] = IF k = l THEN Append(arrived[k[1]][k[2]], f) ELSE arrived[k[1]][k[2]]
    BY <2>1
  <2> QED BY <2>2 DEF PerQueue
<1>5. f = PerQueue(taken)[l][Len(PerQueue(arrived)[l]) + 1]
  BY <1>2
<1>6. PerQueue(taken)' = PerQueue(taken)
  BY <1>1 DEF PerQueue
<1> HIDE DEF f, l
<1>7. PerQueue(arrived)' =
        [PerQueue(arrived) EXCEPT ![l] = Append(@, PerQueue(taken)[l][Len(@) + 1])]
  BY <1>4, <1>5
<1>8. Promise!Arrive(l)
  BY <1>1, <1>2, <1>6, <1>7 DEF Promise!Arrive
<1> QED BY <1>8 DEF l

LEMMA PromiseNext ==
  ASSUME FrameInv, [Next]_vars
  PROVE  [Promise!Next]_(Promise!lines)
<1>1. CASE UNCHANGED <<taken, arrived>>
  BY <1>1 DEF Promise!lines, PerQueue
<1>2. CASE \E p \in Ports, q \in Queues : Takes(p, q) \/ Arrives(p, q)
  <2>1. PICK p \in Ports, q \in Queues : Takes(p, q) \/ Arrives(p, q)
    BY <1>2
  <2>2. Promise!Take(<<p, q>>) \/ Promise!Arrive(<<p, q>>)
    BY <2>1, TakesIsTake, ArrivesIsArrive
  <2> QED BY <2>2 DEF Promise!Next
<1> QED BY <1>1, <1>2, FramesNext

\* Whatever happens to the links, to the ports and to the transmitters, what arrives
\* at the other end is what the device took: each frame of a queue at most once, in
\* order, none passed over (ofswitch13-priority-queue.cc:75,
\* point-to-point-ethernet-net-device.cc:306). That every one arrives is the
\* fairness of LineSpec.
THEOREM FramesKeepOrder == Spec => Promise!Spec
<1>1. Init => Promise!Init
  BY DEF Init, Promise!Init, PerQueue
<1>2. FrameInv /\ [Next]_vars => FrameInv'
  BY FramesNext
<1>3. FrameInv /\ [Next]_vars => [Promise!Next]_(Promise!lines)
  BY PromiseNext
<1> QED BY <1>1, <1>2, <1>3, InitFrames, PTL DEF Spec, Promise!Spec
==============================================================================
