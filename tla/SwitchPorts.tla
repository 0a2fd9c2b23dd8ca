----------------------------- MODULE SwitchPorts -----------------------------
(***************************************************************************)
(* The ports of a switch (OFSwitch13Port), their queues                    *)
(* (OFSwitch13PriorityQueue), the devices and channels behind them         *)
(* (PointToPointEthernet), links that fail and come back (parse-links),    *)
(* and the fast failover group that looks at the ports' states.            *)
(*                                                                         *)
(* A device does not tell its port when its link changes: the switch looks *)
(* once per period.  Both devices of a link change in one event.  A        *)
(* transmission has two events, its completion at the sender and its       *)
(* arrival at the other end; lengths and delays decide how they interleave *)
(* with those of other frames, except that arrivals keep their order.      *)
(*                                                                         *)
(* Controllers hear of ports by port status messages, which they may turn  *)
(* off, and by asking.  Their roles only matter here for which messages    *)
(* they get and whether they may modify ports: ControllerRoles has the     *)
(* generation ids, by which requests may also be refused.                  *)
(***************************************************************************)
EXTENDS Integers, Sequences, Lists, SequencesExt, FiniteSetsExt

CONSTANTS
  Ports,         \* numbers of the ports; the group's buckets watch them in order
  Queues,        \* ids of a port's queues, the smallest is served first
  Controllers,
  QueueSize,     \* what an internal queue holds: 100 frames
  MaxFrames,     \* bound: frames that the pipeline outputs
  MaxInputs      \* bound: those, link changes and requests together

ASSUME PortsAssumption ==
  /\ Ports \subseteq Nat /\ Queues \subseteq Nat
  /\ QueueSize \in Nat \ {0} /\ MaxFrames \in Nat /\ MaxInputs \in Nat

VARIABLES
  up,          \* m_linkUp of the port's device
  portDown,    \* OFPPC_PORT_DOWN, configuration
  linkDown,    \* OFPPS_LINK_DOWN, state
  live,        \* OFPPS_LIVE, state
  connected,   \* controllers that the switch is connected to
  role,        \* remote->role
  mask,        \* OFPPR_MODIFY in port_status_mask, of a master or equal and of a slave
  told,        \* history: what each controller was last told of a port: a
               \* description, or none
  missed,      \* history: ports that changed while the mask of a controller kept
               \* messages from it, of which it was not told since
  queue,       \* the internal queues of each port
  frames,      \* what OFSwitch13Queue itself holds: all frames of those
  current,     \* m_currentPkt; the transmitter is READY without one
  wire,        \* arrivals that are scheduled at the other end
  taken,       \* history: per queue, the frames that the device took, oldest first
  arrived,     \* history: per queue, the frames that arrived at the other end
  changed,     \* ports whose link changed since the switch last looked
  outputs,     \* frames that the pipeline output
  changes      \* link changes, and requests of controllers

status == <<portDown, linkDown, live>>
remote == <<connected, role, mask, told, missed>>
line == <<queue, frames, current, wire, taken, arrived, outputs>>
vars == <<up, status, remote, line, changed, changes>>

NoFrame == [n |-> 0, queue |-> 0]
Frame == [n : Nat, queue : Queues]

\* A queue has the frames of a list that are its own, in the order of the list.
IsPart(part, list, q) ==
  /\ ToSet(part) = {f \in ToSet(list) : f.queue = q}
  /\ \A i, j \in DOMAIN part : i < j => Before(list, part[i], part[j])

Roles == {"equal", "master", "slave"}
Mask == [master : BOOLEAN, slave : BOOLEAN]

\* A port as its description shows it, in a port status or a reply.
PortDesc == [portDown : BOOLEAN, linkDown : BOOLEAN, live : BOOLEAN]
Desc(p) == [portDown |-> portDown[p], linkDown |-> linkDown[p], live |-> live[p]]

TypeOK ==
  /\ up \in [Ports -> BOOLEAN] /\ changed \in SUBSET Ports
  /\ portDown \in [Ports -> BOOLEAN]
  /\ linkDown \in [Ports -> BOOLEAN] /\ live \in [Ports -> BOOLEAN]
  /\ connected \in SUBSET Controllers
  /\ role \in [Controllers -> Roles] /\ mask \in [Controllers -> Mask]
  /\ told \in [Controllers -> [Ports -> SUBSET PortDesc]]
  /\ missed \in [Controllers -> SUBSET Ports]
  /\ queue \in [Ports -> [Queues -> Seq(Frame)]] /\ frames \in [Ports -> Seq(Frame)]
  /\ current \in [Ports -> Frame \cup {NoFrame}]
  /\ wire \in [Ports -> Seq(Frame)]
  /\ taken \in [Ports -> [Queues -> Seq(Frame)]] /\ arrived \in [Ports -> [Queues -> Seq(Frame)]]
  /\ outputs \in 0 .. MaxFrames /\ changes \in 0 .. MaxInputs
  \* The list of a port, which only keeps statistics right, holds the frames of
  \* the internal queues, whatever order they leave in, and those keep to their
  \* size; no frame waits behind a transmitter that is READY.
  /\ \A p \in Ports :
       /\ NoTwice(frames[p])
       /\ \A q \in Queues : IsPart(queue[p][q], frames[p], q) /\ Len(queue[p][q]) <= QueueSize
       /\ current[p] = NoFrame => frames[p] = << >>

\* Attach brings the link up; the port is live when it is constructed.
Init ==
  /\ up = [p \in Ports |-> TRUE] /\ changed = {}
  /\ portDown = [p \in Ports |-> FALSE]
  /\ linkDown = [p \in Ports |-> FALSE] /\ live = [p \in Ports |-> TRUE]
  /\ connected = {}
  /\ role = [c \in Controllers |-> "equal"]
  /\ mask = [c \in Controllers |-> [master |-> TRUE, slave |-> TRUE]]
  /\ told = [c \in Controllers |-> [p \in Ports |-> {}]]
  /\ missed = [c \in Controllers |-> {}]
  /\ queue = [p \in Ports |-> [q \in Queues |-> << >>]]
  /\ frames = [p \in Ports |-> << >>]
  /\ current = [p \in Ports |-> NoFrame]
  /\ wire = [p \in Ports |-> << >>]
  /\ taken = [p \in Ports |-> [q \in Queues |-> << >>]]
  /\ arrived = [p \in Ports |-> [q \in Queues |-> << >>]]
  /\ outputs = 0 /\ changes = 0

(* Frames *)

\* Mutant: the one that waits longest in the port's list leaves it.
NotifyDequeue_Head(list, f) == Tail(list)

\* As it is not known where it is, the loop looks for it.
NotifyDequeue(list, f) == RemoveAt(list, FirstPlace(list, {f}))

\* The device of port p, READY, whose queues hold qs and together list, asks
\* its queue for a frame and starts to transmit it.
TransmitNext(p, qs, list) ==
  LET waiting == {q \in Queues : qs[q] # << >>}
      first == Min(waiting)
      f == Head(qs[first]) IN
  \/ /\ waiting = {}
     /\ queue' = [queue EXCEPT ![p] = qs] /\ frames' = [frames EXCEPT ![p] = list]
     /\ current' = [current EXCEPT ![p] = NoFrame]
     /\ UNCHANGED wire
  \/ /\ waiting # {}
     /\ queue' = [queue EXCEPT ![p] = [qs EXCEPT ![first] = Tail(@)]]
     /\ frames' = [frames EXCEPT ![p] = NotifyDequeue(list, f)]
     /\ current' = [current EXCEPT ![p] = f]
     /\ wire' = [wire EXCEPT ![p] = Append(@, f)]

\* SendFrom.
DeviceSend(p, f) ==
  \/ /\ ~up[p] \/ Len(queue[p][f.queue]) >= QueueSize
     /\ UNCHANGED <<queue, frames, current, wire, taken>>
  \/ /\ up[p] /\ Len(queue[p][f.queue]) < QueueSize
     /\ taken' = [taken EXCEPT ![p][f.queue] = Append(@, f)]
     /\ LET qs == [queue[p] EXCEPT ![f.queue] = Append(@, f)]
            list == Append(frames[p], f) IN
        IF current[p] = NoFrame THEN TransmitNext(p, qs, list)
        ELSE /\ queue' = [queue EXCEPT ![p] = qs] /\ frames' = [frames EXCEPT ![p] = list]
             /\ UNCHANGED <<current, wire>>

\* OFSwitch13Port::Send of the next frame.
Send(p, q) ==
  /\ outputs < MaxFrames /\ outputs + changes < MaxInputs
  /\ outputs' = outputs + 1
  /\ IF portDown[p] THEN UNCHANGED <<queue, frames, current, wire, taken>>
     ELSE DeviceSend(p, [n |-> outputs + 1, queue |-> q])
  /\ UNCHANGED <<up, status, remote, arrived, changed, changes>>

\* Mutant: only the configuration counts.
BucketIsAlive_Config(p) == ~portDown[p]

BucketIsAlive(p) == ~portDown[p] /\ ~linkDown[p]

\* select_from_ff_group: the first live bucket, or none.
Failover(q) ==
  LET live_ == {p \in Ports : BucketIsAlive(p)} IN
  /\ live_ # {}
  /\ Send(Min(live_), q)

\* Mutant: a device whose link is down starts nothing new.
GoesOn_IfUp(p) == up[p]

\* Whatever the link, the next frame follows.
GoesOn(p) == TRUE

TransmitComplete(p) ==
  /\ current[p] # NoFrame
  /\ IF GoesOn(p) THEN TransmitNext(p, queue[p], frames[p])
     ELSE current' = [current EXCEPT ![p] = NoFrame] /\ UNCHANGED <<queue, frames, wire>>
  /\ UNCHANGED <<up, status, remote, taken, arrived, outputs, changed, changes>>

Receive(p) ==
  /\ wire[p] # << >>
  /\ wire' = [wire EXCEPT ![p] = Tail(@)]
  /\ arrived' = [arrived EXCEPT ![p][Head(wire[p]).queue] = Append(@, Head(wire[p]))]
  /\ UNCHANGED <<up, status, remote, queue, frames, current, taken, outputs,
                 changed, changes>>

(* Links and ports *)

Change ==
  /\ outputs + changes < MaxInputs
  /\ changes' = changes + 1

\* SetLinkDown or SetLinkUp, as the list of failures says; a line of the list
\* that changes nothing is a stutter.
SetLink(p) ==
  /\ Change
  /\ up' = [up EXCEPT ![p] = ~@]
  /\ changed' = changed \cup {p}
  /\ UNCHANGED <<status, remote, line>>

\* dp_port_live_update of ps, with the other bits after the step.
LiveUpdate(ps) ==
  live' = [p \in Ports |-> IF p \in ps THEN ~linkDown'[p] /\ ~portDown'[p] ELSE live[p]]

\* Whether a controller gets messages with the reason OFPPR_MODIFY.
Wants(c) == IF role[c] = "slave" THEN mask[c].slave ELSE mask[c].master
Hears(c) == c \in connected /\ Wants(c)

\* Port status messages about ps go to the controllers whose masks let them.
SendStatus(ps) ==
  /\ told' = [c \in Controllers |-> [p \in Ports |->
                IF Hears(c) /\ p \in ps THEN {Desc(p)'} ELSE told[c][p]]]
  /\ missed' = [c \in Controllers |->
                  IF Hears(c) THEN missed[c] \ ps
                  ELSE missed[c] \cup {p \in Ports : Desc(p)' # Desc(p)}]

\* Mutant: the switch only tells of links that went down.
Differs_Down(p) == linkDown'[p] /\ ~linkDown[p]

\* PortUpdateState compares all bits of the state.
Differs(p) == linkDown'[p] # linkDown[p] \/ live'[p] # live[p]

\* DatapathTimeout: PortUpdateState of every port.
PortUpdateStates ==
  /\ UNCHANGED portDown
  /\ linkDown' = [p \in Ports |-> ~up[p]]
  /\ LiveUpdate(Ports)
  /\ SendStatus({p \in Ports : Differs(p)})
  /\ changed' = {}
  /\ UNCHANGED <<up, connected, role, mask, line, changes>>

\* dp_ports_handle_port_mod, not from a slave, with a mask that has
\* OFPPC_PORT_DOWN; others change nothing that is here, though they too are
\* followed by a status.
PortMod(p, b) ==
  /\ \E c \in connected : role[c] # "slave"
  /\ Change
  /\ portDown' = [portDown EXCEPT ![p] = b]
  /\ UNCHANGED linkDown
  /\ LiveUpdate({p})
  /\ SendStatus({p})
  /\ UNCHANGED <<up, connected, role, mask, line, changed>>

\* SocketCtrlSucceeded and remote_create: an equal that gets everything, and is
\* told of no port.
Connect(c) ==
  /\ c \notin connected
  /\ connected' = connected \cup {c}
  /\ UNCHANGED <<up, status, role, mask, told, missed, line, changed, changes>>

\* dp_handle_role_request; a new master makes the old one a slave.
RoleRequest(c, r) ==
  /\ c \in connected /\ Change
  /\ role' = [d \in Controllers |->
                IF d = c THEN r
                ELSE IF r = "master" /\ role[d] = "master" THEN "slave" ELSE role[d]]
  /\ UNCHANGED <<up, status, connected, mask, told, missed, line, changed>>

\* dp_handle_async_request, OFPT_SET_ASYNC.
SetAsync(c, m) ==
  /\ c \in connected /\ Change
  /\ mask' = [mask EXCEPT ![c] = m]
  /\ UNCHANGED <<up, status, connected, role, told, missed, line, changed>>

\* dp_ports_handle_port_desc_request: the reply has the description of each port.
PortDescRequest(c) ==
  /\ c \in connected /\ Change
  /\ told' = [told EXCEPT ![c] = [p \in Ports |-> {Desc(p)}]]
  /\ missed' = [missed EXCEPT ![c] = {}]
  /\ UNCHANGED <<up, status, connected, role, mask, line, changed>>

Next ==
  \/ \E p \in Ports, q \in Queues : Send(p, q)
  \/ \E q \in Queues : Failover(q)
  \/ \E p \in Ports : TransmitComplete(p) \/ Receive(p) \/ SetLink(p)
  \/ PortUpdateStates
  \/ \E p \in Ports, b \in BOOLEAN : PortMod(p, b)
  \/ \E c \in Controllers :
       \/ Connect(c) \/ PortDescRequest(c)
       \/ \E r \in Roles : RoleRequest(c, r)
       \/ \E m \in Mask : SetAsync(c, m)

Spec == Init /\ [][Next]_vars

\* Scheduled events happen.
FairSpec ==
  /\ Spec
  /\ \A p \in Ports : WF_vars(TransmitComplete(p)) /\ WF_vars(Receive(p))
------------------------------------------------------------------------------
(* Properties *)

\* What a controller was told of a port, by a status or a reply, is what the switch
\* knows of it, however polls, port modifications, new roles and masks interleave:
\* only a change that the mask of its role kept from it may have passed since
\* (ofswitch13-port.cc:221, dp_ports.c:774, datapath.c:496).
NoChangeGoesUntold ==
  \A c \in Controllers : \A p \in Ports \ missed[c] : told[c][p] \subseteq {Desc(p)}

\* The failover group is one period behind: it passes over a port that works,
\* or chooses one that does not, only if its link changed in this period.
FailoverIsAPeriodBehind ==
  \A p \in Ports \ changed : BucketIsAlive(p) <=> up[p] /\ ~portDown[p]

\* The links keep the promise of FrameLines: what a device took arrives, once
\* and, within a queue, in order, also when the link fails meanwhile.
PerQueue(history) == [l \in Ports \X Queues |-> history[l[1]][l[2]]]

Promise == INSTANCE FrameLines WITH
             Lines <- Ports \X Queues,
             taken <- PerQueue(taken),
             arrived <- PerQueue(arrived)

LineSpec == Promise!FairSpec
==============================================================================
