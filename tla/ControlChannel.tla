--------------------------- MODULE ControlChannel ---------------------------
(***************************************************************************)
(* A learning controller (ofswitch13-controller.cc and                     *)
(* ofswitch13-learning-controller.cc) and its switches: connection and     *)
(* handshake, dpctl commands given before and after it, barriers and       *)
(* echoes, and the addresses that the controller learns from packet-ins    *)
(* and forgets when their flow is removed.                                 *)
(*                                                                         *)
(* A connection is a FIFO of messages in each direction.  Transaction ids  *)
(* are counted for the messages that somebody waits for only, from 0 (the  *)
(* code starts anywhere in 32 bits; that it does not get to 0 again is     *)
(* assumed).  Hosts stay at their ports and the paths have no cycle, so    *)
(* that a port adds nothing to an address; flow tables have room for a     *)
(* flow per address.                                                       *)
(***************************************************************************)
EXTENDS Naturals, Lists, SequencesExt, FiniteSets

CONSTANTS
  Switches,
  UserCommands,   \* dpctl commands of the scenario, without effect on learned flows
  Unsupported,    \* those that DpctlExecute refuses: ping, monitor, set-desc, ...
  Macs,           \* addresses of hosts
  MaxInputs       \* bound: commands, echo requests and packets that no flow matches

Setup == <<"table_miss", "set_config">>
Commands == UserCommands \cup Macs \cup Range(Setup)

ASSUME ChannelAssumption ==
  /\ Unsupported \subseteq UserCommands
  /\ UserCommands \cap (Macs \cup Range(Setup)) = {}
  /\ Macs \cap Range(Setup) = {}
  /\ MaxInputs \in Nat /\ IsFiniteSet(Switches)

Xid == 0 .. Cardinality(Switches) + MaxInputs

Command(c) == [type |-> "command", cmd |-> c]

Request ==
  [type : {"hello", "features_request", "packet_out"}]
    \cup [type : {"barrier_request", "echo_request"}, xid : Xid]
    \cup {Command(c) : c \in Commands}

Report ==
  [type : {"hello", "features_reply"}]
    \cup [type : {"barrier_reply", "echo_reply"}, xid : Xid]
    \cup [type : {"packet_in", "flow_removed"}, mac : Macs]

VARIABLES
  connected,    \* switches whose connection was accepted (m_remote)
  refused,      \* switches whose connection was refused
  accepted,     \* m_addrSwMap
  registered,   \* m_dpIdSwMap
  pending,      \* m_commandsMap: the queue of a switch
  barriers,     \* m_barrierMap: xid to switch
  echoes,       \* m_echoMap: xid to switch
  xid,          \* m_xid
  learned,      \* m_learnedInfo: addresses known at a switch
  flows,        \* learned flows in the table of a switch, per address
  executed,     \* history: the commands a switch handled
  toSwitch, toCtrl,
  inputs        \* commands, echo requests and packets so far

controller == <<accepted, registered, pending, barriers, echoes, xid, learned>>
switch == <<connected, refused, flows, executed>>
vars == <<controller, switch, toSwitch, toCtrl, inputs>>

TypeOK ==
  /\ connected \subseteq Switches /\ refused \subseteq Switches
  /\ accepted \subseteq connected /\ registered \subseteq accepted
  /\ connected \cap refused = {}
  /\ pending \in [Switches -> Seq(UserCommands)]
  /\ xid \in Xid
  /\ DOMAIN barriers \subseteq 1 .. xid /\ DOMAIN echoes \subseteq 1 .. xid
  /\ Range(barriers) \subseteq accepted /\ Range(echoes) \subseteq accepted
  /\ learned \in [Switches -> SUBSET Macs]
  /\ flows \in [Switches -> [Macs -> 0 .. 1]]
  /\ executed \in [Switches -> Seq(Commands \ Unsupported)]
  /\ toSwitch \in [Switches -> Seq(Request)]
  /\ toCtrl \in [Switches -> Seq(Report)]
  /\ inputs \in 0 .. MaxInputs

Init ==
  /\ connected = {} /\ refused = {} /\ accepted = {} /\ registered = {}
  /\ pending = [s \in Switches |-> << >>]
  /\ barriers = << >> /\ echoes = << >> /\ xid = 0
  /\ learned = [s \in Switches |-> {}]
  /\ flows = [s \in Switches |-> [m \in Macs |-> 0]]
  /\ executed = [s \in Switches |-> << >>]
  /\ toSwitch = [s \in Switches |-> << >>]
  /\ toCtrl = [s \in Switches |-> << >>]
  /\ inputs = 0
------------------------------------------------------------------------------
(* Messages *)

SendToSwitch(s, ms) == toSwitch' = [toSwitch EXCEPT ![s] = @ \o ms]
SendToController(s, m) == toCtrl' = [toCtrl EXCEPT ![s] = Append(@, m)]

\* The message of this type at the head of a connection.
AtController(s, type) ==
  s \in accepted /\ toCtrl[s] # << >> /\ Head(toCtrl[s]).type = type
AtSwitch(s, type) == toSwitch[s] # << >> /\ Head(toSwitch[s]).type = type

ReceiveFromSwitch(s) == toCtrl' = [toCtrl EXCEPT ![s] = Tail(@)]
ReceiveFromController(s) == toSwitch' = [toSwitch EXCEPT ![s] = Tail(@)]

\* std::map::insert.
Insert(map, key, value) ==
  [k \in DOMAIN map \cup {key} |-> IF k \in DOMAIN map THEN map[k] ELSE value]
Erase(map, key) == [k \in DOMAIN map \ {key} |-> map[k]]

\* Mutant: the id is read and not counted.
GetNextXid_Same == xid
GetNextXid == xid + 1

\* What DpctlExecute sends for commands of a registered switch.  Mutant: without
\* the test for unsupported ones.
Supported_All(cs) == cs
Supported(cs) == Only(cs, Commands \ Unsupported)

AsMessages(cs) == [i \in DOMAIN cs |-> Command(cs[i])]
------------------------------------------------------------------------------
(* Connection: the switch hears first that it is established *)

SocketCtrlSucceeded(s) ==
  /\ s \notin connected \cup refused
  /\ connected' = connected \cup {s}
  /\ SendToController(s, [type |-> "hello"])
  /\ UNCHANGED <<controller, refused, flows, executed, toSwitch, inputs>>

SocketCtrlFailed(s) ==
  /\ s \notin connected \cup refused
  /\ refused' = refused \cup {s}
  /\ UNCHANGED <<controller, connected, flows, executed, toSwitch, toCtrl, inputs>>

SocketAccept(s) ==
  /\ s \in connected \ accepted
  /\ accepted' = accepted \cup {s}
  /\ SendToSwitch(s, <<[type |-> "hello"]>>)
  /\ UNCHANGED <<registered, pending, barriers, echoes, xid, learned, switch, toCtrl, inputs>>
------------------------------------------------------------------------------
(* The controller *)

Input == inputs < MaxInputs /\ inputs' = inputs + 1

DpctlExecute(s, c) ==
  /\ Input
  /\ \/ /\ s \in registered
        /\ SendToSwitch(s, AsMessages(Supported(<<c>>)))
        /\ UNCHANGED pending
     \/ /\ s \notin registered
        /\ pending' = [pending EXCEPT ![s] = Append(@, c)]
        /\ UNCHANGED toSwitch
  /\ UNCHANGED <<accepted, registered, barriers, echoes, xid, learned, switch, toCtrl>>

SendEchoRequest(s) ==
  /\ s \in registered /\ Input
  /\ xid' = GetNextXid
  /\ echoes' = Insert(echoes, xid', s)
  /\ SendToSwitch(s, <<[type |-> "echo_request", xid |-> xid']>>)
  /\ UNCHANGED <<accepted, registered, pending, barriers, learned, switch, toCtrl>>

\* Asks for the features and sends a barrier request.
HandleHello(s) ==
  /\ AtController(s, "hello") /\ ReceiveFromSwitch(s)
  /\ xid' = GetNextXid
  /\ barriers' = Insert(barriers, xid', s)
  /\ SendToSwitch(s, <<[type |-> "features_request"],
                       [type |-> "barrier_request", xid |-> xid']>>)
  /\ UNCHANGED <<accepted, registered, pending, echoes, learned, switch, inputs>>

\* The commands that go out when the handshake ends: those that waited, then
\* those of HandshakeSuccessful.  Mutant: in the opposite order.
AtHandshake_SetupFirst(s) == Setup \o Supported(pending[s])
AtHandshake(s) == Supported(pending[s]) \o Setup

\* Mutant: the queue stays.
Drained_Never(s) == pending
Drained(s) == [pending EXCEPT ![s] = << >>]

HandleFeaturesReply(s) ==
  /\ AtController(s, "features_reply") /\ ReceiveFromSwitch(s)
  /\ registered' = registered \cup {s}
  /\ pending' = Drained(s)
  /\ SendToSwitch(s, AsMessages(AtHandshake(s)))
  /\ UNCHANGED <<accepted, barriers, echoes, xid, learned, switch, inputs>>

HandleBarrierReply(s) ==
  /\ AtController(s, "barrier_reply") /\ ReceiveFromSwitch(s)
  /\ barriers' = Erase(barriers, Head(toCtrl[s]).xid)
  /\ UNCHANGED <<accepted, registered, pending, echoes, xid, learned, switch, toSwitch, inputs>>

HandleEchoReply(s) ==
  /\ AtController(s, "echo_reply") /\ ReceiveFromSwitch(s)
  /\ echoes' = Erase(echoes, Head(toCtrl[s]).xid)
  /\ UNCHANGED <<accepted, registered, pending, barriers, xid, learned, switch, toSwitch, inputs>>

\* An unknown source is learned and gets a flow.  The packet goes back in any
\* case.  Mutant: the flow is sent, the address is not kept.
Learn_Forgets(s, m) == learned
Learn(s, m) == [learned EXCEPT ![s] = @ \cup {m}]

HandlePacketIn(s) ==
  /\ AtController(s, "packet_in") /\ ReceiveFromSwitch(s)
  /\ LET m == Head(toCtrl[s]).mac
         new == IF m \in learned[s] THEN << >> ELSE <<m>> IN
       /\ learned' = Learn(s, m)
       /\ SendToSwitch(s, Append(AsMessages(new), [type |-> "packet_out"]))
  /\ UNCHANGED <<accepted, registered, pending, barriers, echoes, xid, switch, inputs>>

HandleFlowRemoved(s) ==
  /\ AtController(s, "flow_removed") /\ ReceiveFromSwitch(s)
  /\ learned' = [learned EXCEPT ![s] = @ \ {Head(toCtrl[s]).mac}]
  /\ UNCHANGED <<accepted, registered, pending, barriers, echoes, xid, switch, toSwitch, inputs>>
------------------------------------------------------------------------------
(* The switches *)

\* A hello, and a packet-out, change nothing here.
HandleOther(s) ==
  /\ AtSwitch(s, "hello") \/ AtSwitch(s, "packet_out")
  /\ ReceiveFromController(s)
  /\ UNCHANGED <<controller, switch, toCtrl, inputs>>

HandleFeaturesRequest(s) ==
  /\ AtSwitch(s, "features_request") /\ ReceiveFromController(s)
  /\ SendToController(s, [type |-> "features_reply"])
  /\ UNCHANGED <<controller, switch, inputs>>

HandleBarrierRequest(s) ==
  /\ AtSwitch(s, "barrier_request") /\ ReceiveFromController(s)
  /\ SendToController(s, [type |-> "barrier_reply", xid |-> Head(toSwitch[s]).xid])
  /\ UNCHANGED <<controller, switch, inputs>>

HandleEchoRequest(s) ==
  /\ AtSwitch(s, "echo_request") /\ ReceiveFromController(s)
  /\ SendToController(s, [type |-> "echo_reply", xid |-> Head(toSwitch[s]).xid])
  /\ UNCHANGED <<controller, switch, inputs>>

\* Every learned flow has a priority of its own, so that none replaces another.
HandleCommand(s) ==
  /\ AtSwitch(s, "command") /\ ReceiveFromController(s)
  /\ LET c == Head(toSwitch[s]).cmd IN
       /\ executed' = [executed EXCEPT ![s] = Append(@, c)]
       /\ flows' = IF c \in Macs THEN [flows EXCEPT ![s][c] = @ + 1] ELSE flows
  /\ UNCHANGED <<controller, connected, refused, toCtrl, inputs>>

\* A packet from m that no learned flow matches, once the table-miss flow is there.
PacketIn(s, m) ==
  /\ Input
  /\ "table_miss" \in Range(executed[s])
  /\ SendToController(s, [type |-> "packet_in", mac |-> m])
  /\ UNCHANGED <<controller, switch, toSwitch>>

\* The idle timeout of a learned flow.
FlowTimeout(s, m) ==
  /\ flows[s][m] > 0
  /\ flows' = [flows EXCEPT ![s][m] = @ - 1]
  /\ SendToController(s, [type |-> "flow_removed", mac |-> m])
  /\ UNCHANGED <<controller, connected, refused, executed, toSwitch, inputs>>

Connection(s) == SocketCtrlSucceeded(s) \/ SocketCtrlFailed(s) \/ SocketAccept(s)

HandleSwitchMsg(s) ==
  \/ HandleHello(s) \/ HandleFeaturesReply(s) \/ HandleBarrierReply(s)
  \/ HandleEchoReply(s) \/ HandlePacketIn(s) \/ HandleFlowRemoved(s)

HandleControlMsg(s) ==
  \/ HandleOther(s) \/ HandleFeaturesRequest(s) \/ HandleBarrierRequest(s)
  \/ HandleEchoRequest(s) \/ HandleCommand(s)

Next ==
  \E s \in Switches :
    \/ Connection(s) \/ HandleSwitchMsg(s) \/ HandleControlMsg(s)
    \/ SendEchoRequest(s)
    \/ \E c \in UserCommands : DpctlExecute(s, c)
    \/ \E m \in Macs : PacketIn(s, m) \/ FlowTimeout(s, m)

Spec == Init /\ [][Next]_vars

\* TCP delivers, and a connection is accepted or refused.
Fairness ==
  \A s \in Switches :
    WF_vars(Connection(s)) /\ WF_vars(HandleSwitchMsg(s)) /\ WF_vars(HandleControlMsg(s))

FairSpec == Spec /\ Fairness
------------------------------------------------------------------------------
(* Properties *)

CommandsIn(q) ==
  LET ms == Only(q, {Command(c) : c \in Commands}) IN [i \in DOMAIN ms |-> ms[i].cmd]

Unexecuted(s) == CommandsIn(toSwitch[s]) \o Supported(pending[s])

\* Commands given before, during or after the handshake reach their switch once
\* and in the order they were given, those of HandshakeSuccessful among them.
Promise ==
  INSTANCE CommandQueue WITH
    queue <- [s \in Switches |-> Unexecuted(s)], done <- executed
CommandQueueSpec == Promise!Spec

Times(q, m) == Cardinality({i \in DOMAIN q : q[i] = m})

\* A barrier or echo of the controller is waited for exactly as long as its
\* request or its reply is under way with the switch it was sent to: no reply is
\* unknown ("Barrier response for unknonw barrier request"), none stays out.
RepliesAreExpected ==
  \A s \in Switches : \A x \in Xid :
    /\ Times(toSwitch[s], [type |-> "barrier_request", xid |-> x])
         + Times(toCtrl[s], [type |-> "barrier_reply", xid |-> x])
       = IF x \in DOMAIN barriers /\ barriers[x] = s THEN 1 ELSE 0
    /\ Times(toSwitch[s], [type |-> "echo_request", xid |-> x])
         + Times(toCtrl[s], [type |-> "echo_reply", xid |-> x])
       = IF x \in DOMAIN echoes /\ echoes[x] = s THEN 1 ELSE 0

\* The controller knows an address exactly as long as one flow for it exists,
\* is being installed, or its removal is being reported, also when packet-ins
\* and flow-removed messages for it cross.
KnownMeansOneFlow ==
  \A s \in Switches : \A m \in Macs :
    Times(toSwitch[s], Command(m)) + flows[s][m]
      + Times(toCtrl[s], [type |-> "flow_removed", mac |-> m])
    = IF m \in learned[s] THEN 1 ELSE 0

\* What was given to a switch that connects is executed, and what the controller
\* waits for is answered.
Settled(s) == Unexecuted(s) = << >> /\ s \notin Range(barriers) \cup Range(echoes)
EverythingArrives == \A s \in Switches : s \in connected ~> Settled(s)
==============================================================================
