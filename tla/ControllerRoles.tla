--------------------------- MODULE ControllerRoles ---------------------------
(***************************************************************************)
(* The roles of the controllers of one switch: role requests with their     *)
(* generation ids, what a slave may change and which asynchronous messages  *)
(* each controller gets (datapath.c, dp_control.c).                         *)
(*                                                                          *)
(* The controllers are outside the code.  They agree on masters elsewhere,  *)
(* as the generation ids of OpenFlow assume: every election has a number    *)
(* greater than those before it.  Their requests wait in FIFO channels, one *)
(* per controller, so that the switch sees those of different controllers   *)
(* in any order.                                                            *)
(*                                                                          *)
(* "mod" stands for the six requests that begin with the same test of the   *)
(* sender's role: packet-out, flow-mod, group-mod, meter-mod, table-mod and *)
(* port-mod.  The reasons within a type of asynchronous message are not     *)
(* told apart: the code treats their bits alike.                            *)
(***************************************************************************)
EXTENDS Integers, Sequences

CONSTANTS
  Controllers,
  Half,           \* 2^63: generation ids are unsigned, their order is signed
  Masks,          \* the configurations that controllers ask for
  MaxElections,   \* bound: elections
  MaxRequests,    \* bound: requests
  MaxEvents       \* bound: events that the switch reports

Nobody == "nobody"

Async == {"packet_in", "flow_removed", "port_status"}

Mask == [master : SUBSET Async, slave : SUBSET {"port_status"}]

ASSUME RolesAssumption ==
  /\ Half \in Nat /\ MaxElections \in Nat /\ MaxElections + 1 < Half
  /\ MaxRequests \in Nat /\ MaxEvents \in Nat
  /\ Masks \subseteq Mask
  /\ Nobody \notin Controllers

Roles == {"equal", "master", "slave"}
GenerationId == 0 .. 2 * Half - 1
Terms == 0 .. MaxElections

\* Every request carries the election its sender knew of: for requests for the
\* master or slave role this is the generation_id of the message, for the
\* others it is kept for the properties only.
Request ==
  [type : {"role"}, role : Roles \cup {"nochange"}, gen : Terms]
    \cup [type : {"mod"}, gen : Terms]
    \cup [type : {"async"}, mask : Masks, gen : Terms]

Report == [type : Async] \cup [type : {"role_reply"}, role : Roles]
            \cup [type : {"error"}]

VARIABLES
  remotes,      \* dp->remotes: the controllers that are connected
  role,         \* remote->role
  mask,         \* remote->config
  generation,   \* dp->generation_id
  toSwitch,     \* requests under way, oldest first
  toCtrl,       \* replies and asynchronous messages under way
  winner,       \* the winner of each election
  term,         \* the election a controller has told the switch of last
  asked,        \* the role a controller has asked for last
  told,         \* the role a controller has last been told
  seen,         \* history: the election of the last request handled
  fence,        \* history: that of the last change by a master
  requests, events

datapath == <<remotes, role, mask, generation>>
channels == <<toSwitch, toCtrl>>
outside == <<winner, term, asked, told, requests>>
vars == <<datapath, channels, outside, seen, fence, events>>

TypeOK ==
  /\ remotes \in SUBSET Controllers
  /\ role \in [Controllers -> Roles]
  /\ mask \in [Controllers -> Mask]
  /\ generation \in GenerationId
  /\ toSwitch \in [Controllers -> Seq(Request)]
  /\ toCtrl \in [Controllers -> Seq(Report)]
  /\ winner \in Seq(Controllers) /\ Len(winner) \in Terms
  /\ term \in [Controllers -> Terms]
  /\ asked \in [Controllers -> Roles]
  /\ told \in [Controllers -> Roles]
  /\ seen \in [Controllers -> Terms]
  /\ fence \in Terms
  /\ requests \in 0 .. MaxRequests
  /\ events \in 0 .. MaxEvents

\* DatapathNew: generation_id is set to -1, the greatest id.
Init ==
  /\ remotes = {}
  /\ role = [c \in Controllers |-> "equal"]
  /\ mask = [c \in Controllers |-> [master |-> Async, slave |-> {"port_status"}]]
  /\ generation = 2 * Half - 1
  /\ toSwitch = [c \in Controllers |-> << >>]
  /\ toCtrl = [c \in Controllers |-> << >>]
  /\ winner = << >>
  /\ term = [c \in Controllers |-> 0]
  /\ asked = [c \in Controllers |-> "equal"]
  /\ told = [c \in Controllers |-> "equal"]
  /\ seen = [c \in Controllers |-> 0]
  /\ fence = 0
  /\ requests = 0
  /\ events = 0
------------------------------------------------------------------------------
(* The controllers *)

Send(c, r) ==
  /\ c \in remotes /\ requests < MaxRequests
  /\ requests' = requests + 1
  /\ toSwitch' = [toSwitch EXCEPT ![c] = Append(@, r)]
  /\ UNCHANGED <<datapath, toCtrl, told, seen, fence, events>>

Ask(c, r, t) ==
  /\ Send(c, [type |-> "role", role |-> r, gen |-> t])
  /\ term' = [term EXCEPT ![c] = t]
  /\ asked' = [asked EXCEPT ![c] = r]

\* The winner of an election asks to be the master, perhaps again.
AskMaster(c) ==
  \/ /\ Len(winner) < MaxElections
     /\ winner' = Append(winner, c)
     /\ Ask(c, "master", Len(winner) + 1)
  \/ /\ term[c] > 0 /\ winner[term[c]] = c
     /\ Ask(c, "master", term[c])
     /\ UNCHANGED winner

\* A controller that has heard of an election, not always the last one.
AskSlave(c) ==
  /\ \E t \in term[c] .. Len(winner) : Ask(c, "slave", t)
  /\ UNCHANGED winner

AskEqual(c) == Ask(c, "equal", term[c]) /\ UNCHANGED winner

AskNoChange(c) ==
  /\ Send(c, [type |-> "role", role |-> "nochange", gen |-> term[c]])
  /\ UNCHANGED <<winner, term, asked>>

SendMod(c) ==
  /\ Send(c, [type |-> "mod", gen |-> term[c]])
  /\ UNCHANGED <<winner, term, asked>>

SendAsync(c) ==
  /\ \E m \in Masks : Send(c, [type |-> "async", mask |-> m, gen |-> term[c]])
  /\ UNCHANGED <<winner, term, asked>>

Receive(c) ==
  /\ toCtrl[c] # << >>
  /\ LET m == Head(toCtrl[c]) IN
       told' = IF m.type = "role_reply" THEN [told EXCEPT ![c] = m.role] ELSE told
  /\ toCtrl' = [toCtrl EXCEPT ![c] = Tail(@)]
  /\ UNCHANGED <<datapath, toSwitch, winner, term, asked, requests, seen, fence, events>>
------------------------------------------------------------------------------
(* The switch *)

\* SocketCtrlSucceeded and remote_create: an equal that gets everything.
Connect(c) ==
  /\ c \notin remotes
  /\ remotes' = remotes \cup {c}
  /\ role' = [role EXCEPT ![c] = "equal"]
  /\ mask' = [mask EXCEPT ![c] = [master |-> Async, slave |-> {"port_status"}]]
  /\ UNCHANGED <<generation, channels, outside, seen, fence, events>>

\* The request at the head of a channel, taken by ReceiveFromController.
Pending(c, type) == toSwitch[c] # << >> /\ Head(toSwitch[c]).type = type

Take(c) ==
  /\ toSwitch' = [toSwitch EXCEPT ![c] = Tail(@)]
  /\ seen' = [seen EXCEPT ![c] = Head(toSwitch[c]).gen]
  /\ UNCHANGED <<outside, events>>

Reply(c, m) == toCtrl' = [toCtrl EXCEPT ![c] = Append(@, m)]

\* (int64_t) (new_gen_id - dp->generation_id) < 0.  generation_id is unsigned,
\* so the test for >= 0 before it always holds.
\* Mutants: compared without the sign; not compared.
Stale_Unsigned(new, old) == new < old
Stale_Never(new, old) == FALSE
Stale(new, old) ==
  LET d == new - old IN IF d >= 0 THEN d >= Half ELSE d >= -Half

\* Mutant: the former master keeps its role.
Promote_KeepsOld(c) == [role EXCEPT ![c] = "master"]
Promote(c) ==
  [d \in Controllers |->
     IF d = c THEN "master"
     ELSE IF d \in remotes /\ role[d] = "master" THEN "slave" ELSE role[d]]

\* The role a reply names.  Mutant: the one the request named.
Granted_Echo(c, r) == r
Granted(c, r) == IF r = "nochange" THEN role[c] ELSE r

\* dp_handle_role_request.
HandleRole(c) ==
  /\ Pending(c, "role")
  /\ Take(c)
  /\ LET r == Head(toSwitch[c]) IN
     \/ /\ r.role = "nochange"
        /\ Reply(c, [type |-> "role_reply", role |-> Granted(c, r.role)])
        /\ UNCHANGED <<role, generation>>
     \/ /\ r.role = "equal"
        /\ role' = [role EXCEPT ![c] = "equal"]
        /\ Reply(c, [type |-> "role_reply", role |-> Granted(c, r.role)])
        /\ UNCHANGED generation
     \/ /\ r.role \in {"master", "slave"}
        /\ Stale(r.gen, generation)
        /\ Reply(c, [type |-> "error"])
        /\ UNCHANGED <<role, generation>>
     \/ /\ r.role \in {"master", "slave"}
        /\ ~Stale(r.gen, generation)
        /\ generation' = r.gen
        /\ role' = IF r.role = "master" THEN Promote(c)
                   ELSE [role EXCEPT ![c] = "slave"]
        /\ Reply(c, [type |-> "role_reply", role |-> Granted(c, r.role)])
  /\ UNCHANGED <<remotes, mask, fence>>

\* OFPBRC_IS_SLAVE.  Mutant: the test is missing.
Refused_Never(c) == FALSE
Refused(c) == role[c] = "slave"

\* A request that changes the switch; it may also fail for reasons of its own.
HandleMod(c) ==
  /\ Pending(c, "mod")
  /\ Take(c)
  /\ \/ Reply(c, [type |-> "error"]) /\ UNCHANGED fence
     \/ /\ ~Refused(c)
        /\ fence' = IF role[c] = "equal" THEN fence ELSE Head(toSwitch[c]).gen
        /\ UNCHANGED toCtrl
  /\ UNCHANGED datapath

\* dp_handle_async_request, OFPT_SET_ASYNC.
HandleAsync(c) ==
  /\ Pending(c, "async")
  /\ Take(c)
  /\ mask' = [mask EXCEPT ![c] = Head(toSwitch[c]).mask]
  /\ UNCHANGED <<remotes, role, generation, toCtrl, fence>>

\* send_openflow_buffer without a sender.  Mutant: roles make no difference.
Wants_AnyRole(c, e) == e \in mask[c].master
Wants(c, e) ==
  \/ role[c] \in {"equal", "master"} /\ e \in mask[c].master
  \/ role[c] = "slave" /\ e = "port_status" /\ e \in mask[c].slave

Broadcast(e) ==
  /\ events < MaxEvents
  /\ events' = events + 1
  /\ toCtrl' = [c \in Controllers |->
                  IF c \in remotes /\ Wants(c, e)
                  THEN Append(toCtrl[c], [type |-> e]) ELSE toCtrl[c]]
  /\ UNCHANGED <<datapath, toSwitch, outside, seen, fence>>

ControllerStep(c) ==
  \/ AskMaster(c) \/ AskSlave(c) \/ AskEqual(c) \/ AskNoChange(c)
  \/ SendMod(c) \/ SendAsync(c) \/ Receive(c)

SwitchStep(c) == Connect(c) \/ HandleRole(c) \/ HandleMod(c) \/ HandleAsync(c)

Next ==
  \/ \E c \in Controllers : ControllerStep(c) \/ SwitchStep(c)
  \/ \E e \in Async : Broadcast(e)

Spec == Init /\ [][Next]_vars
------------------------------------------------------------------------------
(* Properties *)

Masters == {c \in Controllers : role[c] = "master"}

\* "There may be at most one Master controller at a time" (openflow.h), in
\* whatever order the switch sees the requests of several winners.
AtMostOneMaster == \A c, d \in Masters : c = d

\* A controller that lost its office cannot change the switch any more with
\* requests that were under way: changes by masters are in the order of their
\* elections.
FormerMastersAreFenced == [][fence' >= fence]_fence

\* Requests of former winners that arrive late do not undo the last election:
\* its winner, once its request was handled, is the master until it asks for
\* another role itself.
LatestWinnerIsMaster ==
  winner # << >> =>
    LET c == winner[Len(winner)] IN
    asked[c] = "master" /\ (\A i \in DOMAIN toSwitch[c] : toSwitch[c][i].type # "role")
      => role[c] = "master"

\* Whether a controller that was told role t takes itself for a slave when it
\* reads message i of channel q: the last reply before it said so.
IsReply(m) == m.type = "role_reply"
KnowsSlave(q, t, i) ==
  \/ t = "slave" /\ \A j \in 1 .. i - 1 : ~IsReply(q[j])
  \/ \E j \in 1 .. i - 1 : /\ IsReply(q[j]) /\ q[j].role = "slave"
                           /\ \A k \in j + 1 .. i - 1 : ~IsReply(q[k])

\* "Slave controllers do not receive OFPT_PACKET_IN or OFPT_FLOW_REMOVED"
\* (openflow.h): a controller that reads it is a slave reads none after that,
\* also none that was sent earlier.
SlavesHearNoPackets ==
  \A c \in Controllers : \A i \in DOMAIN toCtrl[c] :
    toCtrl[c][i].type \in {"packet_in", "flow_removed"} =>
      ~KnowsSlave(toCtrl[c], told[c], i)

\* The promise of Mastership: a master is replaced or leaves, in terms that only
\* grow.  Before the first election is announced, generation_id is an id that
\* no election has.
TheMaster == IF Masters = {} THEN Nobody ELSE CHOOSE c \in Controllers : role[c] = "master"
Accepted == IF generation > MaxElections THEN 0 ELSE generation
Office == INSTANCE Mastership WITH master <- TheMaster, term <- Accepted
MastershipSpec == Office!Spec
==============================================================================
