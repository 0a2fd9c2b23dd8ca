# Flexcomm Simulator: TLA+ models of the OpenFlow switch

The Flexcomm Simulator is a fork of ns-3.35 with an OpenFlow 1.3 module
(`src/ns-3.35/src/ofswitch13`, the C++ device around the C library ofsoftswitch13),
topologies, point-to-point Ethernet links, energy models, statistics and an
energy API of its own. The rest of ns-3 is stock. This directory holds TLA+ models
of the parts with the program's own state and logic, TLC configurations that
check them on small instances, and proofs that TLAPS checks for every instance.

All paths below are relative to `src/ns-3.35/src/`; `udatapath/` stands for
`ofswitch13/lib/ofsoftswitch13/udatapath/`.

## The system and its parts

One process simulates everything. The ns-3 scheduler takes one event at a time
and runs it to its end: there are no threads, and interleaving means the order
of events. Within an event the C++ device and the C library call each other
back and forth, which is where the packet books get hard.

| Part | State | Operations | Talks to | Hard because |
|---|---|---|---|---|
| `OFSwitch13Device` (`ofswitch13/model/ofswitch13-device.cc`) | packet in the pipeline and ids of its copies (`m_pipePkt`), buffered ns-3 packets (`m_bufferPkts`), removal timers, ports, controller connections, CPU tokens | receive from a port, send to a port, packet-in, callbacks of the library, `DatapathTimeout` | the C library by calls and callbacks, ports, sockets | two books about one packet, timers, assertions that end the program |
| Datapath library: packets (`udatapath/packet.c`, `dp_buffers.c`) | `struct packet`, ring of buffer slots with cookies | create, clone, destroy, save, retrieve, discard | device callbacks | ids reused, packets destroyed while others hold them, 1 s and 2 s timeouts |
| Datapath library: pipeline and actions (`pipeline.c`, `dp_actions.c`, `action_set.c`, `group_entry.c`) | the packet's action set | run the tables, lists, sets, groups | tables, buffers, device | recursion, copies, packets given away in mid list |
| Datapath library: tables (`flow_table.c`, `flow_entry.c`, `group_table.c`, `meter_table.c`, `meter_entry.c`) | entries, three lists per flow table, references between flows, groups and meters, counters | flow-mod, group-mod, meter-mod, look-up, round of timeouts | each other | pointers both ways, cascading deletes, order of lists |
| Comparison of matches (`match_std.c`) | none | packet against flow, strict, non-strict, overlap | flow tables | bit tricks, one copy per width |
| Datapath library: control (`dp_control.c`, `datapath.c`) | roles, generation id, asynchronous configuration | requests of controllers | controllers | several controllers |
| Controllers (`ofswitch13-controller.cc`, `simple-controller*.cc`, `ofswitch13-learning-controller.cc`) | switches known, pending `dpctl` commands, routes, learned addresses | handshake, packet-in, flow-removed, periodic routing | switches by messages, topology | commands before the handshake, routes replaced switch by switch |
| Control channel (`ofswitch13-socket-handler.cc`) | message being put together | send, receive | TCP sockets | pieces of messages, full send buffers |
| Ports and queues (`ofswitch13-port.cc`, `ofswitch13-queue.cc`, `udatapath/dp_ports.c`) | port state, queues | poll the link, enqueue | device, link | state polled once per period |
| Point-to-point Ethernet (`point-to-point-ethernet/model/*`) | transmitter state, queue, link up or down | send, complete, receive, fail | ports | a link that fails under a frame |
| Topology (`topology/model/topology.cc`) | graph with weights | shortest path, update of weights | controllers | unreachable nodes, parallel edges |
| Energy API, ecofen, statistics, parser | child process; energy of devices; files; configuration | periodic updates | simulator | life cycle of the child |

### What makes each part correct

* Packets: the library and the device agree at every moment which packets exist,
  which one is in the pipeline and which are buffered; no packet is used after it
  was destroyed; an answer finds the packet it is an answer to, or none; nothing
  is left behind when an event ends; buffered packets leave.
* Tables: a group lists the flows that name it, a meter those that named it when they
  were added; no flow and no group names a missing group; groups have no loop; a packet gets
  the entry of highest priority; a flow goes when its time is over, not earlier.
* Controllers and channel: messages arrive whole, once and in order; commands
  given early are sent after the handshake; each switch ends up with the routes of
  the weights that hold, and what circles between old and new tables gets out.
* Links and ports: a frame that the device took is delivered, once and in order
  within its queue; what a controller was told of a port is current, unless it turned
  these messages off; fast
  failover is at most one period behind.

`PROJECT.json` lists all hazards with the line where each bites.

## Modules

| Module | Models | Kind |
|---|---|---|
| `DpBuffers` | `dp_buffers.c` as operators on a ring value | operators |
| `SwitchPackets` | life of packets: device, `packet.c`, `dp_buffers.c`, the handing on in pipeline, actions and groups | state machine, extends `DpBuffers` |
| `PacketCustody` | what the device promises about packets | abstract specification of `SwitchPackets` |
| `MCSwitchPackets` | groups, tables and messages for TLC | instance |
| `OrderlySwitch` | what the device expects of tables, groups and controller: the hypotheses of some theorems | definitions, extends `SwitchPackets` |
| `MCOrderlySwitch` | an instance that is orderly, as TLC confirms | instance, extends `MCSwitchPackets` |
| `SwitchPacketsProofs` | theorems about `SwitchPackets` | proofs |
| `TableRefs` | flow, group and meter tables and their references | state machine |
| `OpenFlowTables` | the tables as a controller sees them | abstract specification of `TableRefs` |
| `MCTableRefs` | rules, addresses and ids for TLC | instance |
| `TableRefsProofs` | theorems about `TableRefs` | proofs |
| `Lists` | linked lists and vectors as sequences: where a loop stops, what it leaves | operators |
| `FlowMatch` | `match_std.c` on words as sets of bits, and what its comments say of it | operators |
| `FlowTable` | one flow table: order of matching, timeout lists, rounds of timeouts | state machine, extends `FlowMatch` and `Lists` |
| `MCFlowTable` | matches and timeouts for TLC | instance |
| `FlowTableProofs` | theorems about `FlowTable`, and about when `match_std.c` and its comments agree | proofs |
| `ControllerRoles` | roles of a switch's controllers: role requests, generation ids, slave tests, who gets asynchronous messages | state machine |
| `Mastership` | one office with a master at most, in terms that only grow | abstract specification of `ControllerRoles` |
| `MCControllerRoles` | asynchronous configurations for TLC | instance |
| `ControllerRolesProofs` | theorems about `ControllerRoles` | proofs |
| `ControlChannel` | a learning controller and its switches: connection, handshake, pending commands, barriers, echoes, learned addresses | state machine, extends `Lists` |
| `CommandQueue` | commands that are executed once and in order | abstract specification of `ControlChannel` |
| `MCControlChannel` | commands for TLC | instance |
| `ControlChannelProofs` | theorems about `ControlChannel` | proofs |
| `SocketHandler` | one direction of a connection: `OFSwitch13SocketHandler` at both ends of a TCP stream | state machine |
| `MessageFifo` | whole messages in order | abstract specification of `SocketHandler` |
| `SocketHandlerProofs` | theorems about `SocketHandler` | proofs |
| `SwitchPorts` | ports, priority queues, devices and channels, links that fail, fast failover | state machine, extends `Lists` |
| `FrameLines` | frames that arrive once and in order per queue | abstract specification of `SwitchPorts` |
| `SwitchPortsProofs` | theorems about `SwitchPorts` | proofs |
| `Routing` | the simple controllers, the weighted graph, flow-mods under way and a packet | state machine |
| `MCRouting` | a full mesh of four switches for TLC | instance |
| `RoutingProofs` | theorems about `Routing` | proofs |

### SwitchPackets

The state follows the code: `ring` and `idx` are `dp_buffers`, `pkts` the live
`struct packet`s with their buffer id and `packet_out` flag, `valid` and `ids`
are `m_pipePkt`, `saved` the keys of `m_bufferPkts`, `timers` the scheduled
`BufferPacketDelete`s, `uid` is `m_globalPktId`. `failed` holds the message of
the `NS_ASSERT` that stopped the program.

Because C calls nest, an event cannot be a single step with all its branches
written out. `calls` is the stack of C calls still to be made, innermost first: a
frame names the function, its packet and the actions it has left. Events
(`SendToPipeline`, `PacketOutBuffer`, `FlowModBuffer`, `PacketOutData`,
`BufferPacketDelete`, `Tick`) need an empty stack, since the scheduler runs one
event at a time; every other action is a call at the top of the stack. What an
action writes into a packet, what tables match and which bucket is selected is a
choice among `Treatments`, `OutLists` and buckets.

Packets that a packet-out carries have number 0, as their `ns3_uid` in the code,
and several actions treat 0 as "not mine": that is modelled as it stands.

The asserts are those of a debug build. An optimized build compiles them out and
goes on with wrong books; the model stops.

### TableRefs

An entry has an address, its rule, its instructions (the groups and the meter
they name) and the array that holds them, and the references it registered
(`grefs`, `mrefs`). The groups are always those of its instructions, since a modify registers
them anew (`flow_entry_replace_instructions`). The meters are those that it named when it was
added: a modify leaves them alone, and a meter that did not exist then was not told.
`listed` is history, the meters that were told of the entry, and what a meter's list is compared
with: a list of the flows that *name* the meter is what `meter_entry.c:166` speaks of and the
code does not keep (`tables_stale`). Groups and
meters have the addresses of flows that reference them and the counter. A message
of the controller is one step. `Remove` is `flow_entry_remove` for a set of
entries; deleting a group or a meter removes the entries on its list, after the
group left its table but, for meters, in the same way.

`memory` becomes "dangling" when an instruction array is freed that another
entry uses: what happens next is undefined, so the model stops there, and the
configurations of this module say `CHECK_DEADLOCK FALSE`.

Assumed: ids of groups and of meters fall in different buckets of their hash
maps (deleting all groups looks groups up in a map that still holds freed ones);
matches have no masks, so that strict matching is equality (see `FlowMatch`).

### FlowMatch and FlowTable

Words are sets of bits, which makes `&`, `|`, `^` and `~` set operations and
keeps the formulas of `match_std.c` recognisable, with the precedence C gives
them. `SameMatch`, `Wider` and `Meet` state what the comments say.

`FlowTable` has the three lists as sequences of addresses. `FirstPlace` is where
a `LIST_FOR_EACH` with a break ends, `Only` what is left of a list when the loop over
it removes elements. `FlowAdd` is the loop of `flow_table_add`:
it ends at an equal entry (replaced in its place) or at the first of lower
priority (insertion before it). `DatapathTimeout` is the periodic round; its loop
over `hard_entries` ends at the first entry that stays, as in the code. Not in
the module: instructions and counters, the messages about removed flows, and
`out_port`/`out_group`/cookie filters, which only select a subset: a delete may
take any subset of what matches.

### ControllerRoles

`remotes`, `role`, `mask` and `generation` are `dp->remotes`, `remote->role`,
`remote->config` and `dp->generation_id`. Each controller has a FIFO to the switch
and one back, the TCP connection. `HandleRole` is `dp_handle_role_request`,
`HandleAsync` is `dp_handle_async_request`, `HandleMod` stands for the six requests that
begin with the test for `OFPCR_ROLE_SLAVE` (`dp_control.c:129`, `pipeline.c:241` and
`:346`, `group_table.c:213`, `meter_table.c:239`, `dp_ports.c:751`), and `Broadcast` is
`send_openflow_buffer` without a sender. `Stale` is the comparison of
`dp_check_generation_id`: ids are unsigned words, their difference is read as signed.

The controllers are not in the code. The module lets them behave as the comment on
`dp->generation_id` ("a given mastership view") requires: elections are numbered, the
winner asks for the master role with that number, perhaps again or late, and others
ask to be slaves in an election they have heard of. A request carries the election
its sender knew of, which for other requests than role requests is kept for the
properties only. `seen` and `fence` are history: the election of the last
request handled of each controller, and that of the last change by a master.

Abstracted: the bits within a type of asynchronous message, which the code treats
alike; connections end only with the simulation; read-only requests. Not a
property, since the code and the header disagree without consequence here: a slave may
still change the switch by `OFPT_SET_CONFIG`, whose handler has no slave test, while
`openflow.h:2378` calls slaves read-only.

### ControlChannel

The maps of `OFSwitch13Controller` are `accepted` (`m_addrSwMap`), `registered`
(`m_dpIdSwMap`), `pending` (`m_commandsMap`), `barriers` and `echoes`; `learned` is
`m_learnedInfo` of the learning controller. A connection is a FIFO each way. The
actions of the controller are its handlers; those of a switch are the requests that
matter to it, and two events of its own, a packet that no learned flow matches and
the timeout of a learned flow. `executed` is history. `HandleFeaturesReply` runs the
pending commands and then `HandshakeSuccessful`, as one call does in the code.

`DpctlExecute` refuses some commands when it is called for a registered switch, and
also when a pending command comes up: both are `Supported`.

Assumed: hosts do not move and the topology has no cycle (otherwise "Inconsistent L2
switching table" ends the program, `ofswitch13-learning-controller.cc:142`); flow
tables have room for the learned flows; commands of the user leave learned
flows alone; the transaction counter, which starts at random, does not reach 0 again (a
barrier with id 0 would get another id in `SendToSwitch`). Left out: the end of a
connection or of the application, the controller's other queries, whose replies it
drops, set-up through `set-config` beyond its place among the commands. A refused connection
is not tried again, in the code as in the model. Messages arrive whole here;
`SocketHandler` is where that comes from.

### SocketHandler and MessageFifo

A byte is its position in the stream. `ends[i]` is where message `i` ends, so that its
length is a difference, taken modulo `LengthMod` where the code reads it from the
16 bits of the header. `popped` and `accepted` are the messages that left `m_txQueue`
and those that the socket took: a message for which `GetTxAvailable` has room is sent
whole, and one that the socket refuses is lost (`ofswitch13-socket-handler.cc:97`).
`SendNext` and `RecvNew`/`RecvMore` are the rounds of the two loops; `running` names the handler
that is in its loop, since each runs to its end before the next event. `consumed`
and `pending` are what `Recv` has read and `m_pendingBytes`. TCP cuts the stream at any
byte, loses nothing and may end.

### SwitchPorts and FrameLines

A frame passes through the port's queue (`queue`), the device (`current`, `m_currentPkt`) and the
channel (`wire`). `frames` is the list that `OFSwitch13Queue` itself keeps beside the
internal queues and from which `NotifyDequeue` takes the frame that `Dequeue` of the
priority queue chose; `TypeOK` says that it has each frame once and each internal queue's in
their order (`IsPart`). `taken` and `arrived` are history, per port and queue: the two ends
of a line of `FrameLines`. A transmission has two events, completion and arrival.
`SetLink` is what `parseLinkFailures` schedules: both devices at once.
`PortUpdateStates` is the part of `DatapathTimeout` that polls; `changed` is history, the
ports whose link changed since. `Failover` is `select_from_ff_group` with
`BucketIsAlive` (`group_entry.c:394`).

`SendStatus` is `send_openflow_buffer` for a port status: who gets it depends on `role` and `mask`,
the bit OFPPR_MODIFY of `port_status_mask` for masters and equals (`datapath.c:531`) and for slaves
(`:566`). `told` is history: what each controller was last told of a port, by a status or by
the reply to `PortDescRequest`. Connecting tells of no port (`SocketCtrlSucceeded`), so a
controller knows nothing of a port until it asks or the port changes. `missed` is history too: the
ports that changed while the mask kept the message back, whether or not the controller was told of
them before. `NoChangeGoesUntold` excuses these and no others: a message that was kept back is not sent
later, when the role or the mask changes. What the switch does not see, a link that fails and
comes back between two polls, nobody is told. Role requests
here are those that `dp_handle_role_request` accepts; which it does is the subject of `ControllerRoles`.

In the code a frame that waits behind one on a failing link is still sent
(`TransmitComplete` takes the next one whatever the link does) and arrives.

### Routing

`weight` is the graph of `Topology`, whose edges a handshake (the first one) and each
`UpdateRouting` rewrite from the readings that the energy API has at that time, `Flexes`. `ApplyRouting` is the
list of flow-mods for a switch, `NextHop` the second node of the path that
`DijkstraShortestPath` returns; boost's search is represented by what it returns, a shortest
path, always the same for the same graph. `Distance` is computed in the reference way, by
relaxing all edges as often as there are nodes, from paths that do not come by the switch in
question, since with weights of 0 a shortest walk might return to it. A reading is a float: the model has it as a number of
parts of which `Scale` make up 1, and `WeightOf` cuts the sum of two to an int, as
the call of `UpdateEdgeWeight` does, and a negative one to 0 (`topology.cc:253`). Flow-mods wait in `pending` until the
handshake and in `underway` until TCP delivers them, one at a time.
`Forward` is a switch that outputs a packet as its table says, unless that is the port it came by
(`dp_actions.c:1326`), where the packet ends.

Assumed: a host can be reached from each switch (`HostsAreReachable`), at most one link
between two nodes. The parser gives a host a vertex per link (`parse-links.cc`), so a path never
goes through a host. With weights of 0 between switches two
neighbours may both prefer the way past the other: both ways are equally long, and the
order of boost's heap decides, which depends on the order of edges at each end. `RoutesAreCurrent`
is proved for any weights; `EveryPacketLeaves` is checked with readings that make all of them positive.
Link failures leave the graph alone (`HandlePortStatus` prints), so frames
towards a failed link are lost until it comes back, which `SwitchPorts` has and this module does not.
Commands for a switch that never connects wait for ever; the model bounds them by `MaxUpdates`.

## What the runs check

| Run | Question | Bounds |
|---|---|---|
| `packets_timely` | With answers within 1.5 s and tables that send no copy to the controller: does any assertion fail, is anything left behind, is the ns-3 packet there as long as its slot is protected? Do handlers end and buffered packets leave, and is `NO_BUFFER` never granted when cookies wrap? | 1 slot, 2 cookies, 3 arrivals, 2 answers, half-second clock up to 2.5 s |
| `packets_any` | With any tables, groups and answers: do ring, packets and device agree, is a freed packet used, does an answer find another packet, does the device keep `PacketCustody`? | 2 slots, 2 arrivals, 2 answers, 2 s |
| `packets_late` | (violation) An answer after 3 s finds the slot but no ns-3 packet. | 1 arrival |
| `tables_all` | Do all references agree, are groups loop free, are contents those OpenFlow promises? | 2 rules, 3 addresses, 2 groups, 1 meter |
| `tables_stale` | (violation) A controller names only meters that exist; deleting one leaves a flow that came to name it by a modify. | 2 rules, 2 meters |
| `flows_order` | Are lists consistent, is matching by priority and age, do flows leave in time and not early? | 3 entries of 4 rules, 2 priorities, 3 kinds of timeout, period of 2 s, 4 s |
| `flows_mask` | (violation) A flow with another mask takes the place of a flow. | as above, 2 prefixes |
| `roles` | Controllers that win elections in turn: at most one master, does the last winner's claim hold, are former masters fenced off, do slaves hear packets? | 2 controllers, 3 elections, 4 requests, 1 event, ids modulo 16 |
| `channel` | Do commands arrive once and in order, whenever given? Is every reply expected, and everything answered? Is an address known exactly while it has one flow? | 2 switches, 2 commands (one unsupported), 1 address, 3 inputs |
| `framing` | Do messages come out whole, in order, and at once, however TCP cuts the stream? Does one wait for ever, or get lost while connected? | 3 messages of 2, 3 or 5 bytes, header of 2, buffers of 5 and 4 bytes |
| `ports` | Is what the controller was told of each port current, whatever its role and mask, is failover at most a period behind, do frames arrive once and in order when links fail under them? | 2 ports with 2 queues of 1 frame, 1 controller, 3 frames, 5 inputs (frames, link changes, requests) |
| `routes` | Has each switch the routes of the weights that hold once its flow-mods arrived? Does a packet get out of the circles that old and new tables make? | full mesh of 4 switches, 1 host, 3 readings, 2 updates |

Why these bounds are enough for the cases that matter. With one slot each arrival
overwrites the slot of the one before while answers for it are under way, and three
arrivals wrap two cookies; that run also checks liveness, for which two slots were too many
states. `packets_any` has two slots, so that a group's copies are in both. A
clock of half seconds distinguishes the rounding of `time_now ()` (seconds) from
the timers (exact). Groups in the instance copy, select, are chained and send to
the controller. Two groups form chains and would form a loop; three addresses let
an entry be replaced while another stays. Three entries allow an insertion
between two others. Four requests of two controllers let a change or a role request
of a former master arrive after its successor's, and ids modulo 16 have both
halves of the signed comparison. Three inputs let a packet-in of an address cross the
removal of its flow and be followed by another, or two commands wait for a handshake
while an echo of the other switch is out. Buffers below two messages make a message wait for
room and a header arrive in two pieces; three messages put one behind another that waits.
Queues of one frame overflow; three frames fill the device, the queue and the channel, and
five inputs are those with two changes, a flap or a failure and a port modification, or a mask
turned off, a change and a request for descriptions. In a mesh of four, three switches
can each lead to the next, past the fourth with the host, by the readings of three times (a circle of two turns back, where
the packet is dropped; with exact sums of readings as weights a direct link is only
longer than a detour if readings may be negative, against which `topology.cc:252` guards the sums); a handshake and two updates make three ages of
tables, and TLC does reach such a circle. With two updates the first may be pending while the second
is under way. For sizes beyond these, the invariants are proved.

`CHECK_DEADLOCK FALSE`: the packet and flow models stop when arrivals, answers and
time have reached their bounds, or an assertion failed, and `ControllerRoles` when
the controllers have sent all they may, `ControlChannel` when all inputs are done;
`SocketHandler` when all messages are out, or the connection ended, `TableRefs` stops when memory is dangling.
`SwitchPorts` (the next poll) and `Routing` (a host may always send) never stop, and are
checked for deadlock.

Symmetry is used for addresses, group ids and controllers, which the code compares for
equality only; no run with symmetry checks a liveness property.

### Fairness

`FairSpec` of `SwitchPackets` has weak fairness of C calls (a called function
runs), of `BufferPacketDelete` and of `Tick` (the scheduler takes the next event as
long as there are events). Arrivals and the controller owe nothing. `FairSpec` of
`ControlChannel` has weak fairness, per switch, of its connection (TCP establishes or
refuses it) and of handling the next message at each end (TCP delivers, handlers are
called by the scheduler); commands, echoes, packets and timeouts owe nothing. `FairSpec` of `SocketHandler` has weak
fairness of the rounds of both loops (a handler that was called runs to its end) and of
`Arrive` and `Acknowledge` (TCP delivers and acknowledges while it is connected). `FairSpec` of `SwitchPorts`
has it for the completion and the arrival of frames, which are events that the scheduler
holds, also when the link failed; the pipeline, link changes and polls owe nothing. `FairSpec` of `Routing`
has it for the arrival of flow-mods at each switch and for the steps of the packet. No handshake and no
update has to happen.

### Findings

Three runs show where code and its own comments or assertions part:

* `packets_late`: `dp_buffers_retrieve` does not look at the timeout, the device
  has dropped the packet after 2 s: "Packet not found in buffer" stops the program,
  where `dp_control.c:161` expects an error reply.
* `tables_stale`: a modify does not refresh meter references (`flow_entry.c:149`), so that
  the deletion of the meter, which is to "remove all referencing flows" (`meter_entry.c:166`), leaves
  the flow. The run's controller (`SpecOfKnownMeters`) names only meters that exist: a flow that is added with
  another one, of which the code only warns (`flow_entry.c:351`), is left behind in the same way.
* `flows_mask`: strict matching of fields with different masks is always true;
  `FlowTableProofs` also proves that non-strict matching selects flows without a
  common packet (`NonstrictWithMasksErrs`) and that overlaps of prefixes are missed
  (`OverlapWithMasksErrs`).

Seen while modelling and not given a run of their own:

* "Packet copy still in pipeline" fails for a group of type ALL with a bucket for the
  controller. To see it, give the configuration of `packets_timely` the tables
  `Treatments <- MirrorGroup` and check `MCSwitchPackets` (`MCOrderlySwitch` refuses them).
* A modify that matches several flows gives all of them one instruction array, which each
  frees (`flow_table.c:184`): add `InstructionsAreOwned` to the invariants of `tables_all`.
* The packet is not known any more after `output:CONTROLLER` when the list goes on
  ("Invalid packet ID", `ofswitch13-device.cc:971`); a packet-out with data through
  OFPP_TABLE fails "Invalid packet metadata" (`:1604`); a full ring sends packet-ins without a
  buffer, against the comment at `:907`; a second stay in the buffer is ended by the timer of
  the first (`:1422`). `packets_timely` excludes these by its tables and answer times, and
  would report them as `NoAssertFails` or `LiveSlotIsSaved`: the last one with
  `ResumeTreatments <- MissToController` and `MCSwitchPackets`.
* `ref_count` of a group restarts at 0 when the group is modified (`group_entry.c:92`)
  and then goes below zero.
* `TransmitComplete` starts queued frames on a link that is down, though
  `point-to-point-ethernet-net-device.cc:616` speaks of no channel then.
* A controller that connects after a port changed never hears of that change, nor does one
  whose mask was off at that moment; it has to ask (`PortDescRequest`).
* `HandleFlexcommMsg` with `FC_PORT_ENERGY` and `OFPP_ANY` writes to entries that were not
  allocated and overwrites `port_no` (`ofswitch13-device.cc:1183`).
* `StopApplication` drops the controller's handlers while accepted sockets keep their
  callbacks (`ofswitch13-controller.cc:158`); `EnergyAPI`'s child is stopped by a destructor that no
  object in `scratch/flexcomm.cc` runs.
* A message of 64 KiB or more wraps the length field (`oflib/ofl-messages-pack.c:1272`), and the
  receiver is out of step from there on.
* Tokens of meters are kept only from 1000 on, while `last_fill` moves at every packet
  (`meter_entry.c:372`): a slow packet meter that is asked often stays empty.
* A smaller `m_pipeDelay` lets packets overtake those already in the pipeline's delay.
* `Topology::DijkstraShortestPaths (src, dst)` (`topology.cc:154`) promises all paths between two nodes;
  it returns, for each other node, the path to it with the destination appended,
  whether or not there is an edge. Nothing calls it.
* With two links between two switches only one port is known (`ofswitch13-device.cc:424`) and
  the second edge keeps the weight 1.

## What is proved

The proofs hold for any number of slots, cookies, packets, group tables, action
lists, rules, addresses, groups, meters, flows, controllers, switches, commands, ports, queues and frames, under the
named assumptions on constants in the modules, which TLC also evaluates in the runs.

Lists. The provers cannot use an induction theorem that takes an operator. They can use
that `<` is well-founded on the numbers (`WFMin`), and from it `LeastNumber`, `AllNumbers` (a
*set* of numbers that has 0 and with each number the next has all) and `AllLists` (a set
of lists likewise). That is enough to prove about the loop that defines `Only` what it keeps, in
which order (`OnlyFacts`), and how it goes when the list grows (`OnlyAppend`). `FlowTableProofs` and
`ControlChannelProofs` each begin with these lemmas. The library's `SelectSeq` is defined
in a way that cannot be expanded in a proof, which is why `Lists` has its own.

**SwitchPackets.** The inductive invariant `IInv` (in `SwitchPacketsProofs`)
strengthens the invariants that the runs check with four facts about the stack of
calls: frames are well typed; a call that ends by destroying or giving away its
packet is the last one that has it (`OwnersLast`); a packet that is still being
worked on and is in a slot cannot be evicted, since it was saved within the same
second (`FramesAreLive`); a packet in the pipeline is not in the ring
(`RingOutsidePipeline`), and ids of packets name slots. Without `OwnersLast` and
`FramesAreLive`, a destroyed packet could be the packet of an outer call, and
`NoUseAfterFree` would not be inductive. One lemma per action shows that the
invariant is kept, and from it follow `TypeCorrect`, `BooksAlwaysAgree`, `NeverUsedAfterFree` and
`NeverNoBuffer`; `KeepsCustody` shows that every step is a step of `PacketCustody` or
a stutter.

Three more invariants build on it. Six calls (lists, action sets, groups and outputs) only
replace the running frame by others on its packet or on a clone; `PureMoves` says so once, and
what the new frames may do, and each invariant has one lemma about all six.

* `LeakInv`: each packet is in a slot or owned by a frame, and a packet-out's packet is alone in
  the switch. Between events there are no frames, so packets are in slots only and `m_pipePkt` is
  free: `NothingStaysBehind`, and `OnePacketAtATime`, the assertion with which `SendToPipeline`
  and `BufferPacketRetrieve` begin. Both hold for any tables, groups and controller.
* `TimelyInv` relates timers, slots and packet-ins. A packet that was buffered before is in the
  pipeline with frames that will not ask the controller again (`SavedOnce`), so at a save no older timer
  has its id; then the timer is later than the slot's timeout (`TimersAreLate`, where the
  rounding of `time_now ()` enters) and later by 2 s than each packet-in about it (`OutlivedBy`). Theorems:
  `LiveSlotsAreSaved`, under `QuietAnswers`, and with `TimelyAnswers` also `BufferedPacketsAreFound`.
* `OrderInv` is why no assertion fails (`NoAssertionFails`). While `m_pipePkt` is valid it has the packets of
  all frames (`FramesInPipeline`); a frame that may yet ask the controller has behind
  it frames about the same packet only, which need no ns-3 packet (`LoudFramesLast`). At a save the packet
  then is the only one, by `LeakInv`; afterwards what is left is to send its id again, or to destroy it
  (`FramesOutside`).

`AnswersFindTheirPackets` has an invariant of its own, `OffersAreCurrent`: no packet-in's cookie is ahead
of its slot's.

The hypotheses are in `OrderlySwitch`, each with its reason. The switch enforces none of them, and each excludes a failure:
`packets_late` is what happens without `TimelyAnswers`, the findings below it name
cases without the others. `QuietAnswers`: what the controller makes of a buffered packet does
not lead to a packet-in again. `TimelyAnswers`: answers take less than 2 s. `OrderlyTables`: tables send a
packet to the controller last, and itself, not a copy; packet-outs with data go to
ports. They speak of constants, and TLC evaluates them in `packets_timely`: the module of that run,
`MCOrderlySwitch`, assumes all three, with tables that use groups, chains of groups and the controller. `CookiesLast` is
about steps: a slot comes to a smaller cookie only when all answers to its packet-ins are in. The code has 2^24 cookies per slot,
one per save; `packets_any` has more cookies than saves of a slot.

**TableRefs.** The inductive invariant adds to the checked ones that an entry's
registered groups are those of its instructions (`GrefsAreCurrent`), which is what
fails for meters, and that an entry which a meter was told of will tell it of its end
(`ListedAreKept`: a modify, which would change the references, does not touch them). `GroupsAreLoopFree` is proved from `IsLoopFree` of modifications
and from `NoDanglingGroup`: a new group cannot be named before it exists, and a
group that is named cannot be deleted, so adds and deletes close no loop.
Theorems: `TypeCorrect`, `ReferencesAlwaysAgree`, `NeverALoop`, `GroupsGoWithTheirFlows`, and
`KeepsContents` for the refinement of `OpenFlowTables`.

**FlowTable.** The inductive invariant is `TypeOK`, `ListsAgree` and the order of two of the
lists: `ByPriority` (`matchList` goes down in priority) and `ByTime` (`hardList` goes up in
removal time). `HighestPriorityFound` follows from `ByPriority`; an insertion keeps that because its loop stops at the
first entry of lower priority, a replacement because an equal rule has the same priority (`PlaceFacts`). `ByTime` is what makes the loop over hard timeouts, which ends at the
first entry that stays, remove all that are over (`HardGoneFacts`). Theorems: `TypeCorrect` (with the
capacity of the table), `ListsAlwaysAgree`, `HighestPriorityWins`, and for steps
`OlderAlwaysFirst` and `ExpiredAreRemoved`. They hold for any matches, also with masks, where `match_std.c`
replaces the wrong flow: a replaced flow leaves its lists all the same.

Without masks the comparisons of `FlowMatch` are exact (`StrictWithoutMasks`,
`NonstrictWithoutMasks`, `OverlapWithoutMasks`).

**ControllerRoles.** Along a channel the elections that requests name never go back,
and only requests for the master or slave role go forward (`Chains`). With
`Order` (the switch has accepted what it has seen; a master has been accepted since
the last change by a master) this gives the inductive invariant `RolesInv`, from which
follow `TypeCorrect`, `OneMaster`, `Fenced` and the refinement `ImplementsMastership`.
Without `Chains` a change could come from an older term than the one its sender was
made master in. `LatestWins` needs a second invariant, `WinnerInv`: the last winner's
latest decision is under way (`Asks`) or carried out, and nobody asks to be master of an
election another won. `StaleMeansOlder` is where the word size enters: elections stay
below half of the ids, so that the signed difference orders them, and the initial -1
is older than each. `SlavesAreSpared` needs what a channel says to
the one who reads it (`HearsInv`): no packet comes where the last reply before it, or the role the controller
was told already, is slave, and if the last reply of all says slave then the switch has that role; so
`send_openflow_buffer`, which looks at the role, appends no packet there. A reply that changes the role
comes with the change, in one handler. The theorems assume what `RolesAssumption` names and
nothing about the order of messages of different controllers.

**ControlChannel.** The inductive invariant counts messages per connection. For each switch and id, the
requests and replies of a barrier are together one if the controller waits for it and none otherwise (`BarrierOf`,
`EchoOf`), and so are, for each address, the flow on its way, the flow in the table and the report that it
went (`FlowOf`). `RepliesAreExpected` and `KnownMeansOneFlow` are these counts; what makes them
inductive are three more facts. An id that is new has not been used: ids are at most `xid`, and `xid` is at most
the number of switches whose hello was handled plus the inputs (`Greetings`, a cardinality that grows by one with each
hello, since a connection says hello once), so it stays in `Xid`. No message for a refused command is ever sent (`Channels`).
A switch that is not registered got no command and so has no table-miss flow and reports
no packet (`ReadyOf`); hence nothing is sent past the commands that wait for its
handshake. That last fact is what `CommandsInOrder` rests on: the queue of `CommandQueue` is the commands in
the channel, then those in `m_commandsMap`, and `HandleFeaturesReply` moves the latter behind the former, with those of
`HandshakeSuccessful` behind both (`HandshakeRefines`); a handled command leaves the head of the queue
(`CommandRefines`), and all other steps leave the queue as it is. Theorems: `TypeCorrect`, `RepliesExpected`, `KnownAddresses`,
`CommandsInOrder`.

**SocketHandler.** The inductive invariant lays messages end to end in the stream
(`Stream`), says that what was handed over are the first messages and that `m_pendingPacket`
is the beginning of the next one (`Position`), that the socket took all messages while it was
connected (`NoneSkipped`), and that `Recv` ends with less than a header or an unfinished
message (`ReadOut`). `TypeCorrect` and `WholeMessagesLeave` follow, and `MessagesInOrder`: each behaviour
is one of `MessageFifo`, liveness aside. The theorems assume `SizesFit`: messages that the
16 bits of the length field, the 32 bits of `m_pendingBytes` and an empty send buffer can hold. Without
it `Fits` never lets a message go, or the length wraps.

**SwitchPorts.** What the switch knows of a link is wrong only while the port is in `changed`
(`StateIsAPeriodOld`); with the types of the status variables this is inductive together with
`NoChangeGoesUntold`: `NothingGoesUntold`, `FailoverCatchesUp`. Frames have no part in it.
They have an invariant of their own, `FrameInv`. The pipeline numbers the frames it outputs, and
in every list those of one queue rise (`Rising`). So it is enough to say *which*
frames are where, as sets: the internal queue has those of its queue in the port's list
(`Held`), and what was taken but has not arrived is on the wire or in the internal queue,
the older part on the wire (`Line`). The order follows: the frame that arrives has the least number
of those that are missing, and these begin right behind the ones that arrived (`Delivered`). The lemmas
about one port (`Queued`, `Started`, `Delivered`) are about its lists alone;
`OnePort` carries them to the state. `TransmitNext` takes from the queue with the least id, `Failover` the port with
the least number, which exist by `LeastNumber`. Theorems: `TypeCorrect`, and `FramesKeepOrder`, that each behaviour is one
of `FrameLines` without its fairness, whatever links, ports and transmitters do.

**Routing.** `RoutesAreCurrent` speaks of switches that nothing is under way to, and is not
inductive. `LastWins` speaks of all: the last flow-mod under way for a host is its route by the weights
that hold, or the table has it and none is under way. New routes may join any queue
(`RoutesAppended`), and a flow-mod that arrives changes nothing about how the queue ends
(`FlowModHandled`). Why it holds at handshakes: weights change only in an update, which
sends routes to all switches, also to those that are not registered, and in the first handshake,
before any. Hence the order of waiting commands and of the handshake's own does not matter either.
`RoutesCatchUp` holds for any graph in which hosts can be reached, any readings and any path among
equal ones; that packets get out also needs positive weights and is model-checked.

Every safety property and action property of the passing runs is stated by a theorem. Only model-checked is liveness
(`HandlersEnd`, `BufferedPacketLeaves`, `EverythingArrives`, `EveryPacketLeaves`, the fairness in `FifoSpec` and
`LineSpec`), which is out of TLAPS's reach; and, as it would need an induction over data, that the `Distance` of
`Routing`, which relaxes all edges as often as there are nodes, is the least sum of weights.

## Not modelled

* Header parsing and encoding of messages: functions on bytes, without state. What they
  return is a choice in the models, their sizes a constant.
* Token buckets of meters and of the switch's CPU, ecofen's energy models: arithmetic over time.
  The choice of a bucket in SELECT groups is any bucket (`select_from_select_group` finds one
  whenever there are buckets, since the scan returns to the bucket it left with a lower weight or passes the heaviest).
* Receiving from a port (`OFPPC_NO_RECV`, statistics), port and queue statistics, error models
  of devices, CSMA and virtual devices, the remote channel of distributed simulations.
* The end of a controller's connection or application; the switch does not connect again.
* The YAML/TOML parser, statistics written to files, the energy API's maps and its
  child process, which is started at most once.
* Python: the generated bindings (`*/bindings`), the build and test tools of ns-3 and the helper
  scripts (`src/utils`, `src/ns-3.35/utils`). None of it runs in a simulation but
  `energy-api-server.py`, which answers from two files to an external controller.
* Stock ns-3: TCP, the scheduler and boost are represented by what the code relies on.

In liveness of frames: `LineSpec` is about finite traffic. With traffic without end a queue of lower
priority may wait for ever, as strict priorities mean.

## What could follow

Meter bands with their 32-bit arithmetic; hash chains of groups, for what
deleting all groups reads (`group_table.c:165`).
