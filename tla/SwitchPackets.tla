---------------------------- MODULE SwitchPackets ----------------------------
(***************************************************************************)
(* The life of a packet inside one OpenFlow switch.  Two programs keep      *)
(* books about it and have to agree:                                        *)
(*   - the C library (udatapath) owns struct packet: it clones, buffers and *)
(*     destroys it while it runs the flow and group actions;                *)
(*   - OFSwitch13Device keeps the ns-3 packet behind it, in m_pipePkt while *)
(*     the library works on it and in m_bufferPkts while it is buffered,    *)
(*     told by the clone, destroy, save and retrieve callbacks.             *)
(* The simulator is single threaded: an event (a packet arrival, a message  *)
(* of the controller, a timer) runs to its end before the next one, so the  *)
(* C calls still to be made are a stack, and a new event waits for it to be *)
(* empty.  A failed NS_ASSERT stops the program.                            *)
(***************************************************************************)
EXTENDS DpBuffers, Sequences, Functions

CONSTANTS
  GroupTable,        \* group id -> [type, buckets]
  Treatments,        \* what the flow tables do to an arriving packet
  ResumeTreatments,  \* the same for a packet a flow-mod takes out of the buffer
  OutLists,          \* action lists of the packet-outs that name a buffer
  DataLists,         \* action lists of the packet-outs that carry the data
  TicksPerSec,       \* clock ticks of one second
  ReplyWithin,       \* bound: ticks an answer of the controller may take
  MaxArrivals,       \* bound: packets that arrive
  MaxAnswers,        \* bound: messages of the controller
  MaxTime            \* bound: tick after which no packet or message comes

Groups == DOMAIN GroupTable

\* What an action does to the packet's custody.  Set-field and the like only
\* change its bytes; "table" is OFPP_TABLE, "port" any real port or FLOOD.
Output == {"port", "ctrl", "table"}
Action == Output \cup Groups

\* The end of a pipeline run: the action set's group or output or nothing, a
\* table without a matching entry, or a meter that drops the packet.
Ending == Action \cup {"none", "miss", "drop"}

Treatment == [apply : Seq(Action), end : Ending]

ASSUME PacketsAssumption ==
  /\ TicksPerSec \in Nat \ {0}
  /\ ReplyWithin \in Nat /\ MaxArrivals \in Nat
  /\ MaxAnswers \in Nat /\ MaxTime \in Nat
  /\ Groups \cap (Output \cup {"none", "miss", "drop"}) = {}
  /\ \A g \in Groups : /\ GroupTable[g].type \in {"all", "one"}
                       /\ GroupTable[g].buckets \in Seq(Action \cup {"none"})
  /\ Treatments \subseteq Treatment /\ ResumeTreatments \subseteq Treatment
  /\ OutLists \subseteq Seq(Action) /\ DataLists \subseteq Seq(Action)

VARIABLES
  now,      \* simulation time, in ticks
  ring,     \* dp_buffers: the slots
  idx,      \* dp_buffers: slot used last (buffer_idx)
  pkts,     \* struct packet alive: ns3_uid -> [bid, out]
  valid,    \* m_pipePkt.m_valid
  ids,      \* m_pipePkt.m_ids
  saved,    \* keys of m_bufferPkts
  timers,   \* scheduled BufferPacketDelete events
  uid,      \* m_globalPktId
  calls,    \* C calls still to be made, innermost first
  offered,  \* packet-ins the controller has got
  arrivals, answers,   \* counters for the bounds
  failed    \* the NS_ASSERT that stopped the program, or "none"

lib  == <<ring, idx, pkts>>
pipe == <<valid, ids>>
dev  == <<saved, timers>>
env  == <<now, arrivals, answers>>
vars == <<now, ring, idx, pkts, valid, ids, saved, timers, uid, calls,
          offered, arrivals, answers, failed>>

\* time_now (): whole seconds of simulation time.
Sec == now \div TicksPerSec

Call(op, p, acts) == [op |-> op, pkt |-> p, acts |-> acts]

\* Packet 0 is the one a packet-out brings along: no ns-3 packet behind it.
FromController == 0

Assertions == {"none", "Another packet in pipeline", "Invalid packet metadata",
               "Invalid packet ID", "Packet copy still in pipeline",
               "Packet not found in buffer"}

Ops == {"list", "set", "all", "group", "out", "destroy"}

TypeOK ==
  /\ now \in Nat /\ arrivals \in Nat /\ answers \in Nat /\ uid \in Nat
  /\ ring \in [Slots -> Slot]
  /\ idx \in Slots
  /\ DOMAIN pkts \subseteq 0 .. uid
  /\ pkts \in [DOMAIN pkts -> [bid : BufferId, out : BOOLEAN]]
  /\ valid \in BOOLEAN
  /\ ids \subseteq 1 .. uid
  /\ saved \subseteq 1 .. uid
  /\ timers \subseteq [pkt : 1 .. uid, at : Nat]
  /\ calls \in Seq([op : Ops, pkt : Nat, acts : Seq(Ending)])
  /\ offered \subseteq [bid : BufferId, pkt : Nat, at : Nat]
  /\ failed \in Assertions

Init ==
  /\ now = 0 /\ arrivals = 0 /\ answers = 0 /\ uid = 0
  /\ ring = EmptyRing
  /\ idx = NBuf - 1
  /\ pkts = [p \in {} |-> [bid |-> NoBuffer, out |-> FALSE]]
  /\ valid = FALSE /\ ids = {}
  /\ saved = {} /\ timers = {}
  /\ calls = << >>
  /\ offered = {}
  /\ failed = "none"

------------------------------------------------------------------------------
\* NS_ASSERT_MSG aborts the program: nothing moves any more.
Fail(assertion) ==
  /\ failed' = assertion
  /\ UNCHANGED <<lib, pipe, dev, env, uid, calls, offered>>

Alloc(p, out) ==
  pkts' = [q \in DOMAIN pkts \cup {p} |->
             IF q = p THEN [bid |-> NoBuffer, out |-> out] ELSE pkts[q]]

Free(p) == pkts' = Restrict(pkts, DOMAIN pkts \ {p})

\* GetNewPacketId.  Mutant: the counter's old value is returned.
NewId_PostIncrement == uid
NewId == uid + 1

\* The calls that replace the one that is running.
Continue(frames) == calls' = frames \o Tail(calls)

\* PipelinePacket::SetPacket and DelCopy.
SetPacket(p) == valid' = TRUE /\ ids' = ids \cup {p}

\* Mutant: the last copy does not invalidate m_pipePkt.
DelCopy_StaysValid(p) == ids' = ids \ {p} /\ UNCHANGED valid
DelCopy(p) == ids' = ids \ {p} /\ valid' = (ids \ {p} # {})

(***************************************************************************)
(* Events: they start when no C call is pending.                            *)
(***************************************************************************)
Ready == failed = "none" /\ calls = << >>

\* What pipeline_process_packet does with p, given what the tables hold.
Process(p, t) == << Call("list", p, t.apply), Call("set", p, <<t.end>>) >>

\* ReceiveFromSwitchPort lets the packet in, and after the pipeline delay
\* SendToPipeline hands it to the library.
SendToPipeline ==
  /\ Ready /\ arrivals < MaxArrivals /\ now < MaxTime
  /\ \/ /\ valid
        /\ Fail("Another packet in pipeline")
     \/ /\ ~valid
        /\ uid' = NewId
        /\ Alloc(NewId, FALSE)
        /\ SetPacket(NewId)
        /\ \E t \in Treatments : calls' = Process(NewId, t)
        /\ arrivals' = arrivals + 1
        /\ UNCHANGED <<ring, idx, dev, now, answers, offered, failed>>

\* An answer of the controller to packet-in o.
Answers(o) ==
  /\ Ready /\ answers < MaxAnswers
  /\ now <= o.at + ReplyWithin
  /\ o.bid # NoBuffer
  \* otherwise BUFFER_EMPTY, or a warning for a flow-mod, and nothing changes
  /\ Holds(ring, o.bid)

\* Mutant: m_bufferPkts keeps its entry.
Retrieve_KeepsSaved(p, o) ==
  /\ ring' = Release(ring, o.bid.slot)
  /\ pkts' = [pkts EXCEPT ![p] = [bid |-> NoBuffer, out |-> FALSE]]
  /\ SetPacket(p)
  /\ answers' = answers + 1
  /\ UNCHANGED <<idx, saved, timers, uid, now, arrivals, offered, failed>>

\* dp_buffers_retrieve and its callback BufferPacketRetrieve.
Retrieve(p, o) ==
  /\ ring' = Release(ring, o.bid.slot)
  /\ pkts' = [pkts EXCEPT ![p] = [bid |-> NoBuffer, out |-> FALSE]]
  /\ SetPacket(p)
  /\ saved' = saved \ {p}
  /\ answers' = answers + 1
  /\ UNCHANGED <<idx, timers, uid, now, arrivals, offered, failed>>

RetrieveChecks(p, next) ==
  \/ valid /\ Fail("Another packet in pipeline")
  \/ ~valid /\ p \notin saved /\ Fail("Packet not found in buffer")
  \/ ~valid /\ p \in saved /\ next

\* handle_control_packet_out, the message names a buffer.
PacketOutBuffer ==
  \E o \in offered, acts \in OutLists :
    /\ Answers(o)
    /\ LET p == ring[o.bid.slot].pkt IN
       RetrieveChecks(p,
         /\ calls' = << Call("list", p, acts), Call("destroy", p, << >>) >>
         /\ Retrieve(p, o))

\* pipeline_handle_flow_mod: the buffered packet runs through the tables again.
FlowModBuffer ==
  \E o \in offered, t \in ResumeTreatments :
    /\ Answers(o)
    /\ LET p == ring[o.bid.slot].pkt IN
       RetrieveChecks(p, calls' = Process(p, t) /\ Retrieve(p, o))

\* handle_control_packet_out, the message carries the packet.
PacketOutData ==
  /\ Ready /\ answers < MaxAnswers /\ now < MaxTime
  /\ Alloc(FromController, TRUE)
  /\ \E acts \in DataLists :
       calls' = << Call("list", FromController, acts),
                   Call("destroy", FromController, << >>) >>
  /\ answers' = answers + 1
  /\ UNCHANGED <<ring, idx, pipe, dev, uid, now, arrivals, offered, failed>>

\* BufferPacketDelete, scheduled by BufferPacketSave: for whatever packet has
\* this id then, saved once or again.
BufferPacketDelete ==
  /\ Ready
  /\ \E tm \in timers :
       /\ tm.at <= now
       /\ timers' = timers \ {tm}
       /\ saved' = saved \ {tm.pkt}
  /\ UNCHANGED <<lib, pipe, env, uid, calls, offered, failed>>

\* Time passes when no timer is due.  Packet-ins too old to be answered within
\* ReplyWithin are forgotten.
Tick ==
  /\ Ready
  /\ \A tm \in timers : now < tm.at
  /\ now < MaxTime \/ timers # {}
  /\ now' = now + 1
  /\ offered' = {o \in offered : now < o.at + ReplyWithin}
  /\ UNCHANGED <<lib, pipe, dev, uid, calls, arrivals, answers, failed>>
------------------------------------------------------------------------------
(***************************************************************************)
(* The C calls, each working on the innermost frame.                        *)
(***************************************************************************)
Running(op) == failed = "none" /\ calls # << >> /\ Head(calls).op = op

Top == Head(calls)
TopPkt == Top.pkt
TopAct == Head(Top.acts)

OnlyCalls == UNCHANGED <<lib, pipe, dev, env, uid, offered, failed>>

\* packet_clone with NotifyPacketCloned; NewId is the clone in the frames that
\* the caller goes on with.
CloneThen(out, frames) ==
  \/ ~valid /\ Fail("Invalid packet metadata")
  \/ /\ valid
     /\ uid' = NewId
     /\ Alloc(NewId, out)
     /\ ids' = ids \cup {NewId}
     /\ Continue(frames)
     /\ UNCHANGED <<ring, idx, valid, dev, env, offered, failed>>

\* Mutant: the loop does not go on to the next action after an output.
ExecuteActionList_Repeats ==
  /\ Running("list")
  /\ \/ Top.acts = << >> /\ Continue(<< >>) /\ OnlyCalls
     \/ /\ Top.acts # << >>
        /\ \/ /\ TopAct \in Groups
              /\ CloneThen(pkts[TopPkt].out,
                           << Call("group", NewId, <<TopAct>>),
                              Call("list", TopPkt, Tail(Top.acts)) >>)
           \/ /\ TopAct \notin Groups
              /\ Continue(<< Call("out", TopPkt, <<TopAct>>), Top >>)
              /\ OnlyCalls

\* dp_execute_action_list: one action; a group gets a copy of the packet.
ExecuteActionList ==
  /\ Running("list")
  /\ \/ Top.acts = << >> /\ Continue(<< >>) /\ OnlyCalls
     \/ /\ Top.acts # << >>
        /\ LET rest == Call("list", TopPkt, Tail(Top.acts)) IN
           \/ /\ TopAct \in Groups
              /\ CloneThen(pkts[TopPkt].out,
                           << Call("group", NewId, <<TopAct>>), rest >>)
           \/ /\ TopAct \notin Groups
              /\ Continue(<< Call("out", TopPkt, <<TopAct>>), rest >>)
              /\ OnlyCalls

\* action_set_execute, or the drop of pipeline_process_packet and
\* meter_entry_apply, whose callbacks look the packet up in m_pipePkt.
ActionSetExecute ==
  /\ Running("set")
  /\ \/ TopAct \in Groups /\ Continue(<< Call("group", TopPkt, <<TopAct>>) >>)
        /\ OnlyCalls
     \/ /\ TopAct \in Output
        /\ Continue(<< Call("out", TopPkt, <<TopAct>>), Call("destroy", TopPkt, << >>) >>)
        /\ OnlyCalls
     \/ /\ TopAct = "none"
        /\ Continue(<< Call("destroy", TopPkt, << >>) >>) /\ OnlyCalls
     \/ /\ TopAct \in {"miss", "drop"}
        /\ \/ ~valid /\ Fail("Invalid packet metadata")
           \/ valid /\ TopPkt \notin ids /\ Fail("Invalid packet ID")
           \/ /\ valid /\ TopPkt \in ids
              /\ Continue(<< Call("destroy", TopPkt, << >>) >>) /\ OnlyCalls

\* group_entry_execute: ALL clones for every bucket, the other types hand the
\* packet to one bucket, or drop it when none is selected.
GroupExecute ==
  /\ Running("group")
  /\ LET g == GroupTable[TopAct] IN
     \/ /\ g.type = "all"
        /\ Continue(<< Call("all", TopPkt, g.buckets) >>)
     \/ /\ g.type = "one"
        /\ \E i \in 1 .. Len(g.buckets) :
             Continue(<< Call("set", TopPkt, <<g.buckets[i]>>) >>)
     \/ /\ g.type = "one"
        /\ Continue(<< Call("destroy", TopPkt, << >>) >>)
  /\ OnlyCalls

\* Mutant: the packet that was cloned is not destroyed.
ExecuteAll_Leaks ==
  /\ Running("all")
  /\ \/ Top.acts = << >> /\ Continue(<< >>) /\ OnlyCalls
     \/ /\ Top.acts # << >>
        /\ CloneThen(pkts[TopPkt].out,
                       << Call("set", NewId, <<TopAct>>),
                          Call("all", TopPkt, Tail(Top.acts)) >>)

\* execute_all: the bucket's action set runs on a clone.
ExecuteAll ==
  /\ Running("all")
  /\ \/ /\ Top.acts = << >>
        /\ Continue(<< Call("destroy", TopPkt, << >>) >>) /\ OnlyCalls
     \/ /\ Top.acts # << >>
        /\ CloneThen(pkts[TopPkt].out,
                       << Call("set", NewId, <<TopAct>>),
                          Call("all", TopPkt, Tail(Top.acts)) >>)

\* OFSwitch13Device::SendToSwitchPort, for each port the action means.
OutputPort ==
  /\ Running("out") /\ TopAct = "port"
  /\ \/ (IF valid THEN TopPkt \notin ids ELSE TopPkt # FromController)
        /\ Fail("Invalid packet ID")
     \/ (IF valid THEN TopPkt \in ids ELSE TopPkt = FromController)
        /\ Continue(<< >>) /\ OnlyCalls

\* Mutant: the tables get the packet itself.
OutputTable_NoCopy ==
  /\ Running("out") /\ TopAct = "table"
  /\ \/ ~pkts[TopPkt].out /\ Continue(<< >>) /\ OnlyCalls
     \/ /\ pkts[TopPkt].out
        /\ \E t \in Treatments : Continue(Process(TopPkt, t)) /\ OnlyCalls

\* OFPP_TABLE: only a packet-out may ask for it, and its clone not again.
OutputTable ==
  /\ Running("out") /\ TopAct = "table"
  /\ \/ ~pkts[TopPkt].out /\ Continue(<< >>) /\ OnlyCalls
     \/ /\ pkts[TopPkt].out
        /\ \E t \in Treatments : CloneThen(FALSE, Process(NewId, t))

(***************************************************************************)
(* OFPP_CONTROLLER and invalid TTL: SendPacketInMessage tries to save the   *)
(* packet whatever the outcome, and names pkt->buffer_id in the message.    *)
(***************************************************************************)
PacketIn(bid) ==
  offered' = offered \cup {[bid |-> bid, pkt |-> TopPkt, at |-> now]}

AlreadySaved(p) ==
  pkts[p].bid # NoBuffer /\ IsAlive(ring, pkts[p].bid, Sec)

SendSaved ==
  /\ Running("out") /\ TopAct = "ctrl"
  /\ AlreadySaved(TopPkt)
  /\ PacketIn(pkts[TopPkt].bid)
  /\ Continue(<< >>)
  /\ UNCHANGED <<lib, pipe, dev, env, uid, failed>>

SendUnsaved ==
  /\ Running("out") /\ TopAct = "ctrl"
  /\ ~AlreadySaved(TopPkt)
  /\ Refuses(ring, Advance(idx), Sec)
  /\ idx' = Advance(idx)
  /\ PacketIn(pkts[TopPkt].bid)
  /\ Continue(<< >>)
  /\ UNCHANGED <<ring, pkts, pipe, dev, env, uid, failed>>

\* Mutant: the ns-3 packet of a destroyed buffered packet is forgotten.
NotifyPacketDestroyed_KeepsSaved(p) ==
  \/ valid /\ p \in ids /\ DelCopy(p) /\ UNCHANGED saved
  \/ ~(valid /\ p \in ids) /\ UNCHANGED <<pipe, saved>>

\* NotifyPacketDestroyed, after the packet left the library's hands.
NotifyPacketDestroyed(p) ==
  \/ valid /\ p \in ids /\ DelCopy(p) /\ UNCHANGED saved
  \/ ~(valid /\ p \in ids) /\ p = FromController /\ UNCHANGED <<pipe, saved>>
  \/ /\ ~(valid /\ p \in ids) /\ p # FromController
     /\ saved' = saved \ {p} /\ UNCHANGED pipe

\* dp_buffers_save destroys the timed out packet of the slot it is about to
\* use, then goes on (the frame stays).
EvictSaved ==
  /\ Running("out") /\ TopAct = "ctrl"
  /\ ~AlreadySaved(TopPkt)
  /\ LET i == Advance(idx) IN
     /\ ring[i].pkt # NoPkt /\ ~Refuses(ring, i, Sec)
     /\ NotifyPacketDestroyed(ring[i].pkt)
     /\ Free(ring[i].pkt)
     /\ ring' = Release(ring, i)
  /\ UNCHANGED <<idx, timers, env, uid, calls, offered, failed>>

\* The removal that BufferPacketSave schedules.  Mutant: never.
ScheduleDelete_Never(p) == UNCHANGED timers
ScheduleDelete(p) ==
  timers' = timers \cup
    {[pkt |-> p, at |-> now + 2 * OverwriteSecs * TicksPerSec]}

\* dp_buffers_save and its callback BufferPacketSave.
SendAndSave ==
  /\ Running("out") /\ TopAct = "ctrl"
  /\ ~AlreadySaved(TopPkt)
  /\ LET p == TopPkt
         i == Advance(idx)
         bid == [slot |-> i, cookie |-> NextCookie(ring[i].cookie)] IN
     /\ ring[i].pkt = NoPkt
     /\ \/ ~valid /\ Fail("Invalid packet metadata")
        \/ valid /\ p \notin ids /\ Fail("Invalid packet ID")
        \/ valid /\ p \in ids /\ ids # {p} /\ Fail("Packet copy still in pipeline")
        \/ /\ valid /\ ids = {p}
           /\ idx' = i
           /\ ring' = Fill(ring, i, p, Sec)
           /\ pkts' = [pkts EXCEPT ![p].bid = bid]
           /\ saved' = saved \cup {p}
           /\ DelCopy(p)
           /\ ScheduleDelete(p)
           /\ PacketIn(bid)
           /\ Continue(<< >>)
           /\ UNCHANGED <<env, uid, failed>>

\* packet_destroy: a packet that waits in a live buffer is left alone.
Destroy ==
  /\ Running("destroy")
  /\ LET p == TopPkt
         bid == pkts[p].bid IN
     \/ AlreadySaved(p) /\ Continue(<< >>) /\ OnlyCalls
     \/ /\ ~AlreadySaved(p)
        /\ ring' = IF bid # NoBuffer /\ Holds(ring, bid)
                     THEN Release(ring, bid.slot) ELSE ring
        /\ NotifyPacketDestroyed(p)
        /\ Free(p)
        /\ Continue(<< >>)
        /\ UNCHANGED <<idx, timers, env, uid, offered, failed>>

CallStep ==
  \/ ExecuteActionList \/ ActionSetExecute \/ GroupExecute \/ ExecuteAll
  \/ OutputPort \/ OutputTable
  \/ SendSaved \/ SendUnsaved \/ EvictSaved \/ SendAndSave \/ Destroy

Event ==
  \/ SendToPipeline \/ PacketOutBuffer \/ FlowModBuffer \/ PacketOutData

Next == Event \/ BufferPacketDelete \/ Tick \/ CallStep

Spec == Init /\ [][Next]_vars

(***************************************************************************)
(* The simulator runs every handler to its end and every scheduled event,   *)
(* in the order of their times.  Arrivals and the controller owe nothing.   *)
(***************************************************************************)
FairSpec ==
  /\ Spec
  /\ WF_vars(CallStep) /\ WF_vars(BufferPacketDelete) /\ WF_vars(Tick)
------------------------------------------------------------------------------
(* Properties *)

\* No NS_ASSERT of OFSwitch13Device stops the program: the ns-3 side and the
\* library agree on every packet, whatever the order of arrivals, answers of
\* the controller and timers.
NoAssertFails == failed = "none"

\* One of those assertions on its own, "Packet not found in buffer": an answer
\* that names a buffered packet finds its ns-3 packet.
BufferedPacketIsFound == failed # "Packet not found in buffer"

\* dp_buffers and struct packet agree: the packet of a slot exists and carries
\* that slot's id.  So no packet is in two slots, and no slot keeps a pointer
\* to a packet that was destroyed.
SlotsHoldLivePackets ==
  \A i \in Slots : ring[i].pkt # NoPkt =>
    /\ ring[i].pkt \in DOMAIN pkts
    /\ pkts[ring[i].pkt].bid = [slot |-> i, cookie |-> ring[i].cookie]

\* m_bufferPkts and dp_buffers agree: every ns-3 packet kept for the controller
\* is the one of some slot.
SavedPacketsHaveASlot ==
  \A p \in saved : \E i \in Slots : ring[i].pkt = p

\* m_pipePkt names live packets of the library only, and is valid exactly while
\* it names one.
PipelineNamesLivePackets ==
  /\ ids \subseteq DOMAIN pkts
  /\ valid <=> ids # {}

\* The three books about packets agree at every moment, within handlers too: the
\* library's ring, its packets and the ns-3 side's m_pipePkt and m_bufferPkts.
BooksAgree ==
  SlotsHoldLivePackets /\ SavedPacketsHaveASlot /\ PipelineNamesLivePackets

\* No C call works on a packet that was destroyed before: packet_destroy is the
\* last use of a packet, whoever clones it, buffers it or hands it on.
NoUseAfterFree == \A i \in DOMAIN calls : calls[i].pkt \in DOMAIN pkts

\* When a handler is over nothing is left behind: m_pipePkt is free for the next
\* packet, and every packet that was not destroyed is in a slot of the buffer.
NothingLeftBehind ==
  Ready => /\ ~valid
           /\ DOMAIN pkts = {ring[i].pkt : i \in Slots} \ {NoPkt}

\* The buffer id of a packet-in never brings back another packet, also when
\* slots were overwritten in between.
AnswerFindsItsPacket ==
  \A o \in offered : o.bid # NoBuffer /\ Holds(ring, o.bid) =>
    ring[o.bid.slot].pkt = o.pkt

\* "Since packet timeout resolution is expressed in seconds, let's double it to
\* avoid rounding conflicts" (BufferPacketSave): while a slot cannot be
\* overwritten, the ns-3 packet is still there.
LiveSlotIsSaved ==
  \A i \in Slots : ring[i].pkt # NoPkt /\ Sec < ring[i].timeout =>
    ring[i].pkt \in saved

\* "Don't use maximum cookie value since the all-bits-1 id is special"
\* (dp_buffers_save): no saved packet has the id that means none, also after
\* the cookies of a slot have wrapped.
GrantedIdIsNotNoBuffer ==
  \A i \in Slots : ring[i].pkt # NoPkt =>
    [slot |-> i, cookie |-> ring[i].cookie] # NoBuffer

\* The promise of PacketCustody.
Custody == INSTANCE PacketCustody WITH
             pipeline <- ids, buffered <- saved,
             done <- (1 .. uid) \ (ids \cup saved)

CustodySpec == Custody!Spec

\* Every handler comes to its end: groups, resubmissions and action lists
\* cannot keep the switch busy for ever.
HandlersEnd == []<>(calls = << >>)
==============================================================================
