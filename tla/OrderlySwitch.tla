---------------------------- MODULE OrderlySwitch ----------------------------
(***************************************************************************)
(* What OFSwitch13Device expects of flow tables, groups and controller.     *)
(* Nothing in the switch enforces it: its assertions stop the program when  *)
(* it does not hold.  SwitchPacketsProofs shows that this is all they need. *)
(***************************************************************************)
EXTENDS SwitchPackets

\* Actions that never lead to a packet-in, whatever bucket the groups among them
\* choose: the greatest set without "ctrl" that has the buckets of its groups.
Quiet ==
  UNION {Q \in SUBSET Ending :
           /\ "ctrl" \notin Q
           /\ \A g \in Q \cap Groups : Range(GroupTable[g].buckets) \subseteq Q}

\* Actions that may end a pipeline run: where they lead to the controller, the packet
\* itself goes there (no ALL group on the way, which would send a clone).
Last ==
  UNION {L \in SUBSET Ending :
           \A x \in L : \/ x \in Quiet \cup {"ctrl"}
                        \/ /\ x \in Groups /\ GroupTable[x].type = "one"
                           /\ Range(GroupTable[x].buckets) \subseteq L}

\* After an output to the controller a list does nothing else with the packet.
CtrlLast(acts) ==
  \A i, j \in DOMAIN acts : i < j /\ acts[i] = "ctrl" => acts[j] = "ctrl"

\* The controller is asked once about a packet: what its answer makes of the packet
\* does not lead to a packet-in again.  (BufferPacketDelete goes by the packet's
\* id and would take the ns-3 packet of a second save away too early.)
QuietAnswers ==
  /\ \A t \in ResumeTreatments : Range(t.apply) \cup {t.end} \subseteq Quiet
  /\ \A acts \in OutLists : Range(acts) \subseteq Quiet

\* Answers come before the timer of BufferPacketSave removes the ns-3 packet.
\* dp_buffers_retrieve does not look at the time: packets_late is what happens else.
TimelyAnswers == ReplyWithin < 2 * OverwriteSecs * TicksPerSec

\* The tables send a packet to the controller last, and the packet itself, not a
\* copy; packet-outs with data go to ports.  (BufferPacketSave asserts that the
\* packet is the only one in m_pipePkt, NotifyPacketCloned that there is one.)
OrderlyTables ==
  /\ \A t \in Treatments :
       /\ Range(t.apply) \subseteq Quiet \cup {"ctrl"} /\ CtrlLast(t.apply)
       /\ t.end \in Last
       /\ "ctrl" \in Range(t.apply) => t.end \in {"ctrl", "none"}
  /\ \A acts \in DataLists : Range(acts) \subseteq {"port"}

\* A slot is filled with a greater cookie, or no answer to its earlier packets
\* is to come: of 2^24 saves in one slot an answer does not outlive them all.
CookiesLast ==
  \A k \in Slots : ring[k].pkt = NoPkt /\ ring'[k].pkt # NoPkt =>
    \/ ring[k].cookie < ring'[k].cookie
    \/ \A o \in offered : o.bid # NoBuffer => o.bid.slot # k
==============================================================================
