------------------------------ MODULE DpBuffers ------------------------------
(***************************************************************************)
(* The packet buffer of the OpenFlow library (udatapath/dp_buffers.c): a    *)
(* ring of slots that keeps the packets sent to the controller until an     *)
(* answer names them.  A buffer id is a slot number and a cookie; the       *)
(* cookie tells apart the packets that used the slot one after the other.   *)
(*                                                                          *)
(* This module only defines the ring's operations as operators on a ring    *)
(* value.  SwitchPackets holds the ring as state and calls them.            *)
(***************************************************************************)
EXTENDS Integers

CONSTANTS
  NBuf,        \* number of slots (N_PKT_BUFFERS, 256 in the code)
  MaxCookie    \* the cookie never granted ((1 << PKT_COOKIE_BITS) - 1)

ASSUME BuffersAssumption ==
  /\ NBuf \in Nat \ {0}
  /\ MaxCookie \in Nat \ {0}

Slots == 0 .. NBuf - 1

\* A slot without a packet (p->pkt == NULL).  Packets are numbered from 0.
NoPkt == -1

\* NO_BUFFER has all bits set: last slot, maximum cookie.
NoBuffer == [slot |-> NBuf - 1, cookie |-> MaxCookie]

\* Seconds for which a saved packet cannot be replaced (OVERWRITE_SECS).
OverwriteSecs == 1

BufferId == [slot : Slots, cookie : 0 .. MaxCookie]

Slot == [pkt : Nat \cup {NoPkt}, cookie : -1 .. MaxCookie, timeout : Nat]

\* The cookie of a new ring is UINT32_MAX: it matches no id, and its
\* increment wraps to 0.  Here it is -1.
EmptyRing == [i \in Slots |-> [pkt |-> NoPkt, cookie |-> -1, timeout |-> 0]]

Advance(i) == (i + 1) % NBuf

\* Mutants: the slot keeps its cookie; the maximum is granted.
NextCookie_Same(c) == IF c < 0 THEN 0 ELSE c
NextCookie_Maximum(c) == IF c + 1 > MaxCookie THEN 0 ELSE c + 1
NextCookie(c) == IF c + 1 >= MaxCookie THEN 0 ELSE c + 1

\* dp_buffers_is_alive: says nothing of the slot's packet.
IsAlive(ring, id, sec) ==
  /\ ring[id.slot].cookie = id.cookie
  /\ sec < ring[id.slot].timeout

\* The condition of dp_buffers_retrieve and dp_buffers_discard: there is no
\* look at the timeout.
Holds(ring, id) ==
  /\ ring[id.slot].cookie = id.cookie
  /\ ring[id.slot].pkt # NoPkt

\* dp_buffers_save gives up: the next slot keeps a packet not yet timed out.
Refuses(ring, i, sec) ==
  /\ ring[i].pkt # NoPkt
  /\ sec < ring[i].timeout

\* Mutant: the library protects the slot longer than it tells the device.
Fill_Longer(ring, i, p, sec) ==
  [ring EXCEPT ![i] = [pkt |-> p,
                       cookie |-> NextCookie(ring[i].cookie),
                       timeout |-> sec + 3 * OverwriteSecs]]
Fill(ring, i, p, sec) ==
  [ring EXCEPT ![i] = [pkt |-> p,
                       cookie |-> NextCookie(ring[i].cookie),
                       timeout |-> sec + OverwriteSecs]]

\* The slot forgets its packet; cookie and timeout stay.
Release(ring, i) == [ring EXCEPT ![i].pkt = NoPkt]
==============================================================================
