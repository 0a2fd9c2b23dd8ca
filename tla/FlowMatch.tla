------------------------------ MODULE FlowMatch ------------------------------
(***************************************************************************)
(* How flow matches are compared (udatapath/match_std.c): with a packet,    *)
(* and with the match of a flow-mod, strictly, non-strictly and for an      *)
(* overlap.  A word is the set of its bits that are 1, so the C code's &, | *)
(* ^ and ~ are intersection, union, symmetric difference and complement.    *)
(* In a mask 1 means that the bit counts.  Fields of one word; the cases of *)
(* VLAN ids and IPv6 extension headers are left out.                        *)
(***************************************************************************)
CONSTANTS
  Fields,   \* OXM fields
  Bits      \* the bits of a word

Word == SUBSET Bits

\* A match TLV.  Without a mask every bit counts.
Tlv == [masked : BOOLEAN, val : Word, mask : Word]

Exact(v) == [masked |-> FALSE, val |-> v, mask |-> Bits]
Masked(v, k) == [masked |-> TRUE, val |-> v, mask |-> k]

Differ(v, w) == (v \ w) \cup (w \ v)
Not(v) == Bits \ v

\* A match gives TLVs to some fields; a packet gives a word to each it has.
IsMatch(m) == DOMAIN m \subseteq Fields /\ m \in [DOMAIN m -> Tlv]
Wild == [f \in {} |-> Exact({})]

\* packet_match.
Covers(m, pk) ==
  \A f \in DOMAIN m :
    /\ f \in DOMAIN pk
    /\ Differ(m[f].val, pk[f]) \cap m[f].mask = {}

\* oxm_match_lookup finds the TLV by its header, which tells masked from not.
SameHeader(a, b, f) == f \in DOMAIN b /\ b[f].masked = a[f].masked

\* strict_mask8 and the like: the comparison with zero is of the conjunction.
StrictMask(s, t) == ~(s.mask = t.mask /\ Differ(s.val, t.val) \cap s.mask # {})

\* match_std_strict: header.length tells how many fields there are.
Strict(a, b) ==
  /\ DOMAIN a = DOMAIN b
  /\ \A f \in DOMAIN a :
       /\ SameHeader(a, b, f)
       /\ IF a[f].masked THEN StrictMask(a[f], b[f]) ELSE a[f].val = b[f].val

\* nonstrict_mask8 and the like.
NonstrictMask(s, t) ==
  Not(s.mask) \cap (Not(s.val) \cup Not(t.val) \cup t.mask)
              \cap (s.val \cup t.val \cup t.mask) = {}

\* match_std_nonstrict: a is the match of the flow-mod, b of the flow.
Nonstrict(a, b) ==
  \A f \in DOMAIN a :
    /\ SameHeader(a, b, f)
    /\ IF a[f].masked THEN NonstrictMask(a[f], b[f]) ELSE a[f].val = b[f].val

\* incompatible_8 and the like.
Incompatible(s, t) == s.mask \cap s.val # t.mask \cap t.val

\* match_std_overlap: masked and exact TLVs of a field are compared.
Overlap(a, b) ==
  \A f \in DOMAIN a \cap DOMAIN b : ~Incompatible(a[f], b[f])
------------------------------------------------------------------------------
(* What the comments of match_std.c say of them. *)

AllPackets == [Fields -> Word]

\* "if their wildcard fields are the same, and all the non-wildcarded fields
\* match on the same exact values".
SameMatch(a, b) ==
  /\ DOMAIN a = DOMAIN b
  /\ \A f \in DOMAIN a : /\ a[f].mask = b[f].mask
                         /\ Differ(a[f].val, b[f].val) \cap a[f].mask = {}

\* "if (a) matches whenever (b) matches".
Wider(a, b) == \A pk \in AllPackets : Covers(b, pk) => Covers(a, pk)

\* "if there exists a packet which both match structures match on".
Meet(a, b) == \E pk \in AllPackets : Covers(a, pk) /\ Covers(b, pk)

\* No TLV of the match has a mask.
Unmasked(m) == \A f \in DOMAIN m : ~m[f].masked /\ m[f].mask = Bits
==============================================================================
