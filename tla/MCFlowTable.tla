----------------------------- MODULE MCFlowTable -----------------------------
(* Small instances of FlowTable for TLC: one field of two bits. *)
EXTENDS FlowTable

CONSTANTS a1, a2, a3, a4

FourAddresses == {a1, a2, a3, a4}

\* No code compares addresses but for equality.
AddressesAlike == Permutations(FourAddresses)

TwoBits == {1, 2}
On(tlv) == [f \in {"f"} |-> tlv]

\* Everything, and the values whose first bit is set.
MCMatches == { Wild, On(Masked({1}, {1})) }

\* No timeout, a hard one, and both; the later hard timeout may come first.
MCTimeouts == { [hard |-> 0, idle |-> 0], [hard |-> 1, idle |-> 0], [hard |-> 2, idle |-> 1] }

\* Prefixes of different length.
MCPrefixes == { On(Masked({}, {1})), On(Masked({1}, {1, 2})) }

MCPackets == [{"f"} -> Word]
==============================================================================
