\* Adds, deletes, packets and timeouts in any order.
SPECIFICATION Spec
CONSTANTS
  Fields = {"f"}
  Bits <- TwoBits
  a1 = a1  a2 = a2  a3 = a3  a4 = a4
  Addresses <- FourAddresses
  Priorities = {1, 2}
  Matches <- MCMatches
  Packets <- MCPackets
  Timeouts <- MCTimeouts
  MaxEntries = 3
  TicksPerSec = 1
  Period = 2
  MaxTime = 4
SYMMETRY AddressesAlike
INVARIANTS
  TypeOK
  ListsAgree
  HighestPriorityFound
PROPERTIES
  OlderComesFirst
  RoundRemovesTheExpired
CHECK_DEADLOCK FALSE
