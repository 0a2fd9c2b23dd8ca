\* Matches with masks of different length.
SPECIFICATION Spec
CONSTANTS
  Fields = {"f"}
  Bits <- TwoBits
  a1 = a1  a2 = a2  a3 = a3  a4 = a4
  Addresses <- FourAddresses
  Priorities = {1, 2}
  Matches <- MCPrefixes
  Packets <- MCPackets
  Timeouts <- MCTimeouts
  MaxEntries = 3
  TicksPerSec = 1
  Period = 2
  MaxTime = 4
PROPERTIES
  OnlyItsMatchIsReplaced
CHECK_DEADLOCK FALSE
