\* Two switches that connect, get commands and report packets in any order.
SPECIFICATION FairSpec
CONSTANTS
  Switches = {s1, s2}
  UserCommands <- MCUserCommands
  Unsupported <- MCUnsupported
  Macs = {m1}
  MaxInputs = 3
INVARIANTS
  TypeOK
  RepliesAreExpected
  KnownMeansOneFlow
PROPERTIES
  CommandQueueSpec
  EverythingArrives
CHECK_DEADLOCK FALSE
