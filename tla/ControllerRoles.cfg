\* Two controllers that win elections in turn, requests crossing each other.
SPECIFICATION Spec
CONSTANTS
  Controllers = {c1, c2}
  Half = 8
  Masks <- MCMasks
  MaxElections = 3
  MaxRequests = 4
  MaxEvents = 1
SYMMETRY Alike
INVARIANTS
  TypeOK
  AtMostOneMaster
  LatestWinnerIsMaster
  SlavesHearNoPackets
PROPERTIES
  FormerMastersAreFenced
  MastershipSpec
CHECK_DEADLOCK FALSE
