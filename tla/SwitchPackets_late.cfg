\* An answer 3 s after the packet-in, the slot not used again.
SPECIFICATION Spec
CONSTANTS
  NBuf = 2
  MaxCookie = 7
  GroupTable <- MCGroupTable
  Treatments <- MissToController
  ResumeTreatments <- Forward
  OutLists <- OutPort
  DataLists <- OutPort
  TicksPerSec = 2
  ReplyWithin = 6
  MaxArrivals = 1
  MaxAnswers = 2
  MaxTime = 6
INVARIANTS
  BufferedPacketIsFound
CHECK_DEADLOCK FALSE
