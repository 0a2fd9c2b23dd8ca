\* Answers come within 1.5 s and never lead to a second save; the one slot's
\* cookies wrap; the scheduler is fair.
SPECIFICATION FairSpec
CONSTANTS
  NBuf = 1
  MaxCookie = 2
  GroupTable <- MCGroupTable
  Treatments <- MCTreatments
  ResumeTreatments <- MCResumeTreatments
  OutLists <- MCOutLists
  DataLists <- MCDataLists
  TicksPerSec = 2
  ReplyWithin = 3
  MaxArrivals = 3
  MaxAnswers = 2
  MaxTime = 5
INVARIANTS
  NoAssertFails
  NothingLeftBehind
  LiveSlotIsSaved
  GrantedIdIsNotNoBuffer
PROPERTIES
  HandlersEnd
  BufferedPacketLeaves
CHECK_DEADLOCK FALSE
