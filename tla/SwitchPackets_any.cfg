\* Any tables, groups and packet-outs, answers up to 2.5 s late.
SPECIFICATION Spec
CONSTANTS
  NBuf = 2
  MaxCookie = 7
  GroupTable <- MCGroupTable
  Treatments <- AnyTreatment
  ResumeTreatments <- AnyTreatment
  OutLists <- AnyOutList
  DataLists <- AnyDataList
  TicksPerSec = 2
  ReplyWithin = 5
  MaxArrivals = 2
  MaxAnswers = 2
  MaxTime = 4
INVARIANTS
  TypeOK
  BooksAgree
  NoUseAfterFree
  AnswerFindsItsPacket
PROPERTIES
  CustodySpec
CHECK_DEADLOCK FALSE
