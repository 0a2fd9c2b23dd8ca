\* Three messages of one to three headers' length, cut at any byte.
SPECIFICATION FairSpec
CONSTANTS
  Sizes = {2, 3, 5}
  HeaderSize = 2
  LengthMod = 8
  Word = 16
  SndBuf = 5
  RcvBuf = 4
  MaxMessages = 3
INVARIANTS
  TypeOK
  NothingWholeIsLeft
PROPERTIES
  FifoSpec
CHECK_DEADLOCK FALSE
