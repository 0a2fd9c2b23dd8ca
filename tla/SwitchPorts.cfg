\* Two ports with two queues of one frame each; five frames, failures and requests.
SPECIFICATION FairSpec
CONSTANTS
  Ports = {1, 2}
  Queues = {0, 1}
  Controllers = {c1}
  QueueSize = 1
  MaxFrames = 3
  MaxInputs = 5
INVARIANTS
  TypeOK
  NoChangeGoesUntold
  FailoverIsAPeriodBehind
PROPERTIES
  LineSpec
