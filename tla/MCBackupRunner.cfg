SPECIFICATION FairSpec
CONSTANTS
  Runs = {r1}
  Clients = {c1, c2}
  MaxLines = 2
  ReplayBufMax = 1
  MaxAttachers = 1
  MaxBoots = 1
INVARIANTS
  RunnerInv
  StreamsAreTrue
PROPERTIES
  EveryClientIsAnswered
  RecordSpec
CHECK_DEADLOCK FALSE
