SPECIFICATION FairSchedSpec
CONSTANTS
  Tasks <- MCTasks
  Loops <- MCLoops
  Saves <- MCSaves
  Intervals <- MCIntervals
  Closer = Closer
  Nil = Nil
INVARIANTS
  UpdaterInv
PROPERTIES
  NothingSavedIsLost
  DueIsApplied
