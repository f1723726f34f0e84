SPECIFICATION Spec
CONSTANTS
  s = s
  t = t
  cs = cs
  ct = ct
  es = es
  et = et
  a = a
  u = u
  Stacks = {s, t}
  Paths = {cs, ct, es, et}
  Compose <- MCCompose
  Env <- MCEnv
  Own = {s}
  Inside = {cs, es, ct}
  Ignored = {}
  Entries <- MCEntries
  Gone = Gone
  MaxMoves = 2

  
PROPERTIES
  
  CommitTellsTheTruth
  FailedSaveLeavesNothing
CHECK_DEADLOCK FALSE
