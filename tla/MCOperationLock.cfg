SPECIFICATION FairLockSpec
CONSTANTS
  StackIDs <- MCStacks
  Ops <- MCOps
  None = None
INVARIANT
  LockInv
PROPERTIES
  OnlyTheHolderReleases
  EveryRequestEnds
  TurnsSpec
