SPECIFICATION FairSpec
CONSTANTS
  Stacks = {s1}
  Backups = {b}
  Restores = {r}
  Others = {o}
  Users = {u}
  None = None
  MaxBoots = 1
INVARIANTS
  ServiceInv
  SuccessHidesNothing
PROPERTIES
  RunsEnd
CHECK_DEADLOCK FALSE
