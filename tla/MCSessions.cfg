SPECIFICATION FairSpec
CONSTANTS
  Ids = {s1, s2}
  s1 = s1
  s2 = s2
  k1 = k1
  k2 = k2
  Sockets = {k1, k2}
  Kinds <- MCKinds
  Requests <- MCRequests
  None = None
  Limit = 1
  MaxShells = 1
  FailLimit = 2
INVARIANTS
  ConnectionsInv
PROPERTIES
  SweepSparesTheSignedIn
  RevokedIsClosed
CHECK_DEADLOCK FALSE
