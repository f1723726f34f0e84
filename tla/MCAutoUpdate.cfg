SPECIFICATION Spec
CONSTANTS
  Passes = {p1, p2}
  s1 = s1
  s2 = s2
  stack = stack
  Services = {s1, s2}
  Stacks = {stack}
  StackOf <- MCOneStack
  Targets <- MCTargets
  User = User
  None = None
  MaxIds = 2
  MaxEdits = 1
SYMMETRY PassSymmetry
CONSTRAINT Uncrowded

  
PROPERTIES
  NoUpdateIsDropped
  OffStaysOff
