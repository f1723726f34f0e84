SPECIFICATION FairSpec
CONSTANTS
  Saves <- MCSaves
  Timings <- MCTimings
  Off = Off
  Cycles <- MCCycles
  None = None
  MaxGens <- MCMaxGens
INVARIANTS
  SchedulerInv
PROPERTIES
  SchedulerLives
