SPECIFICATION FairLockSpec
CONSTANTS
  w1 = w1
  w2 = w2
  w3 = w3
  Workers <- ThreeWorkers
  Mortal <- TwoMortals
  NoFile = NoFile
CHECK_DEADLOCK FALSE
INVARIANTS
  ExclusiveWithoutAccident
  NoOrphanWithoutDeath
PROPERTIES
  WorkersExit
