SPECIFICATION LockSpec
CONSTANTS
  w1 = w1
  w2 = w2
  w3 = w3
  Workers <- ThreeWorkers
  Mortal <- Nobody
  NoFile = NoFile
CHECK_DEADLOCK FALSE
INVARIANTS
  Exclusive
