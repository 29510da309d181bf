SPECIFICATION Spec
CONSTANTS
  c1 = c1
  c2 = c2
  w1 = w1
  w2 = w2
  k1 = k1
  Clients <- TwoClients
  Workers <- WithCron
  CronWorkers <- Nobody
  Mortal <- Nobody
  MaxCrashes = 1
  MaxFaults = 1
  NoFile = NoFile
  None = None
SYMMETRY Interchangeable
INVARIANTS
  SingleRequest
  NoOverwrite
  DisposedMeansOver
  PublishedIsKept
  RerunOnlyAfterCrash
  RefusedNeverCollected
