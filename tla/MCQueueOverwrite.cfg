SPECIFICATION Spec
CONSTANTS
  c1 = c1
  c2 = c2
  w1 = w1
  w2 = w2
  k1 = k1
  Clients <- TwoClients
  Workers <- ServiceWorkers
  CronWorkers <- Nobody
  Mortal <- Nobody
  MaxCrashes = 1
  MaxFaults = 0
  NoFile = NoFile
  None = None
INVARIANTS
  RequeuedIsKept
