SPECIFICATION FairSpec
CONSTANTS
  c1 = c1
  c2 = c2
  w1 = w1
  w2 = w2
  k1 = k1
  Clients <- OneClient
  Workers <- WithCron
  CronWorkers <- Cron
  Mortal <- FirstWorker
  MaxCrashes = 1
  MaxFaults = 0
  NoFile = NoFile
  None = None
PROPERTIES
  AcceptedIsSettled
  ImplementsSlot
