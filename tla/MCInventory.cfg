SPECIFICATION InventorySpec
CONSTANTS
  daily = daily
  catchup = catchup
  hourly = hourly
  k1 = k1
  k2 = k2
  k3 = k3
  None = None
  Runs = {daily, catchup, hourly}
  Kind <- KindDef
  Container <- ContainerDef
  Slots = 2
  MaxTime = 1
  Crashes = {catchup}
  Failures = {daily}
  Keys <- KeysDef
  Window = 1
  PageSize = 1
  MaxPages = 3
  Threshold = 3
  MaxMergeTime = 3
  TurnoverDays = 2
  MaxDay = 3
CHECK_DEADLOCK FALSE
INVARIANTS
  MeetOnlyAfterAccident
  StateTellsSnapshot
  SnapshotTellsStock
  HistoryAccounted
PROPERTIES
  HistoryImmutable
