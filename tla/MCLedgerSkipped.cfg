SPECIFICATION Spec
CONSTANTS
  o1 = o1
  o2 = o2
  o3 = o3
  f1 = f1
  f2 = f2
  p1 = p1
  p2 = p2
  p3 = p3
  Orders <- ThreeOrders
  Files <- TwoFiles
  Previews <- ThreePreviews
  OrdersIn <- Workbooks
  Upload <- Uploads
  DayOf <- Days
  MaxSecrets = 1
  NoBatch = NoBatch
  MaxBatches = 3
  MaxFailures = 0
CHECK_DEADLOCK FALSE
INVARIANTS
  SkippedFileIsImported
