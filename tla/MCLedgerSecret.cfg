SPECIFICATION Spec
CONSTANTS
  o1 = o1
  o2 = o2
  o3 = o3
  f1 = f1
  f2 = f2
  p1 = p1
  p2 = p2
  p3 = p3
  Orders <- ThreeOrders
  Files <- TwoFiles
  Previews <- TwoPreviews
  OrdersIn <- Workbooks
  Upload <- TwoUploads
  DayOf <- Days
  MaxSecrets = 2
  NoBatch = NoBatch
  MaxBatches = 2
  MaxFailures = 0
CHECK_DEADLOCK FALSE
INVARIANTS
  NoDuplicateOrder
