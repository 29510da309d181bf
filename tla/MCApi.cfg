SPECIFICATION ApiSpec
CONSTANTS
  o1 = o1
  o2 = o2
  o3 = o3
  f1 = f1
  f2 = f2
  v1 = v1
  v2 = v2
  v3 = v3
  Orders = {o1, o2, o3}
  Files = {f1, f2}
  Previews = {v1, v2, v3}
  OrdersIn <- OrdersInDef
  Upload <- UploadDef
  DayOf <- DayOfDef
  NoBatch = NoBatch
  MaxSecrets = 1
  MaxBatches = 3
  MaxFailures = 1
  r1 = r1
  r2 = r2
  w1 = w1
  b1 = b1
  b2 = b2
  d1 = d1
  admin = admin
  ann = ann
  bob = bob
  m1 = m1
  m2 = m2
  l1 = l1
  t1 = t1
  t2 = t2
  u1 = u1
  u2 = u2
  u3 = u3
  s1 = s1
  s2 = s2
  s3 = s3
  p1 = p1
  p2 = p2
  p3 = p3
  c1 = c1
  c2 = c2
  c3 = c3
  Empty = Empty
  Garbage = Garbage
  None = None
  Requests = {r1, r2}
  Workers = {w1}
  Batches = {b1, b2}
  Days = {d1}
  Users = {admin, ann, bob}
  First = admin
  LegacyFiles <- LegacyDef
  Removals = {m1, m2}
  Logins = {l1}
  Exports <- ExportsDef
  Source <- SourceDef
  Tabs = {t1, t2}
  OrderUploads <- OrderUploadsDef
  Blank = "none"
  MaxPreviews = 2
  MaxStoreBatches = 2
  Bounds <- BoundsDef
  CsvUploads = {u1, u2, u3}
  BytesOf <- BytesOfDef
  ShopOf <- ShopOfDef
  NameOf <- NameOfDef
  JdPreviews = {p1, p2, p3}
  Commits = {c1, c2, c3}
  Workbooks = {s1, s2, s3}
  SlotOf <- SlotOfDef
  FilesOf <- FilesOfDef
CHECK_DEADLOCK FALSE
INVARIANTS
  NoDuplicateOrderWithSecret
  BatchesOwnTheirOrders
  SnapshotTellsLedger
  HealedBySync
  SessionHasAccount
  AdminUnlessRaced
  StoreCountsOnce
  UploadsStored
  CommitsTold
PROPERTIES
  ImplementsBook
