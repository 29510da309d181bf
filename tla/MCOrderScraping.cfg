SPECIFICATION ScrapingSpec
CONSTANTS
  Jobs = {j1, j2, j3}
  a = a
  b = b
  None = None
  Shops <- ShopsDef
  OrdersOf <- OrdersDef
  Garbled = {12}
  SmallPage = 2
  CrawlPage = 3
  Today = 5
  Dates = {3}
  MaxDays = 1
  Listed <- ListedDef
  Coming <- ComingDef
  Removals = 1
  MsdPage = 1
  Limits = {0, 2}
  Concurrency = 2
  HasPassword = TRUE
CHECK_DEADLOCK FALSE
INVARIANTS
  ExclusiveWithoutAccident
  LockLeftOnlyByDeath
  CrawlComplete
  ListSaved
PROPERTIES
  CrawlsEnd
