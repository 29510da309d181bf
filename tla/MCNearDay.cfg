SPECIFICATION CollectorSpec
CONSTANTS
  r1 = r1
  r2 = r2
  r3 = r3
  r4 = r4
  r5 = r5
  q1 = q1
  q2 = q2
  q3 = q3
  s1 = s1
  s2 = s2
  operations = operations
  channel = channel
  Responses = {r1, r2, r3, r4, r5}
  Requests = {q1, q2, q3}
  RequestOf <- RequestOfDef
  Shops = {s1, s2}
  Business = {r1, r2, r3, r4, r5}
  Json = {r1, r2, r3, r4, r5}
  SizeOf <- SizeOfDef
  RangeOf <- RangeOfDef
  MaxResponses = 2
  MaxBody = 2
  MaxTotal = 4
  None = None
  Today = 5
  MaxDays = 1
  Arguments <- ArgumentsDef
  MaxFailures = 1
  StatusModules = {operations, channel}
  Manual = {operations}
  StatusDays = 2
  ManualDays = {2}
CHECK_DEADLOCK FALSE
INVARIANTS
  OnlyNearDayStored
