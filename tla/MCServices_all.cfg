SPECIFICATION AllSpec
CONSTANTS
  Enrichers = {e1}
  Versions = {v1, v2}
  Calls = {c1, c2}
  MaxInFlight = 1
  QueueCap = 1
  MaxAge = 0
  MaxRows = 1
  FoundDbs = {"v1"}
  MaxCalls = 3
  MaxClock = 1
  MaxRestarts = 1
  Callers = {d1, d2, d3}
  Threshold = 2
  ClientTokens = 2
  ClientRate = 1
  GlobalTokens = 1
  GlobalRate = 1
  Keys = {k1, k2, port}
  Restricted = {port}
  ToolCalls = {c1, c2}
  MaxStarts = 1
  MaxHistory = 2
  MaxChanges = 3
  MaxSeconds = 2
  InstanceIds = {i1, i2}
  Names = {n1, n3}
  Unsafe = {n3}
  StoreCalls = {s1, s2}
  IntBits = 6
  MaxPriority = 1
  MaxPieces = 5
  MaxRuns = 10
INVARIANTS SlotsExact NoMixedVersions RecorderOpens Budget HistoryIsTail StoreAgrees ReadBack SecretsGone ReportsSound 
PROPERTIES RecordsSettle CutOff Recovers
CHECK_DEADLOCK FALSE
