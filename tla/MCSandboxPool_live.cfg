SPECIFICATION FairSpec
CONSTANTS
  Ids = {i1, i2}
  Clients = {c1}
  Requests <- PooledOnly
  MinIdle = 2
  MaxIdle = 1
  MaxTotal = 1
  MaxFaults = 0
  Word = 4
  None = None
PROPERTIES CallsAnswered StopReturns
