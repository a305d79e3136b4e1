SPECIFICATION StrictSpec
CONSTANTS
  Ids = {i1, i2}
  Clients = {c1, c2}
  Requests <- PooledOnly
  MinIdle = 1
  MaxIdle = 2
  MaxTotal = 1
  MaxFaults = 1
  Word = 5
  None = None
SYMMETRY Symmetry
CONSTRAINT EnforcerOrFault
INVARIANTS NoSharing IdleCounterExact
PROPERTIES LendsFromShelf
