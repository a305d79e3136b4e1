SPECIFICATION Spec
CONSTANTS
  Ids = {i1, i2}
  Clients = {c1}
  Requests <- AllRequests
  MinIdle = 1
  MaxIdle = 1
  MaxTotal = 1
  MaxFaults = 1
  Word = 3
  None = None
SYMMETRY Symmetry
INVARIANTS PermitsConserved NoForgottenContainer
