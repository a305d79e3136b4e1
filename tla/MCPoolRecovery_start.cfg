SPECIFICATION MCSpec
CONSTANTS
  Ids = {i1, i2}
  Clients = {c1}
  Requests <- PodmanOnly
  MinIdle = 1
  MaxIdle = 1
  MaxTotal = 1
  MaxFaults = 1
  Word = 4
  None = None
SYMMETRY Symmetry
CONSTRAINT EnforcerDuringRecovery
INVARIANTS QuietlyReconciled SharingConfined
