SPECIFICATION Spec
CONSTANTS
  Calls = {c1, c2}
  Ops = {"run", "write", "list"}
  MaxSessions = 2
  MaxChunks = 1
  Inbox = 3
  Outbox = 1
  Permits = 1
  Burst = 1
  Threshold = 1
SYMMETRY Symmetry
INVARIANTS PendingOwned
PROPERTIES BlameOwnSession
VIEW Forgetful
