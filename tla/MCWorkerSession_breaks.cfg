SPECIFICATION FairSpec
CONSTANTS
  Sandboxes = {w1, w2}
  Secured = {w1, w2}
  Unfit = {w2}
  MaxSessions = 3
  MaxBreaks = 1
  MaxRounds = 3
  MaxBackoff = 2
  NoKey = NoKey
INVARIANTS LatestWins BridgeHasReader
PROPERTIES DeadRemoved WorkerReturns
