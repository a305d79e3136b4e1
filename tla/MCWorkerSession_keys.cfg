SPECIFICATION Spec
CONSTANTS
  Sandboxes = {w1}
  Secured = {}
  Unfit = {}
  MaxSessions = 3
  MaxBreaks = 2
  MaxRounds = 3
  MaxBackoff = 2
  NoKey = NoKey
INVARIANTS WorkersBySandboxId
