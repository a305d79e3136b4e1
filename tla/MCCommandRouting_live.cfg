SPECIFICATION FairSpec
CONSTANTS
  Calls = {c1, c2}
  Ops = {"stream", "read"}
  MaxSessions = 1
  MaxChunks = 0
  Inbox = 1
  Outbox = 1
  Permits = 1
  Burst = 1
  Threshold = 1
CHECK_DEADLOCK FALSE
PROPERTIES FollowsCommand CallsAnswered ReaderUnblocked
