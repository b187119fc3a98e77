SPECIFICATION FairSpec
CONSTANTS
  Loggers = {p1}
  Users = {u1}
  UsageBuffer = 2
  UsageBatch = 2
  MaxEvents = 2
INVARIANT
  DeletedLogsAreGone
