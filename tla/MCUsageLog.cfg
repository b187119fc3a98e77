SPECIFICATION FairSpec
CONSTANTS
  Loggers = {p1, p2}
  Users = {u1}
  UsageBuffer = 1
  UsageBatch = 2
  MaxEvents = 3
INVARIANTS
  TypeOK
  NeverPanics
  Accounted
  LastUsedIsLogged
PROPERTIES
  CloseUsageReturns
  EventsLeave
  ImplementsLog
