SPECIFICATION PagesSpec
CONSTANTS
  Tokens = {t1, t2, t3}
  Users = {u1, u2}
  Procs = {p1, p2}
  None = None
  MaxActiveTokens = 1
  Kinds <- SomeKinds
  Views <- SomeViews
  DayLen = 2
  Offset = 1
  Spans <- SomeSpans
  Grace = 2
  PageSize = 1
  MaxBars = 4
  GroupLimit = 2
  Horizon = 1
  Lags = {0, 2}
  MaxRows = 3
  Hosts = {1, 2, 3}
  AuthHost = 1
  Managed = {1, 2}
  Answers <- SomeAnswers
  Arrays = {1, 2}
  Visitors = {w1, w2}
SYMMETRY Symmetry
INVARIANTS
  PagesTypeOK LimitWithinRaces RevokedOnce
  PageAddsUp PagingSkipsNothing ExportIsWholeOrMarked
  RightUnlessRaced
PROPERTIES SortedListsStay
CHECK_DEADLOCK FALSE
