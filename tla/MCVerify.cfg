SPECIFICATION MCSpec
CONSTANTS
  r1 = r1
  r2 = r2
  w1 = w1
  w2 = w2
  Requests = {r1, r2}
  Mutators = {w1, w2}
  Creds <- BrowserAndToken
  Outages = TRUE
  MaxChanges = 1
INVARIANTS TypeOK
PROPERTIES SteadyAnswersFollowRows OfflineAnswers
