CONSTANTS
  Calls = {c1, c2, c3}
  Limit = 2
  Interval = 3
  MaxWindow = 4
SPECIFICATION FairSpec
INVARIANTS RateRespected
PROPERTIES TokenPerCallInOrder CallsResolve
