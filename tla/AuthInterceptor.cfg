CONSTANTS
  Requests = {r1, r2, r3}
  RefreshCall = RefreshCall
  RefreshThroughClient = FALSE
  MaxExpired = 3
SPECIFICATION FairSpec
INVARIANTS WaitersServed
PROPERTIES ResentWithNewerToken RequestsSettle
CHECK_DEADLOCK FALSE
