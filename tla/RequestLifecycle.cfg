CONSTANTS
  Requests = {r1, r2, r3}
  Keys = {k1}
  NoKey = NoKey None = None
  Limited = TRUE
  InterceptorsMayFail = TRUE
  ResponseInterceptors = TRUE
  MayRecover = TRUE
  WithIds = {r1}
  Interruptions = {"cancel", "cancelAll", "dispose", "abandon"}
SPECIFICATION FairSpec
INVARIANTS ResourcesReleased
PROPERTIES ImplementsOneFlightPerKey RequestsSettle
CHECK_DEADLOCK FALSE
