CONSTANTS
  Requests = {r1, r2}
  Keys = {k1}
  NoKey = NoKey None = None
  Limited = FALSE
  InterceptorsMayFail = FALSE
  ResponseInterceptors = FALSE
  MayRecover = FALSE
  WithIds = {r1}
  Interruptions = {"cancel"}
SPECIFICATION Spec
PROPERTY CancelAborts
CHECK_DEADLOCK FALSE
