CONSTANTS
  Requests = {r1, r2}
  Keys = {k1}
  NoKey = NoKey None = None
  Limited = FALSE
  InterceptorsMayFail = TRUE
  ResponseInterceptors = FALSE
  MayRecover = FALSE
  WithIds = {}
  Interruptions = {}
SPECIFICATION Spec
INVARIANT NothingHeld
CHECK_DEADLOCK FALSE
