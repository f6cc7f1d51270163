CONSTANTS
  Calls = {c1, c2, c3}
  Signalled = {c1, c3}
  Uploads = {c3}
  MaxRetries = 2
  OnRetryMayThrow = TRUE
SPECIFICATION FairSpec
INVARIANTS AttemptsInterruptible CancelledCallsStop
PROPERTIES HonoursSignal CallsSettle
CHECK_DEADLOCK FALSE
