CONSTANTS
  Calls = {c1, c2, c3}
  FailureThreshold = 2
  ResetTimeout = 2
  HalfOpenRetries = 2
  CallbackMayThrow = TRUE
  Unlimited = Unlimited
  FailureBudget = 4
SPECIFICATION FairSpec
INVARIANTS TransitionsNotMissed
PROPERTIES OpenHoldsUnlessLateSuccess CircuitRecovers
