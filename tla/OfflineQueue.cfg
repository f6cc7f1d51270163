SPECIFICATION OfflineSpec
CONSTANTS
  k = k  a = a  g = g  h = h  n1 = n1  n2 = n2
  Ids = {k, n1, n2}
  Requests = {a, g, h}
  NoKey = NoKey
  KeyOf <- MCKeyOf
  Priorities = {0}
  Concurrency = 2
  AutoStart = TRUE
  Reuse = TRUE
  AllowRestart = TRUE
  WaitForLoad = FALSE
INVARIANTS QueuedProgresses
PROPERTY SentAtMostOnce
