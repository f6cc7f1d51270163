CONSTANTS
  Ids = {t1, t2, t3}
  Priorities = {0, 1}
  Concurrency = 2
  AutoStart = TRUE
  Reuse = FALSE
  AllowRestart = TRUE
  WaitForLoad = TRUE
SPECIFICATION FairSpec
INVARIANTS NoStrandedWork NoPriorityInversion
PROPERTIES ImplementsWorkPool StartsHighestPriority PendingSurvivesReload RunnableEventuallyStarts
