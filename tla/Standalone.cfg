SPECIFICATION StandaloneSpec
CONSTANTS
  Reconnect = TRUE
  MaxRetries = 2
  Heartbeat = TRUE
  TimeoutShorter = TRUE
  MaxOld = 2
  MaxWaiting = 2
  MaxChecks = 2
  FirstPage = 1  InitialPage = 2  LastPage = 4
  MaxFetches = 3  MaxPages = 4
  MaxAttempts = 3  MaxStarts = 3
  CacheKeys = {c1, c2, c3}  MaxEntries = 2  EmptyKey = c3
  Items = {i1, i2, i3, i4}  MaxBatchSize = 2
  MaxChunks = 4  Parallel = 2
  Limit = 3  MaxCalls = 5  MaxTime = 9
  MaxClients = 2  MaxRequests = 2  MaxChanges = 2
  Requests = {r1, r2}  MaxHandlers = 2  MaxRecordings = 2
  Callers = {r1, r2, r3}  Bodies = {c1, c2, c3}  Circular = {c3}  MaxContent = 1
INVARIANTS StreamsNotStranded PagesContiguous EvictsLeastRecentlyUsed ResolvedMeansStored LastCallRuns  OneTracePerRequest AnsweredOnceRecordedOnce FlightsShared
PROPERTIES StreamsImplementReconnecting SilenceNoticed MonitorConverges PollingEnds BatchedItemsSettle
CHECK_DEADLOCK FALSE
