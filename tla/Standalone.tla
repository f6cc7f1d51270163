------------------------------ MODULE Standalone ------------------------------
(***************************************************************************)
(* The parts of the library that share no state with each other or with    *)
(* the client, side by side.  Every behaviour is one of the part it tries; *)
(* the others stay as they began.  The constants are those of the parts,   *)
(* under the names they have there, but for CacheKeys and MaxRecordings.   *)
(***************************************************************************)
EXTENDS WebSocketClient

CONSTANTS
  MaxChecks,                                                \* of NetworkMonitor
  FirstPage, InitialPage, LastPage, MaxFetches, MaxPages,   \* of InfiniteQuery
  MaxAttempts, MaxStarts,                                   \* of Polling
  CacheKeys, MaxEntries, EmptyKey,                          \* of CacheManager
  Items, MaxBatchSize,                                      \* of BatchProcessor
  MaxChunks, Parallel,                                      \* of ResumableUploader
  Limit, MaxCalls, MaxTime,                                 \* of Timing
  MaxClients, MaxRequests, MaxChanges,                      \* of RequestHeaders
  Requests, MaxHandlers, MaxRecordings,                     \* of TestDoubles
  Callers, Bodies, Circular, MaxContent                     \* of RequestDeduplicator

\* options.parallel and the time to wait are positive: nothing is sent, and nothing is
\* throttled, otherwise.  So are the sizes of batches and of the memory cache: 0 stands for
\* the default.
ASSUME StandaloneAssumption ==
  /\ {FirstPage, InitialPage, LastPage} \subseteq Int
  /\ {MaxFetches, MaxPages, MaxChunks, MaxCalls, MaxTime, MaxHandlers, MaxRecordings,
      MaxClients, MaxRequests, MaxChanges, MaxContent} \subseteq Nat
  /\ {Parallel, Limit, MaxBatchSize, MaxEntries} \subseteq Nat \ {0}
  /\ "none" \notin Callers

VARIABLES
  tried,
  es, sseClosed, sseAttempts, sseWaiting, sseGaveUp, sseWanted,
  link, reachable, listening, polling, isOnline, checks,
  pages, isFetching, isFetchingNextPage, isFetchingPreviousPage, error, fetches, outlived,
  isRunning, attempts, runs,
  memory, cache, older, spared,
  queue, timeout, timer, batches, promise,
  chunks, upload, next, active, winner, race, stored, aborted, overtaken,
  throttled, leading, now, timers, handle, inThrottle, reopens, lastRan, calls, ran,
  heap, config, clients, options, sent, built, own, changes,
  handlers, history, stage, answeredBy, registered, oneTime, isRecording, tagged, records,
  recording, begun,
  content, cachedKey, inflight, flights, asked, joined, settledJoin, forgotten, savedRequests

SSE == INSTANCE SSEClient WITH
  isExplicitlyClosed <- sseClosed, reconnectAttempts <- sseAttempts,
  waiting <- sseWaiting, gaveUp <- sseGaveUp, wanted <- sseWanted
Monitor == INSTANCE NetworkMonitor
Infinite == INSTANCE InfiniteQuery
Poller == INSTANCE Polling
Cache == INSTANCE CacheManager WITH Keys <- CacheKeys
Batch == INSTANCE BatchProcessor
Uploader == INSTANCE ResumableUploader
Timed == INSTANCE Timing
Built == INSTANCE RequestHeaders
Doubles == INSTANCE TestDoubles WITH MaxStarts <- MaxRecordings
Dedup == INSTANCE RequestDeduplicator

sseVars == <<es, sseClosed, sseAttempts, sseWaiting, sseGaveUp, sseWanted>>
monitorVars == <<link, reachable, listening, polling, isOnline, checks>>
infiniteVars == <<pages, isFetching, isFetchingNextPage, isFetchingPreviousPage, error, fetches, outlived>>
pollerVars == <<isRunning, attempts, runs>>
cacheVars == <<memory, cache, older, spared>>
batchVars == <<queue, timeout, timer, batches, promise>>
uploaderVars == <<chunks, upload, next, active, winner, race, stored, aborted, overtaken>>
timedVars == <<throttled, leading, now, timers, handle, inThrottle, reopens, lastRan, calls, ran>>
builtVars == <<heap, config, clients, options, sent, built, own, changes>>
doublesVars == <<handlers, history, stage, answeredBy, registered, oneTime, isRecording, tagged,
                 records, recording, begun>>
dedupVars == <<content, cachedKey, inflight, flights, asked, joined, settledJoin, forgotten,
               savedRequests>>
allVars == <<tried, vars, sseVars, monitorVars, infiniteVars, pollerVars, cacheVars,
             batchVars, uploaderVars, timedVars, builtVars, doublesVars, dedupVars>>

Parts == {"WebSocket", "SSE", "Monitor", "Infinite", "Poller", "Cache", "Batch", "Uploader", "Timed",
          "Built", "Doubles", "Dedup"}

\* One initial state for the parts that are not tried.
StandaloneInit ==
  /\ tried \in Parts
  /\ Init /\ SSE!Init /\ Infinite!Init /\ Poller!Init /\ Batch!Init
  /\ Built!Init /\ Doubles!Init /\ Dedup!Init
  /\ Monitor!Init /\ (tried # "Monitor" => reachable /\ ~listening /\ ~polling)
  /\ Cache!Init /\ (tried # "Cache" => memory)
  /\ Uploader!Init /\ (tried # "Uploader" => chunks = 0)
  /\ Timed!Init /\ (tried # "Timed" => throttled /\ leading)

OthersStay ==
  /\ tried # "WebSocket" => UNCHANGED vars
  /\ tried # "SSE" => UNCHANGED sseVars
  /\ tried # "Monitor" => UNCHANGED monitorVars
  /\ tried # "Infinite" => UNCHANGED infiniteVars
  /\ tried # "Poller" => UNCHANGED pollerVars
  /\ tried # "Cache" => UNCHANGED cacheVars
  /\ tried # "Batch" => UNCHANGED batchVars
  /\ tried # "Uploader" => UNCHANGED uploaderVars
  /\ tried # "Timed" => UNCHANGED timedVars
  /\ tried # "Built" => UNCHANGED builtVars
  /\ tried # "Doubles" => UNCHANGED doublesVars
  /\ tried # "Dedup" => UNCHANGED dedupVars

StandaloneNext ==
  /\ \/ tried = "WebSocket" /\ Next
     \/ tried = "SSE" /\ SSE!Next
     \/ tried = "Monitor" /\ Monitor!Next
     \/ tried = "Infinite" /\ Infinite!Next
     \/ tried = "Poller" /\ Poller!Next
     \/ tried = "Cache" /\ Cache!Next
     \/ tried = "Batch" /\ Batch!Next
     \/ tried = "Uploader" /\ Uploader!Next
     \/ tried = "Timed" /\ Timed!Next
     \/ tried = "Built" /\ Built!Next
     \/ tried = "Doubles" /\ Doubles!Next
     \/ tried = "Dedup" /\ Dedup!Next
  /\ OthersStay /\ UNCHANGED tried

\* Nothing that is fair is enabled in a part that is not tried.
StandaloneSpec ==
  /\ StandaloneInit /\ [][StandaloneNext]_allVars
  /\ Fairness /\ Monitor!Fairness /\ Poller!Fairness /\ Batch!Fairness

-----------------------------------------------------------------------------
\* WebSocketClient and SSEClient implement Reconnecting: no dial of a live stream, none
\* after close(), and none the application has not asked for but at the end of a delay, of
\* which at most MaxRetries begin between two streams that open.
StreamsImplementReconnecting == ImplementsReconnecting /\ SSE!ImplementsReconnecting

\* handleReconnect() of either leaves no stream down without a delay or a report.
StreamsNotStranded == NotStranded /\ SSE!NotStranded

\* NetworkMonitor.checkConnection(): isOnline follows a network that has settled, whatever
\* older checks and browser events report.
MonitorConverges == Monitor!Converges

\* InfiniteQuery: pages that arrive in any order leave no gap and no repetition.
PagesContiguous == Infinite!PagesContiguous

\* PollingController.start() returns in the end if the attempts are limited.
PollingEnds == Poller!RunsEnd

\* MemoryAdapter evicts in the order of last use, the empty key excepted.
EvictsLeastRecentlyUsed == Cache!EvictsLeastRecentlyUsed

\* BatchProcessor settles what add() was given.
BatchedItemsSettle == Batch!ItemsSettle

\* ResumableUploader.upload() resolves only when every chunk is stored, or has failed in
\* the ticks after another's success.
ResolvedMeansStored == Uploader!ResolvedMeansStored

\* debounce() and throttle() run the function for the last call.
LastCallRuns == Timed!LastCallRuns

\* HTTPBuilder and request(): a client and a request stay as they were configured, names of
\* headers being what they are spelled.
SentAsConfigured == Built!SentAsConfigured

\* createTraceInterceptor() and createOTelInterceptor(): one trace for a request and its
\* resends.
OneTracePerRequest == Built!OneTracePerRequest

\* MockAdapter.replyOnce() answers once, NetworkRecorder records once.
AnsweredOnceRecordedOnce == Doubles!AnsweredOnceRecordedOnce

\* RequestDeduplicator shares flights between callers who ask for the same, or for
\* something that cannot be serialized.
FlightsShared == Dedup!FlightsShared
=============================================================================
