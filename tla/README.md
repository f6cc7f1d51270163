# Reixo in TLA+

Reixo is an HTTP client library for browsers and JavaScript runtimes: a client with
interceptors, deduplication, caching, cancellation and offline support, and the
utilities it is built from (a priority task queue, a rate limiter, a circuit breaker,
token refresh, retry, polling, WebSocket and SSE clients). This directory holds TLA+
models of its stateful parts, the TLC configurations that check them, and TLAPS proofs.

JavaScript has no data races, but every `await`, timer and event handler is a place where
other code runs in between. That is the granularity of all models here: *one action is
one run-to-completion step*, from one await (or call) to the next. What is hard in this
code is what may happen between two such steps.

## 1. Inventory

| Component (source under `src/src`) | State | Operations | Talks to | What makes it correct | Module |
|---|---|---|---|---|---|
| Task queue `utils/queue.ts` | pending tasks, active ids and count, completed ids, pause flag, storage | add, cancel, pause, resume, clear, drain, restore | network monitor (pause/resume), storage, task functions | concurrency bound, priority and dependency order, no lost wake-up, what survives a reload | TaskQueue, WorkPool |
| Circuit breaker `utils/circuit-breaker.ts` | state, failure and success counts, nextAttempt | execute | wraps the transport; `onStateChange` callback | OPEN really blocks, thresholds, recovery, stale settlements | CircuitBreaker |
| Rate limiter `utils/rate-limiter.ts` | tokens, lastRefill, promise chain | waitForToken, tryConsume, reset | awaited first by every request | rate bound, FIFO, one token each, progress | RateLimiter |
| HTTP client, request lifecycle `core/http-client.ts` | in-flight map, abort controllers, abandonment timers | request, requestWithId, cancel, cancelAll, dispose | limiter, interceptors, breaker, transport | one call per key, everything released, cancellation works, requests settle | RequestLifecycle, OneFlightPerKey (partly) |
| Authentication `utils/auth.ts` | isRefreshing, failedQueue, token | request and response interceptor, refresh | client (resends through it) | one refresh, nobody left waiting, no old token resent | AuthInterceptor |
| HTTP transport and retry `utils/http.ts`, `utils/retry.ts` | per attempt: timeout, abort listener; attempt count | http, withRetry | fetch, the client's signal | timeout, abort and retry never mix up or leak | HTTPTransport, Classification |
| Offline queue `core/http-client.ts` 629-683 | a TaskQueue whose tasks call request() | queueOfflineRequest, restore | task queue, network monitor | queued requests are sent at most once, make progress, survive reloads | OfflineQueue |
| Query cache `core/http-client.ts` 776-941, 971-1037 | cache entries, active queries, suspense promises | request strategies, subscribe, mutate, setQueryData, revalidate, read, prefetch | request lifecycle, cache storage | observers and cache agree, newer data wins | QueryCache |
| Cache storage `utils/cache.ts` | LRU map, expiry, tags | get, getEntry, set, delete, clear, invalidate | browser storage | size bound, order of eviction | CacheManager |
| Deduplicator `utils/dedup.ts` | in-flight map, keys cached per body object | deduplicate, evict, clear | - | one call per key, only for who asks the same | RequestDeduplicator, OneFlightPerKey |
| Batch processor and transport `utils/batch.ts`, `utils/batch-transport.ts` | queue, timer | add, flush | batch transport | each item in one batch, everybody answered | BatchProcessor |
| Infinite query `utils/infinite-query.ts` | pages, fetching flags, controller | fetchNextPage, fetchPreviousPage, abort, reset | client.get | pages contiguous | InfiniteQuery |
| Polling `utils/polling.ts` | running flag, attempts, interval | start, stop | a task | runs end, at most maxAttempts | Polling |
| WebSocket and SSE clients `core/websocket-client.ts`, `core/sse-client.ts` | socket, attempts, closed flag, heartbeat timers | connect, close, send | socket events, timers | one link, bounded retries of its own, close is final, silence noticed | WebSocketClient, SSEClient, Reconnecting |
| Network monitor `utils/network.ts` | online flag, poll timer | checks, events, destroy | task queue, offline queue | the flag follows the network | NetworkMonitor |
| Pagination, resumable upload `utils/pagination.ts`, `utils/upload.ts` | page; chunks under way | paginate, upload, abort | client | every item and chunk once, bounded parallelism | Pagination, ResumableUploader |
| Debounce and throttle `utils/timing.ts` | timer, lastRan, inThrottle | the wrapped function | timers | the last call runs | Timing (partly) |
| Builder, headers, tracing `core/http-client.ts`, `utils/ssr.ts`, `utils/tracing.ts`, `utils/otel.ts` | header objects, possibly shared | with..., build, request, interceptors | authentication (resends) | configured is what is sent, one trace per request | RequestHeaders, Classification (partly) |
| Mock adapter, recorder `utils/mock-adapter.ts`, `utils/recorder.ts` | handlers, history; records | on..., replyOnce, transport; start, stop | transport, interceptors | answered once, recorded once | TestDoubles (partly) |
| Event emitter `utils/emitter.ts` | listeners | on, once, off, emit | everybody | listeners run as registered | EventEmitter |
| GraphQL client `core/graphql-client.ts` | - | persistedRequest, query | client | a query is resent in full exactly when it is unknown | Classification (partly) |
| Metrics, logging, security `utils/metrics.ts`, `utils/logger.ts`, `utils/security.ts` | samples | record, redact | client events | aggregates; secrets stay out of logs | Metrics, Redaction (partly) |
| Helpers `utils/form-data.ts`, `utils/keys.ts`, `utils/runtime.ts`, `types/result.ts` | none | pure functions | - | different requests have different keys, nothing is lost | Data, Serialization, Classification (partly) |
| Connection pool `utils/connection.ts` | agents | get, destroy | client | - | not modelled |

The interactions that matter: a request waits for the *rate limiter*, is looked up in the
*in-flight map*, goes to the *offline queue* if the network is down, runs the request
interceptors (one of which is *authentication*), passes the *circuit breaker* into the
*transport* with its *retries*, then the response or error interceptors (authentication
again, which may send a new request), the *cache* and its observers; `cancel`,
`cancelAll`, `dispose` and the abandonment timer may arrive between any two of these.

`PROJECT.json` lists the hazards of this code, each at its line, with the properties aimed
at it, and for each component which module models it and what is left out.

## 2. Plan

Done, in the order of importance: the core (TaskQueue, CircuitBreaker, RateLimiter,
RequestLifecycle, AuthInterceptor, HTTPTransport under the abstract Transport); QueryCache and
OfflineQueue, which composes TaskQueue with request(); the streaming clients under the abstract
Reconnecting; NetworkMonitor, InfiniteQuery, Polling, CacheManager, BatchProcessor,
ResumableUploader, Timing, RequestHeaders, TestDoubles and RequestDeduplicator; the functions
without state; last the abstract WorkPool, which the task queue implements, and OneFlightPerKey,
which the client's requests and the deduplicator both implement. Every safety property and every
refinement the runs check is a theorem (section 5).

Left out on purpose: that RequestLifecycle *uses* its transport as the module Transport says. The
module has the transport inside, as what Answered may do, and says nothing of which attempt a signal
belonged to; a refinement would compare the guard of Answered with history variables added for it,
and so restate it.

Each module takes its parameters as CONSTANTS with named assumptions and has one action per
operation or continuation. RECURSIVE operators occur only in Serialization, Redaction,
EventEmitter and MCStandalone, which no proof uses.

## 3. Modules

A component of the core has two modules: `X` (model and properties) and `XProofs` (theorems);
its cfg gives the constants their values, by way of a module `MCX` where it takes definitions to
do so (QueryCache, OfflineQueue, Standalone); `QueueProofs` is about
TaskQueue and OfflineQueue. The parts of the library that share no state are put side by side in
`Standalone`, checked by `MCStandalone` and proved about in `StandaloneProofs`. Definitions whose comment says "Mutant of Y" are plausible
mistakes in Y, named in PROJECT.json with the property that notices them; no specification
uses them. Each module with state has a `TypeOK`, which can be added to the INVARIANTS of its
cfg; in the modules with proofs it is a theorem, and therefore not checked again.

### TaskQueue
`queue`, `active`, `activeCount`, `completed`, `paused` are the fields of the class; `stored`
is the metadata under storageKey. A task occupies the queue over three actions: `ProcessNext`
starts it (from `Add`, `Resume` or `Finish`), `Settle` is the settlement of its function inside
the wrapper `add()` builds, `Finish` the `finally` block, a microtask later. `Boosted` is
the least set closed under `applyPriorityInheritance`, `Sorted` the result of a stable sort.
A reload may happen at any point (`Restart`), and `LoadQueue` is the constructor's timer.
`promise` says what became of the promise of add. Two variables are history: `owed`, the ids
pending at a reload and not handed back yet, and `late`, the ids added when a pending task
already depended on them (add() boosts what is queued, never a newcomer). Constants choose
how callers behave: whether they reuse ids, and whether they wait for the restore.

`WorkPool` is what the queue is to the one who submits work: items wait, run in one of `Size`
slots, are answered and release their slot; only what waits can be withdrawn. When a slot is taken and
by whom is left open. Of the queue, `settled` holds the tasks that are answered and still hold
their slot, and Concurrency - activeCount is the number of free slots: that the counter and the
set agree is a part of what the refinement says.

### CircuitBreaker
Calls overlap: `Execute*` runs up to `await fn()`, `Succeed` and `Fail` are what follows it, in
whatever state the circuit then is. `nextAttempt` is kept as the time left until it is passed,
which is all the code asks; `sinceOpen` and `lateSuccess` are history. `threw` says that
`onStateChange` throws; when it does inside onSuccess, the catch block runs onFailure too, and
`ToClosed` is both.

### RateLimiter
An exact token bucket on a millisecond clock, in units of 1/Interval token. `chains` is the
chain of promises behind `acquisitionQueue`, last, and before it those that reset() cut loose
and that are not done; a call sleeps at the head of its chain (`Sleep`) and takes its token when
its timer fires, on time or late (`Wake`). `window` is a ghost observer that counts grants over
a window of time opened at any moment. `disturbed` is history: tryConsume() or reset() was
called while calls were pending. From then on "one token each, in order" and the rate are not
promised, since the code does not check the answer of tryConsume() after its sleep; progress is.

### RequestLifecycle
`phase` is the await a request is at. `Dispatch` is the synchronous stretch from the limiter to
the request interceptors: join the request in flight or register a controller, a timer and
the map entry. `Complete` ends the try or catch block together with its `finally` block; error
interceptors run after it, since `runErrorInterceptors` is returned without await. A request
whose request interceptor rejected is `stillborn`: it has settled, outside the try block.
`Cancel`, `CancelOuter` (an id from requestWithId), `CancelAll`, `Dispose` and `Abandon`
interrupt. `dropped` is history: dispose() or an abandonment timer took the map entry of a live
request away. The transport is any that honours its signal; it may hang until aborted.

`OneFlightPerKey` is what deduplication promises, the client's and that of `utils/dedup.ts`: a call
flies, or joins a flight for its key that has not landed, and then shares its outcome; a flight is
registered until it lands; a second one for the key takes off meanwhile only if the key was
forgotten on purpose, which RequestLifecycle records in `dropped` and RequestDeduplicator in
`forgotten`. A stillborn request is a "spoilt" flight, registered for good, and one whose error
interceptors still run has "landed". It says more than SingleFlight, which it replaces in the run:
also who may join what, and what joining brings.

### Transport and HTTPTransport
`Transport` states what the lifecycle counts on: a promise per call that settles once, and,
once the signal of the call has been aborted, rejects and never fulfils. `HTTPTransport` is
`http()` with `withRetry()`: `Attempt` begins an attempt (`Fetch` is fetchWithTimeout up to its
await: timeout armed, signal linked), `Headers`, `NetworkFails` and `FetchAborted` end the
fetch, `Body` and `BodyAborted` the reading, `Fails` is the catch block of withRetry, `Retry`
the end of its sleep. `signal` is one signal shared by the calls in `Signalled`; the reason it
is aborted with matters, because anything but an AbortError is classified as a failure of
the network and retried. `listeners` are those left on it: the code takes one off only when the
attempt's own controller is aborted, so attempts that ended by themselves stay linked, to no
effect when the signal fires. Uploads with progress go through XMLHttpRequest (`Uploads`), which
takes no notice of the signal. Errors are the classes retryCondition distinguishes: "busy" (5xx,
429, 408), "denied" (other statuses), "network", "timeout", "abort", "raw" (the rest). That a
response and an abort arrive at the same instant is modelled as one before the other: the
continuation of fetch() runs in the task that resolves it.

### AuthInterceptor
Requests of the application, and optionally one made by `refreshTokens` with the client it is
given. Tokens are numbered in the order they are obtained; `stored` is the newest one, 0 before
there is any (a request then goes without the header), `valid` says whether the server still
accepts it. `Denied` is the 401 branch of the response interceptor, `Refreshed`/`RefreshFailed`
its continuation with `processQueue`. A resent request starts again from the top, as in
`client.request(...)`.

### QueryCache
What `request()` with its cache strategies, `read`, `subscribe`, `setQueryData`, `mutate`,
`prefetch` and `revalidateActiveQueries` do to the cache, the active queries and the requests
under way. A request is sent (`Launch`), answered (`Answer`, with the version the server then
has) and delivered (`Deliver`), so that answers overtake each other. `query` and the `q` of an
observer are the *identity* of a query object: the function subscribe() returns holds on to
its object while the map may hold another one. Keys meet only where storing one evicts another
(`Evict`). History: `behind` (observers not told of the last write), `cut` (observers whose
query somebody else's unsubscribe() deleted), `kept`, `overlap`, `disposed`.

### OfflineQueue
Extends TaskQueue: the tasks of the queue call `request()` again, and every action of the
queue is one of this module's. A call waits for the limiter, joins a request for its key, is
sent or is queued. The monitor reports 'online' and 'offline' at will. A page load keeps only
what is stored, and the restored tasks send requests of the earlier page. History counts how
often a queued request is sent.

### Reconnecting, WebSocketClient, SSEClient
`Reconnecting` is what both stream clients promise: a link is dialled only when it is down, and
stays down once closed. A dial the application has not asked for (`Redial`) uses up a retry that was
scheduled, and at most MaxRetries are scheduled before the link is up again, so that the client by
itself dials that often at most, and once more for every retry still due when the link came up;
connect() (`Call`) is free. In
`WebSocketClient` replaced sockets live on while they are CLOSING, and their close events run
the same handlers; delayed reconnects and the heartbeat's two timers are state. The `EventSource`
of `SSEClient` reconnects by itself, and the client dials again only when it is CLOSED.

### NetworkMonitor, InfiniteQuery, Polling
`NetworkMonitor`: browser events and overlapping checks, answered in any order, also after
destroy(). `InfiniteQuery`: a page is its page parameter; a fetch survives abort() and reset().
`Polling`: overlapping runs of one loop share `isRunning` and `attempts`.

### CacheManager, RequestDeduplicator, BatchProcessor, ResumableUploader
`CacheManager`: the Map of MemoryAdapter is a sequence, the oldest first; WebStorageAdapter may
fail to save. `older` is history, the pairs of keys of which the second was used since the first
was; a scan of invalidateByTag() or invalidateByPattern() moves entries (`Pruned`), and is no
use. Eviction takes a first key that is the empty string for none at all (`if (lruKey)`);
`spared` records that it has. `RequestDeduplicator`: the key of a body object is cached by
identity and goes stale when the object changes, and the bodies of `Circular`, at which
JSON.stringify() throws, have one key between them; evict() and clear() forget flights that are
still under way. `BatchProcessor`: items, the delay timer, batches being answered in any order,
and the requests batch-transport.ts sends alone. `ResumableUploader`: chunks under way side by
side, and the race the loop awaits. A chunk that settles leaves `active` at once (`Leave`, the
finally() callback), its promise settles ticks later and the race with it (`RaceSettles`), then
the loop goes on or throws; other chunks may leave between any two of these, and `overtaken`
records those that failed when another had already decided the race.

### Timing, RequestHeaders, TestDoubles
`Timing` is the one module where the length of delays matters: a discrete clock, timers in the
order they are due. `RequestHeaders` has a heap of header objects, because the hazard is who
else holds the object a header is written into: builder, clients, caller's options, and the
config a refused request is resent with. Names are told apart by their spelling, as the code
does; an options object lists them as they are and a Headers instance in lower case (`Single`).
`TestDoubles`: handlers that answer after a delay, one-time handlers, recordings that begin and
end meanwhile.

### Data, Serialization, Classification, Pagination, Redaction, EventEmitter, Metrics
Pure functions, checked by the assumptions of `MCStandalone` against reference definitions:
query strings, keys and their hash, forms and cURL commands; error classes, retry decisions and delays;
paginate(); what is masked in logs; what a call of emit() runs; the metrics' aggregates. Values
are the sequences of entries of `Data`, up to depth two.

## 4. Runs

Passing runs:

| Run | Instance | Invariants and properties |
|---|---|---|
| TaskQueue | 3 ids, 2 priorities, 2 slots, all dependency sets, reloads, callers wait for the restore | NoStrandedWork, NoPriorityInversion, ImplementsWorkPool (refinement), StartsHighestPriority, PendingSurvivesReload, RunnableEventuallyStarts |
| CircuitBreaker | 3 overlapping calls, thresholds 2, timeout 2, throwing callback, 4 failures | TransitionsNotMissed, OpenHoldsUnlessLateSuccess, CircuitRecovers |
| RateLimiter | 3 calls, 2 per 3 ms, windows up to 4 ms, direct use and reset | RateRespected, TokenPerCallInOrder, CallsResolve |
| RequestLifecycle | 3 requests, 1 key and no key, limiter, failing interceptors, one id from requestWithId, every interruption | ResourcesReleased, ImplementsOneFlightPerKey (refinement), RequestsSettle |
| AuthInterceptor | 3 requests, 3 expiries, refreshes that fail | WaitersServed, ResentWithNewerToken, RequestsSettle |
| HTTPTransport | 2 fetches and an upload, maxRetries up to 2, a signal aborted with either kind of reason | AttemptsInterruptible, CancelledCallsStop, HonoursSignal (refinement of Transport), CallsSettle |
| QueryCache | 1 key that others evict, 2 observers, 3 versions, 2 requests at once, with and without deduplication | ObserversCurrent, NeverOlderUnlessOverlapping |
| OfflineQueue | 3 requests (2 share a key), 3 ids, 2 slots, reloads | QueuedProgresses, SentAtMostOnce |
| Standalone | one of the twelve parts at a time, see below | StreamsNotStranded, PagesContiguous, EvictsLeastRecentlyUsed, ResolvedMeansStored, LastCallRuns, SentAsConfigured, OneTracePerRequest, AnsweredOnceRecordedOnce, FlightsShared, StreamsImplementReconnecting (refinement), SilenceNoticed, MonitorConverges, PollingEnds, BatchedItemsSettle, and the assumptions of MCStandalone |

`tried` in Standalone chooses the part a behaviour is about; the others stay in one initial
state, where nothing fair is enabled, so that the instance is the sum and not the product of
the parts.

Runs that end in a counterexample, each a disagreement between the code and what its texts
promise (`findings` in PROJECT.json quotes the text):

| Run | Property | Disagreement |
|---|---|---|
| RequestLifecycle_interceptor | NothingHeld | a rejecting request interceptor leaks the deduplication entry |
| RequestLifecycle_with_id | CancelAborts | the id of requestWithId() aborts nothing |
| OfflineQueue_reload | SurvivesReload | dispose() runs when the page is left and erases the stored queue |

Seven more disagreements are properties of the modules that no cfg lists. A change of constants
shows four of them: with WaitForLoad = FALSE, TaskQueue violates PendingSurvivesReload (a task
added before the restore timer overwrites the stored queue); CircuitBreaker violates
OpenHoldsForResetTimeout (a late success while OPEN cancels the reset timeout); RequestLifecycle
violates SharedFlight (after dispose(), an old finally block removes a newer request's entry);
and with RefreshThroughClient = TRUE, AuthInterceptor violates RequestsSettle (a refresh that uses
the client waits for itself, which is also the theorem ReentrantRefreshBlocks). The other three TLC
finds violated when it checks the part by itself; the properties of Standalone name each as an
exception:

* ResumableUploader violates FailureRejects (3 chunks, 2 side by side): "Throws immediately if any
  worker rejects" (utils/upload.ts:120), but a chunk that fails in the ticks between another's
  success and the loop's next iteration is out of `active` before its promise rejects, and upload()
  resolves with that chunk missing.
* RequestDeduplicator violates FallbackNotShared (2 callers, 2 circular bodies): "a unique marker. The
  request will not be deduplicated" (utils/dedup.ts:75-76), but all plain objects that cannot be
  serialized have one key, and share a flight.
* RequestHeaders violates JsonUnlessProvided (1 client, 1 request, 2 changes): "`Content-Type:
  application/json` is set unless already provided" (core/http-client.ts:1515), but a type given as
  'content-type', as a Headers instance always lists it, is sent beside it.

Other behaviour the models contain and no property claims, which a reader of the code should
know: cancel() or clear() of the last task leaves drain() pending; a throwing onStateChange
turns a success into a failure; tryConsume() or reset() during a sleep lets a caller of the
limiter through unpaid; requests waiting for the limiter escape cancelAll(), and one cancelled
during its response interceptors succeeds; cancelling a request fails those deduplicated onto
it; a 401 for the old token that arrives after a refresh refreshes again; an http() call whose
signal is aborted with a custom reason is retried until its retries are used up; a body that
stalls hangs a call without a signal, since the timeout ends with the headers; uploads with
progress cannot be cancelled, so the abandonment timer cannot end them either.

The same of the other parts. *Query cache*: cache-first and stale-while-revalidate serve expired
entries; read() requests falsy data again and again; mutate(revalidate) may join a request older
than the mutation; a late response overwrites what mutate() or setQueryData() wrote;
prefetch.cancel() aborts nothing. *Offline queue*: requests running at a crash are lost; only
persistent storage keeps anything, which `offlineQueue: true` alone does not choose; a keyed
request queued again by its own task is rejected; and with a rate limiter the queue may wedge:
`Wedged` in OfflineQueue describes the state that QueuedProgresses exempts. *Streams and
polling*: a WebSocket heartbeat whose timeout is not shorter than its interval never fires; the
close event of a replaced socket stops the heartbeat of the new one; start() during a stopped
run's delay revives the old loop; a page fetched before reset() lands in the new list, and
isFetching is cleared while the other direction still fetches. connect() may be called, and
dials, at any time and as often as the application likes; only delays are counted. *Headers*:
two spellings of one name, of the client and of the request or of the caller and of the library,
are both handed to fetch(), and the lower-case type of a form stays; without headers of their
own requests hand the interceptors `_cachedBaseHeaders` itself, so that one that writes into it
in place would change all later requests (the library's do not); header versioning in request()
writes into the caller's options, so that an unversioned client that is given the same options
sends the version too; url versioning prefixes a resent request twice. *Keys*: `generateKey`, "a
unique key" (utils/keys.ts:5), replaces keys longer than 256 characters by a 32-bit hash in
which neighbouring characters compensate each other (HashedKeysTellOneCharacter: URLs that end
in 'cc' and 'bB' often collide), so that two long requests may share a flight and a cache entry;
and the key of a flight contains neither the method nor the headers, so that a HEAD may join a
GET of its URL. *Documentation*: versioningStrategy and versionHeader are documented with the
defaults 'url' and 'Accept-Version' (http-client.ts:305 and :311) where the code takes 'header'
and 'X-API-Version'. *Others*: a memory cache whose first key is the empty string grows past its
limit, by one entry each time; a body changed after its first deduplication keeps its old key; a
trailing run of throttle() leaves the gate open, so that two runs may fall into one interval;
throttle({leading: false}) loses its last call; other chunks go on after a chunk has failed, and
abort() does not fail an upload whose race is already won; a browser storage that is full saves
nothing and says so nowhere; a jittered delay may exceed maxDelayMs by half; a server that caps
the page size ends paginate() after its first page; a recorder started again while a request is
under way records that request in the new recording.

**Bounds.** Two tasks or calls give every pairwise interleaving; the third is there for chains
(a dependency of a dependency, a waiter behind a waiter) and for a stale call beside two fresh
ones. Thresholds of 2 are the smallest with a state strictly between zero and the limit. The
limiter's rate of 2 per 3 ms makes the refill of a millisecond a fraction of a token, and a
window of 4 ms is longer than the interval. Two retries make an attempt that is neither the
first nor the last. Standalone: 2 reconnects with 2 replaced sockets and 2 delays under way (a
third of either is one more of the same); 2 overlapping checks; pages 1 to 4 from page 2 with 3
fetches, so that both directions, a reset and a late page meet; 3 attempts of 3 starts; 3 keys,
one of them the empty one, for 2 places; 4 items in batches of 2; up to 4 chunks, 2 side by
side; 5 calls within 9 ticks of limit 3, which is three intervals; 2 clients, requests and
changes of the builder; 2 handlers, requests and recordings; 3 callers with 3 bodies, one of
them not serializable. QueryCache: 2 requests of a key overlap and 3 versions tell old, middle
and new apart; observers are symmetric. OfflineQueue: one request more than the queue has slots.
MaxWindow (RateLimiter), MaxExpired (AuthInterceptor) and FailureBudget (CircuitBreaker),
MaxVersion and MaxFlights (QueryCache), MaxOld, MaxWaiting and MaxChecks (streams and monitor)
and the other Max constants set in Standalone.cfg bound what grows; each request or task id is
used once unless `Reuse` says otherwise, so that the state spaces are finite without further
constraints.

**Deadlock.** CHECK_DEADLOCK is off where calls are one-shot (RequestLifecycle,
AuthInterceptor, HTTPTransport, Standalone): when all have settled nothing is left to do.

**Fairness.** Weak fairness stands for the event loop: timers fire, continuations of settled
promises run, interceptors and task functions terminate. In RequestLifecycle the transport is
*not* assumed to answer unless its signal is aborted; the abandonment timer has to do it. In
HTTPTransport no server ever has to answer: only timeouts, backoff sleeps and the rejections
that follow an abort are fair, which is why CallsSettle lets a call stay in its body. In
CircuitBreaker the application goes on making calls, without which an open circuit has no
reason to close. In Standalone the timers of the WebSocket client fire and a closing socket
closes; the monitor goes on polling and its checks are answered; polled tasks and the delays
between them end; the batch timer fires and batches are answered. QueryCache and OfflineQueue
have safety properties only. Nothing is assumed of users: pauses, cancellations and disposals may never
come, or come at any time.

## 5. Proofs

For every value of the constants allowed by the modules' assumptions:

* **QueueProofs**, about the task queue - TypeCorrect, SlotsAccountedFor (SlotsAccounted; the
  run checks ImplementsWorkPool in its place), NothingStranded, PrioritiesInherited (NoPriorityInversion), BestTaskStarts (StartsHighestPriority),
  ReloadKeepsPending (PendingSurvivesReload, for callers who wait for the restore) and
  DependenciesFirst. The invariants are built up in layers. `IInv` joins the types, the accounting
  (unique ids, disjoint pending and active ids, activeCount = Cardinality(active), the bound)
  and NoStrandedWork, which needs the bound: if every slot is free then processNext could have
  started a task. `OrderInv` adds that the pending tasks are sorted by priority and that no
  task waits for one of a lower priority: the lemmas say that the stable sort and the inheritance
  permute the pending ids, that sorting sorts, and that what is boosted is closed under
  dependencies. `StoredInv` adds that storage holds what is pending. `PromisedInv` adds that what
  counts as completed has resolved, if ids are not reused. QueueIsWorkPool, the refinement of
  WorkPool, rests on IInv and on `PromisesOpen`: the promise of what is pending or runs is not
  settled. What processNext() does is a step of `Start` from wherever it is called
  (ProcessNextIsStart).
* **QueueProofs**, about the offline queue - OfflineQueueIsTaskQueue: its steps are steps of the
  task queue, so that everything above holds of it (OfflineQueueIsWorkPool, for one); QueuedRequestsProgress (QueuedProgresses, for
  a queue that starts by itself, which is the default the client leaves alone) and
  RequestsSentOnce (SentAtMostOnce). `QueuedInv` relates promises, tasks and calls: a pending
  promise belongs to a task that is queued or busy, a deduplication key is the id of the one task
  that repeats its requests, and tasks that wait for one another do not wait in a circle
  (`NoCircle`), without which a full queue could be busy with itself. `SentInv` adds that a
  request not yet sent has one source: the application, or one task among those pending,
  stored, being restored or at the rate limiter.
* **CircuitBreakerProofs** - TypeCorrect, NoTransitionMissed, OpenHolds. The invariant ties the
  deadline to the history: while OPEN without a late success, what is left of the timeout and
  what has passed since opening add up to it.
* **RateLimiterProofs** - TypeCorrect, CallsStayChained (PendingCallsChained, which no run checks:
  it is the safety side of CallsResolve), RateHolds, EachCallPaysInOrder. The first two hold
  whatever disturbs the limiter: `ChainedInv` says that the chains together hold exactly the
  pending calls, each of them in one place, and that only the head of a chain sleeps. The other
  two are about an undisturbed limiter; their invariant, `Core`, says that a sleeper's timer
  cannot fire before its token is there, that there is one chain, the order of the calls, and that
  grants in an open window plus the tokens now available are covered by capacity and refill.
* **RequestLifecycleProofs** - TypeCorrect, NothingLeaks (ResourcesReleased), OneRequestPerKey
  (SingleFlight), all without further premises. The last goes through the invariant that,
  as long as nothing was dropped, a live request with a key is the one recorded in the map
  (`FlightRecorded`), aborted or not. RequestsShareFlights, the refinement of OneFlightPerKey, has a
  step per action: with ResourcesReleased the map refers to requests in the air or stillborn, and
  `FollowsSomebody` says that whoever joined has somebody to follow.
* **AuthInterceptorProofs** - TypeCorrect, NobodyForgotten, NeverResentWithOldToken (the header
  of a request that is not being sent is older than the token it will fetch), and
  ReentrantRefreshBlocks: in no execution does a refresh through the client come to its end.
* **HTTPTransportProofs** - TypeCorrect, Interruptible, CancelStops, and ImplementsTransport:
  the initial state maps to the initial state of Transport and every step to a step or a
  stutter. AttemptsInterruptible is not inductive: that an abort reaches the attempt under way
  needs `Linked`, that an attempt with a signal that is still being waited for has its own
  listener there. That invariant is also what makes "never fulfils" true. `LastAttempt` carries
  the reason of an abort over the sleep to the one attempt that follows.

* **QueryCacheProofs** - TypeCorrect, ObserversInformed, NeverOlder. `Queries` relates query
  objects and observers: a query in the map has a live observer, one object belongs to one key,
  and whoever was not cut off is in the object the map holds; a new object is found because
  there is one more id than observers. `Answers` and `Deduplicated` say why responses keep
  their order: without overlap a key has one request at a time, and with deduplication the map
  refers to every request until dispose().
* **StandaloneProofs**, about the composition - PartsRunAlone: a behaviour of Standalone is a
  behaviour of each part, so that what follows, proved of a part by itself, holds of what
  the run checks (PartsStaySafe, and StreamsAreLinks for the refinement).
* **StandaloneProofs**, about the streams - TypeCorrect, NeverStranded,
  WebSocketImplementsReconnecting, StreamsAreLinks (StreamsImplementReconnecting). Of either
  client, the types and NotStranded together are inductive. The WebSocket client's refinement
  needs no invariant: the guards of connect() and handleReconnect() are enough for each step to be
  a step of Reconnecting or a stutter. That of the SSE client needs `StreamInv`, that a client
  that was closed has no EventSource left.
* **StandaloneProofs**, about the other parts, each with an inductive invariant of its own.
  BatchesHoldItems: the queue is shorter than a batch and a timeout that is set has a timer, so
  that flush() empties the queue into one batch; the items of the queue and of the batches under
  way are distinct, and are those whose promise is pending (ItemsHeld, which no run checks: it
  is the safety side of BatchedItemsSettle). FlightsAreShared: what is registered under a key is
  a live flight for that key, a live flight that is not registered was forgotten, and whoever
  joined has the key the cache of bodies says, which is the fallback for those bodies only that
  cannot be serialized; with the same invariant, CallersShareFlights is the refinement of
  OneFlightPerKey, which no cfg lists of this part. LeastRecentlyUsedFirst: the keys in the Map
  are distinct, in the order of `older`, and at most MaxEntries unless the empty key was spared.
  The scan of an invalidation is a loop, whose invariant would need induction over its rounds:
  the keys scanned so far are at the end of the Map, in their order, those still to come before
  them in theirs. The lemmas take the least round at which it fails instead (LeastNumber, from
  WellFoundedInduction), and show that it does not. PagesStayContiguous: unless a fetch outlived
  a reset(), there is at most one fetch in each direction, for the page just beyond that end,
  and its flag is set. UploadsAreStored: the chunks sent so far are the stored ones, those under
  way, those that were overtaken and, until the loop hears of it, the one that decides the race;
  once a chunk has left, fewer than options.parallel are under way, so that with chunks sent one
  by one none is there to be overtaken. LastCallsRun: of debounce(), there is one timer, for the
  last call; of throttle(), the timer that is set is for the last call and due when the gate
  opens, or the last call ran in its place. RequestsKeepHeaders and RequestsKeepTraces: the
  headers a client refers to are still those it was built with, the caller's options still hold
  the caller's headers but for the version, no object in the heap has a trace in it, and every
  request of the history carries what its client was built with. DoublesAnswerOnce: handlers
  have distinct ids and a one-time handler that answered is gone; the records are distinct
  requests that were tagged and answered, among them all of the recording that goes on.

Attempts at these proofs corrected the models three times. StartsHighestPriority did not allow for a
task that an add() boosts and starts in the same step (which takes three priorities and four ids
to see). And a request of OfflineQueue whose page is left before it is answered was indistinguishable
from one still under way: it is now "lost". And a chain that reset() had cut loose stayed in
RateLimiter, empty, after its last call was served: it is now dropped with that call.

Only model-checked: liveness (RunnableEventuallyStarts, CircuitRecovers, CallsResolve,
RequestsSettle, CallsSettle, SilenceNoticed, MonitorConverges, PollingEnds,
BatchedItemsSettle), since TLAPS does not handle fairness or ENABLED here; and the pure functions, which are recursive and compared with their
reference definitions by TLC alone.

What the theorems assume is stated with the constants: KeysAssumption and the like only say that
sentinels are not members of the sets they complete and that bounds are numbers;
StandaloneAssumption also that options.parallel, the size of batches and of the memory cache (0
stands for the default) and the interval of throttle() are positive.

## 6. Not modelled

Left out of every module: wording, log output, escaping, events no part of the library listens
to, and numbers that are only reported. In particular:

* Task queue: floating-point time, the 24-hour expiry saveQueue writes and never reads, the async
  iterator; drain()'s promise, since 'queue:drain' is emitted by processNext only.
* HTTP client: progress callbacks, the typed shorthands, the settings of the builder that are
  single assignments.
* Query cache: an observer that throws, which would keep the rest from being notified.
* Rate limiter: rounding of binary fractions. Between chains that reset() cut apart no order is
  assumed.
* Authentication: a token that is taken away again (a logout); there may be none at first.
* Two pages that share one storage (offline queue), two uploads at once on one uploader.
* throttle({trailing: false}), delay(); the singleton accessors of the monitor; networkError() and
  timeout() of the mock adapter, which are handlers that reject; the generation of fixtures.
* Connection pool: it creates one agent per protocol and hands it to fetch; what an agent does
  with its sockets is outside the repository. First requests that overlap create an agent
  each, and destroy() closes the last one only. GraphQL beyond the decision on persisted queries
  builds a body and delegates. SHA-256 itself, and the high bits of simpleHash(), on which the low ones do not depend. `pipeline.ts`
  composes functions, `types/` declares.

The components' notes in PROJECT.json name what each one leaves out.
