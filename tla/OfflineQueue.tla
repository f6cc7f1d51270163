----------------------------- MODULE OfflineQueue -----------------------------
(***************************************************************************)
(* The offline queue of HTTPClient (src/core/http-client.ts): requests     *)
(* made while the network monitor reports 'offline' wait as tasks of a     *)
(* TaskQueue, whose actions are those of TaskQueue.tla with one priority   *)
(* and no dependencies, and call request() again when they start.  The     *)
(* monitor may report 'online' and 'offline' at any time, as often as it   *)
(* likes; NetworkMonitor.tla models when it does.                          *)
(*                                                                         *)
(* A call is request() as the application or a task runs it: it may wait   *)
(* for the rate limiter, then it joins a request for its key that is under *)
(* way, is sent, or is queued.  Microtasks run before the next event.      *)
(***************************************************************************)
EXTENDS TaskQueue

CONSTANTS
  Requests,     \* the application's requests
  KeyOf,        \* request -> its deduplication key, an id, or NoKey
  NoKey

\* What a call may be doing besides waiting for a task, which is being its id.
Statuses == {"none", "limited", "sent", "done", "gone", "lost"}

ASSUME KeyAssumption ==
  /\ Requests # {} /\ KeyOf \in [Requests -> Ids \cup {NoKey}] /\ NoKey \notin Ids
  /\ Requests \cap Ids = {} /\ Statuses \cap Ids = {}
ASSUME PriorityAssumption == 0 \in Priorities

VARIABLES
  limiter,      \* the client has a rate limiter
  call,         \* what each call is doing: those of the application, and of running tasks
  data,         \* the request each task repeats, also in storage
  made,         \* ids generated from _reqSeq by this page
  restoring,    \* stored tasks the 'queue:restored' listener has yet to add
  page,         \* whether dispose() has run the cleanup callbacks, and if on unload
  sent          \* history: requests without a key that were sent

clientOnly == <<limiter, data, made, restoring, page>>
queueVars == <<schedVars, clientVars, stored, loaded, historyVars>>
offlineVars == <<queueVars, limiter, call, data, made, restoring, page, sent>>

Callers == Requests \cup Ids
Keys == {KeyOf[r] : r \in Requests} \ {NoKey}

OfflineTypeOK ==
  /\ TypeOK
  /\ limiter \in BOOLEAN /\ page \in {"live", "disposed", "unloaded"}
  /\ call \in [Callers -> Statuses \cup Ids]
  /\ data \in [Ids -> Requests] /\ made \in SUBSET (Ids \ Keys)
  /\ restoring \in Seq(Task) /\ sent \in SUBSET Requests

OfflineInit ==
  /\ Init
  /\ limiter \in BOOLEAN /\ call = [c \in Callers |-> "none"]
  /\ data \in [Ids -> {CHOOSE r \in Requests : TRUE}] /\ made = {} /\ restoring = <<>>
  /\ page = "live" /\ sent = {}

-----------------------------------------------------------------------------
RequestOf(c) == IF c \in Requests THEN c ELSE data[c]
Key(c) == KeyOf[RequestOf(c)]

\* The promise a queued call awaits has settled.
Answered(c) == call[c] \in Ids /\ promise[call[c]] \in {"resolved", "rejected"}

\* No microtask is left, so the next event may come.
Quiet == restoring = <<>> /\ settled = {} /\ \A c \in Callers : ~Answered(c)

\* The calls that wait for a request with key k.
SentFor(k) == {c \in Callers : call[c] = "sent" /\ Key(c) = k}

\* A task that starts calls request(), which nothing but the limiter delays: the
\* queue is not paused.
WithStarted(f) ==
  [c \in Callers |-> IF c \in active' \ active THEN (IF limiter THEN "limited" ELSE "sent") ELSE f[c]]

RecordSent ==
  sent' = sent \cup {IF c \in Requests THEN c ELSE data'[c] :
                       c \in {x \in Callers : call'[x] = "sent" /\ call[x] # "sent"}}

\* The promises of the calls of C settle; at most one of them is a task's.
Complete(C, ok) ==
  /\ call' = [c \in Callers |-> IF c \notin C THEN call[c] ELSE IF c \in Ids THEN "none" ELSE "done"]
  /\ IF C \cap Ids = {} THEN UNCHANGED queueVars ELSE \E id \in C \cap Ids : Settle(id, ok)
  /\ UNCHANGED <<limiter, data, restoring, page, sent>>

\* queueOfflineRequest(): add() refuses an id that is pending or running.
QueueOffline(c, id) ==
  IF Queued(id) \/ id \in active THEN Complete({c}, FALSE)
  ELSE /\ Add(id, 0, {}) /\ data' = [data EXCEPT ![id] = RequestOf(c)]
       /\ call' = [call EXCEPT ![c] = id]
       /\ UNCHANGED <<limiter, restoring, page, sent>>

\* _executeRequest() past the rate limiter.
Execute(c) ==
  LET joins == Key(c) # NoKey /\ SentFor(Key(c)) # {}
  IN  IF joins \/ ~paused
      THEN /\ call' = [call EXCEPT ![c] = "sent"]
           /\ UNCHANGED <<queueVars, clientOnly>> /\ RecordSent
      ELSE \/ Key(c) # NoKey /\ QueueOffline(c, Key(c)) /\ UNCHANGED made
           \/ /\ Key(c) = NoKey
              /\ \E id \in Ids \ (made \cup Keys) : QueueOffline(c, id) /\ made' = made \cup {id}

\* The application calls request().
Request(r) ==
  /\ Quiet /\ call[r] = "none"
  /\ IF limiter
     THEN call' = [call EXCEPT ![r] = "limited"] /\ UNCHANGED <<queueVars, clientOnly, sent>>
     ELSE Execute(r)

\* The rate limiter lets a call pass.
Token(c) == Quiet /\ call[c] = "limited" /\ Execute(c)

\* A request that was sent is answered, or fails.
Answer(c, ok) ==
  /\ Quiet /\ call[c] = "sent"
  /\ Complete(IF Key(c) = NoKey THEN {c} ELSE SentFor(Key(c)), ok) /\ UNCHANGED made

\* The promise of a queued task settles the call that queued it.
Propagate(c) ==
  /\ restoring = <<>> /\ Answered(c)
  /\ Complete({c}, promise[call[c]] = "resolved") /\ UNCHANGED made

\* processNext() after a task; it may start the next.
Retire(id) ==
  /\ restoring = <<>> /\ Finish(id)
  /\ call' = WithStarted(call) /\ UNCHANGED clientOnly /\ RecordSent

\* The monitor's events.
Online ==
  /\ Quiet /\ Resume
  /\ call' = WithStarted(call) /\ UNCHANGED clientOnly /\ RecordSent

Offline == Quiet /\ Pause /\ UNCHANGED <<clientOnly, call, sent>>

-----------------------------------------------------------------------------
\* loadQueue() hands the stored tasks to the listener, which adds them one by one,
\* online or not; those whose id is taken are refused.
Load ==
  /\ Quiet /\ LoadQueue /\ restoring' = stored
  /\ UNCHANGED <<limiter, call, data, made, page, sent>>

RestoreNext ==
  /\ restoring # <<>> /\ restoring' = Tail(restoring)
  /\ LET id == Head(restoring).id
     IN  IF Queued(id) \/ id \in active THEN UNCHANGED <<queueVars, call>>
         ELSE Add(id, 0, {}) /\ call' = WithStarted(call)
  /\ UNCHANGED <<limiter, data, made, page>>
  /\ RecordSent

\* dispose(): its cleanup callbacks, clear() of the queue among them, run once; a call
\* that waits for a task clear() drops is never answered.  What it aborts fails later.
\* It also runs on beforeunload and pagehide, of a page that may nevertheless stay.
Dispose(reason) ==
  /\ Quiet /\ page' = reason
  /\ IF page = "live"
     THEN Clear /\ call' = [c \in Callers |-> IF call[c] \in PendingIds(queue) THEN "lost" ELSE call[c]]
     ELSE UNCHANGED <<queueVars, call>>
  /\ UNCHANGED <<limiter, data, made, restoring, sent>>

\* The page is gone, or has crashed; the next one has its own client and ids.
NewPage ==
  /\ Quiet /\ Restart
  /\ call' = [c \in Callers |-> IF c \in Ids \/ call[c] = "none" THEN "none" ELSE "gone"]
  /\ made' = {} /\ page' = "live"
  /\ UNCHANGED <<limiter, data, restoring, sent>>

Microtask == RestoreNext \/ (\E c \in Callers : Propagate(c)) \/ \E id \in Ids : Retire(id)

Proceeds(c) == Token(c) \/ \E ok \in BOOLEAN : Answer(c, ok)

OfflineNext ==
  \/ Microtask
  \/ \E r \in Requests : Request(r)
  \/ \E c \in Callers : Proceeds(c)
  \/ Online \/ Offline \/ Load \/ NewPage
  \/ \E reason \in {"disposed", "unloaded"} : Dispose(reason)

OfflineSpec == OfflineInit /\ [][OfflineNext]_offlineVars

-----------------------------------------------------------------------------
(***************************************************************************)
(* Properties.                                                             *)
(***************************************************************************)
\* A request that is not deduplicated reaches the server at most once, however often it
\* is queued, repeated, restored by another page and queued again.
SentAtMostOnce ==
  [][\A c \in Callers : call[c] # "sent" /\ call'[c] = "sent" =>
       LET r == IF c \in Requests THEN c ELSE data'[c] IN KeyOf[r] = NoKey => r \notin sent]_offlineVars

\* Tasks that were queued again, because the rate limiter held them until the network was
\* down, hold every slot while they wait in the queue behind themselves, or wait for what
\* dispose() threw away.
Wedged ==
  /\ limiter
  /\ \/ activeCount = Concurrency /\ \A id \in active : call[id] \in Ids
     \/ \E id \in active : call[id] = "lost"

\* A request that was queued is not forgotten: with the network up, as long as the
\* application waits for one, a request is under way, at the rate limiter or answered
\* just now.  Only wedged tasks are an exception.
QueuedProgresses ==
  Quiet /\ ~paused /\ ~Wedged /\ (\A c \in Callers : call[c] \notin {"limited", "sent"}) =>
    \A r \in Requests : call[r] \notin Ids

\* README.md:517 of the persistent offline queue: "survives page reloads".
SurvivesReload ==
  [][page = "live" /\ page' = "unloaded" =>
        PendingIds(queue) \subseteq PendingIds(stored')]_offlineVars
=============================================================================
