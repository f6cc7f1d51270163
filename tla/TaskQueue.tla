------------------------------ MODULE TaskQueue ------------------------------
(***************************************************************************)
(* The priority task queue of src/utils/queue.ts.  JavaScript runs every   *)
(* method to completion, so one method call is one action; a task occupies *)
(* the queue across three of them: processNext starts it, its function     *)
(* settles (Settle) and, in a later microtask, the finally block of        *)
(* processNext retires it and looks for more work (Finish).                *)
(***************************************************************************)
EXTENDS Integers, FiniteSets, SequencesExt

CONSTANTS
  Ids,              \* task ids callers use
  Priorities,       \* priorities callers pass (a finite set of numbers)
  Concurrency,      \* options.concurrency
  AutoStart,        \* options.autoStart
  Reuse,            \* whether callers add an id again once it has been used
  AllowRestart,     \* whether the page may be reloaded
  WaitForLoad       \* whether callers wait for loadQueue before adding

ASSUME ConcurrencyAssumption == Concurrency \in Nat \ {0}
ASSUME PrioritiesAssumption == Priorities \subseteq Int
ASSUME FlagsAssumption ==
  {AutoStart, Reuse, AllowRestart, WaitForLoad} \subseteq BOOLEAN

VARIABLES
  queue,         \* this.queue, the pending tasks in array order
  active,        \* this.activeTaskIds
  activeCount,   \* this.activeCount
  settled,       \* active tasks whose function has settled, finally block pending
  completed,     \* this.completedTasks
  paused,        \* this.isPaused
  drainWaiting,  \* a promise returned by drain() is unresolved
  promise,       \* what became of the promise add() returned for each id
  stored,        \* the metadata under storageKey in the storage adapter
  loaded,        \* the setTimeout(loadQueue, 0) of the constructor has fired
  owed,          \* history: ids pending at a reload and not handed back yet
  late           \* history: ids added after a pending task that depends on them

schedVars == <<queue, active, activeCount, settled, completed, paused>>
clientVars == <<drainWaiting, promise>>
historyVars == <<owed, late>>
vars == <<schedVars, clientVars, stored, loaded, historyVars>>

Task == [id : Ids, priority : Priorities, dependencies : SUBSET Ids]
PendingIds(q) == {q[i].id : i \in DOMAIN q}
Queued(id) == id \in PendingIds(queue)

TypeOK ==
  /\ queue \in Seq(Task)
  /\ active \in SUBSET Ids
  /\ activeCount \in Nat
  /\ settled \in SUBSET active
  /\ completed \in SUBSET Ids
  /\ paused \in BOOLEAN
  /\ drainWaiting \in BOOLEAN
  /\ promise \in [Ids -> {"none", "pending", "resolved", "rejected", "abandoned"}]
  /\ stored \in Seq(Task)
  /\ loaded \in BOOLEAN
  /\ owed \in SUBSET Ids
  /\ late \in SUBSET Ids

\* A new TaskQueue over empty storage; with syncWithNetwork it may start offline.
Init ==
  /\ queue = <<>> /\ active = {} /\ activeCount = 0 /\ settled = {}
  /\ completed = {} /\ paused \in BOOLEAN
  /\ drainWaiting = FALSE /\ promise = [id \in Ids |-> "none"]
  /\ stored = <<>> /\ loaded = FALSE /\ owed = {} /\ late = {}

-----------------------------------------------------------------------------
\* All dependencies of a queued task are in completedTasks.
Runnable(task, comp) == task.dependencies \subseteq comp

\* Mutant of Boosted: inheritance stops at the direct dependencies.
BoostedDirectly(q, task) ==
  {i \in DOMAIN q : q[i].id \in task.dependencies /\ q[i].priority < task.priority}

\* Queue positions applyPriorityInheritance reaches from task: its dependencies
\* and theirs, through queued tasks of lower priority only.
Boosted(q, task) ==
  LET low == {i \in DOMAIN q : q[i].priority < task.priority}
      Closed(S) == \A i \in low :
         (\/ q[i].id \in task.dependencies
          \/ \E k \in S : q[i].id \in q[k].dependencies) => i \in S
  IN {i \in low : \A S \in SUBSET low : Closed(S) => i \in S}

\* The queue after applyPriorityInheritance(task).
Inherit(q, task) ==
  [i \in DOMAIN q |-> IF i \in Boosted(q, task)
                      THEN [q[i] EXCEPT !.priority = task.priority] ELSE q[i]]

\* Mutant of Sorted: the queue is left in the order of arrival.
SortedByArrival(q) == {q}

\* sortQueue: Array.prototype.sort is stable, higher priority first.
Sorted(q) ==
  {[i \in DOMAIN q |-> q[f[i]]] : f \in
     {f \in Bijection(DOMAIN q, DOMAIN q) : \A i, j \in DOMAIN q : i < j =>
        \/ q[f[i]].priority > q[f[j]].priority
        \/ q[f[i]].priority = q[f[j]].priority /\ f[i] < f[j]}}

\* Mutant of SaveQueue: storage is written before the queue changes.
SaveQueueFirst == stored' = queue

\* saveQueue writes the metadata of the pending tasks, running ones excluded.
SaveQueue == stored' = queue'

-----------------------------------------------------------------------------
(***************************************************************************)
(* processNext() over the state its caller leaves: the pending tasks q,    *)
(* running ids act (count of them cnt), the pause flag and drain promise.  *)
(***************************************************************************)
\* Mutant of CannotStart: one task too many.
CannotStartLate(q, cnt, psd) == psd \/ cnt > Concurrency \/ q = <<>>

CannotStart(q, cnt, psd) == psd \/ cnt >= Concurrency \/ q = <<>>

ProcessNextIdle(q, act, cnt, psd, drn) ==
  /\ \/ CannotStart(q, cnt, psd)
     \/ \A i \in DOMAIN q : ~Runnable(q[i], completed)
  /\ queue' = q /\ active' = act /\ activeCount' = cnt
  /\ drainWaiting' = (drn /\ ~(q = <<>> /\ cnt = 0))

ProcessNextStart(q, act, cnt, psd, drn) ==
  /\ ~CannotStart(q, cnt, psd)
  /\ \E i \in DOMAIN q :
       /\ Runnable(q[i], completed)
       /\ \A j \in DOMAIN q : j < i => ~Runnable(q[j], completed)
       /\ queue' = RemoveAt(q, i)
       /\ active' = act \cup {q[i].id}
  /\ activeCount' = cnt + 1
  /\ drainWaiting' = drn

\* saved: the caller has already written q to storage.
ProcessNext(q, act, cnt, psd, drn, saved) ==
  \/ /\ ProcessNextIdle(q, act, cnt, psd, drn)
     /\ IF saved THEN SaveQueue ELSE UNCHANGED stored
  \/ /\ ProcessNextStart(q, act, cnt, psd, drn)
     /\ SaveQueue

-----------------------------------------------------------------------------
\* add(fn, {id, priority, dependencies}) of an id neither pending nor running.
Add(id, p, deps) ==
  /\ WaitForLoad => loaded
  /\ Reuse \/ promise[id] = "none"
  /\ ~Queued(id) /\ id \notin active
  /\ promise' = [promise EXCEPT ![id] = "pending"]
  /\ LET task == [id |-> id, priority |-> p, dependencies |-> deps]
     IN \E q \in Sorted(Inherit(Append(queue, task), task)) :
          IF AutoStart /\ ~paused
          THEN ProcessNext(q, active, activeCount, paused, drainWaiting, TRUE)
          ELSE /\ queue' = q /\ SaveQueue
               /\ UNCHANGED <<active, activeCount, drainWaiting>>
  /\ late' = IF \E i \in DOMAIN queue : id \in queue[i].dependencies
             THEN late \cup {id} ELSE late \ {id}
  /\ UNCHANGED <<settled, completed, paused, loaded, owed>>

\* cancel(taskId) of a pending task; its promise is left unsettled.
Cancel(id) ==
  /\ \E i \in DOMAIN queue : queue[i].id = id /\ queue' = RemoveAt(queue, i)
  /\ SaveQueue
  /\ promise' = [promise EXCEPT ![id] = "abandoned"]
  /\ UNCHANGED <<active, activeCount, settled, completed, paused, drainWaiting, loaded,
                 historyVars>>

\* pause(), also called when the network monitor reports 'offline'.
Pause ==
  /\ paused' = TRUE
  /\ UNCHANGED <<queue, active, activeCount, settled, completed, clientVars, stored, loaded,
                 historyVars>>

\* resume(), also called on 'online'.
Resume ==
  /\ paused' = FALSE
  /\ ProcessNext(queue, active, activeCount, FALSE, drainWaiting, FALSE)
  /\ UNCHANGED <<settled, completed, promise, loaded, historyVars>>

\* clear(): drops the pending tasks, unsettled, and forgets what has completed.
\* It overwrites storage, so metadata not loaded yet is discarded on purpose.
Clear ==
  /\ queue' = <<>> /\ SaveQueue
  /\ completed' = {}
  /\ promise' = [id \in Ids |-> IF Queued(id) THEN "abandoned" ELSE promise[id]]
  /\ owed' = {}
  /\ UNCHANGED <<active, activeCount, settled, paused, drainWaiting, loaded, late>>

\* drain() when there is work; with none it resolves at once.
Drain ==
  /\ ~(queue = <<>> /\ activeCount = 0)
  /\ drainWaiting' = TRUE
  /\ UNCHANGED <<schedVars, promise, stored, loaded, historyVars>>

\* Mutant of Settle: a failed task counts as completed.
SettleAlwaysCompletes(id, ok) ==
  /\ id \in active \ settled
  /\ settled' = settled \cup {id}
  /\ completed' = completed \cup {id}
  /\ promise' = [promise EXCEPT ![id] = IF ok THEN "resolved" ELSE "rejected"]
  /\ UNCHANGED <<queue, active, activeCount, paused, drainWaiting, stored, loaded, historyVars>>

\* The task's function resolves or rejects: the body of the wrapper add() built.
Settle(id, ok) ==
  /\ id \in active \ settled
  /\ settled' = settled \cup {id}
  /\ completed' = IF ok THEN completed \cup {id} ELSE completed
  /\ promise' = [promise EXCEPT ![id] = IF ok THEN "resolved" ELSE "rejected"]
  /\ UNCHANGED <<queue, active, activeCount, paused, drainWaiting, stored, loaded, historyVars>>

\* Mutant of Finish: the slot is freed but nobody looks for more work.
FinishOnly(id) ==
  /\ id \in settled
  /\ settled' = settled \ {id}
  /\ active' = active \ {id} /\ activeCount' = activeCount - 1
  /\ UNCHANGED <<queue, stored, drainWaiting, completed, paused, promise, loaded, historyVars>>

\* Mutant of Finish: the retired task is not forgotten.
FinishKeepsSettled(id) ==
  /\ id \in settled
  /\ ProcessNext(queue, active \ {id}, activeCount - 1, paused, drainWaiting, FALSE)
  /\ UNCHANGED <<settled, completed, paused, promise, loaded, historyVars>>

\* The finally block of processNext.
Finish(id) ==
  /\ id \in settled
  /\ settled' = settled \ {id}
  /\ ProcessNext(queue, active \ {id}, activeCount - 1, paused, drainWaiting, FALSE)
  /\ UNCHANGED <<completed, paused, promise, loaded, historyVars>>

\* The constructor's timer: hands the stored metadata to the listeners.
LoadQueue ==
  /\ ~loaded
  /\ loaded' = TRUE
  /\ owed' = {}
  /\ UNCHANGED <<schedVars, clientVars, stored, late>>

\* The page goes away and a new TaskQueue is constructed over the same storage.
Restart ==
  /\ AllowRestart
  /\ queue' = <<>> /\ active' = {} /\ activeCount' = 0 /\ settled' = {}
  /\ completed' = {} /\ paused' \in BOOLEAN
  /\ drainWaiting' = FALSE /\ promise' = [id \in Ids |-> "none"]
  /\ loaded' = FALSE /\ owed' = PendingIds(queue) \cup owed /\ late' = {}
  /\ UNCHANGED stored

Next ==
  \/ \E id \in Ids, p \in Priorities, deps \in SUBSET Ids : Add(id, p, deps)
  \/ \E id \in Ids : Cancel(id) \/ Finish(id)
  \/ \E id \in Ids, ok \in BOOLEAN : Settle(id, ok)
  \/ Pause \/ Resume \/ Clear \/ Drain \/ LoadQueue \/ Restart

Spec == Init /\ [][Next]_vars

\* Task functions terminate, and the event loop runs every continuation.
Fairness == \A id \in Ids : WF_vars(\E ok \in BOOLEAN : Settle(id, ok)) /\ WF_vars(Finish(id))
FairSpec == Spec /\ Fairness

-----------------------------------------------------------------------------
(***************************************************************************)
(* Properties.                                                             *)
(***************************************************************************)
\* A wake-up is never lost: as long as add() starts tasks, an unpaused queue
\* with nothing running holds no task whose dependencies are complete, since
\* no call is left that would ever start it (every path into processNext).
NoStrandedWork ==
  AutoStart /\ ~paused /\ activeCount = 0 =>
    \A i \in DOMAIN queue : ~Runnable(queue[i], completed)

\* An id is pending at most once and never both pending and running, and the
\* counter processNext compares with concurrency is the number of running
\* tasks, which stays within it.
SlotsAccounted ==
  /\ \A i, j \in DOMAIN queue : queue[i].id = queue[j].id => i = j
  /\ PendingIds(queue) \cap active = {}
  /\ activeCount = Cardinality(active)
  /\ activeCount <= Concurrency

\* The pool that the queue implements: a task whose function has settled holds its slot
\* until the finally block gives it back.
Pool == INSTANCE WorkPool WITH
  Items <- Ids, Size <- Concurrency,
  waiting <- PendingIds(queue), running <- active \ settled, ending <- settled,
  free <- Concurrency - activeCount, answer <- promise

\* The queue is a pool of slots: whatever order calls, settlements and finally blocks
\* come in, no task starts without a slot, holds two or gives one back twice; none is
\* pending twice or restarted; and its promise settles once, while it runs, unless it is
\* cancelled while it is pending.
ImplementsWorkPool == Pool!Spec

\* The task processNext starts has the highest priority among those it could
\* have started: whatever the order of additions, boosts and removals, no runnable
\* task left behind outranks it, by the priority it waited with or by the one it
\* inherits from a task that is being added.
StartsHighestPriority ==
  [][\A i \in DOMAIN queue : queue[i].id \in active' \ active =>
       \A j \in DOMAIN queue' : Runnable(queue'[j], completed') =>
         \/ queue'[j].priority <= queue[i].priority
         \/ \E k \in DOMAIN queue' : /\ queue'[k].id \notin PendingIds(queue)
                                     /\ i \in Boosted(queue, queue'[k])
                                     /\ queue'[j].priority <= queue'[k].priority]_vars

\* A pending task starts only after the promise of each of its dependencies
\* has resolved (ids used once): failures and cancellations do not count.
StartsAfterDependencies ==
  [][\A i \in DOMAIN queue : queue[i].id \in active' \ active =>
       \A d \in queue[i].dependencies : promise[d] = "resolved"]_vars

\* Priority inheritance is transitive: no pending task waits, directly or
\* through others, for one of lower priority, unless that one was added when a
\* task that depends on it was already pending (add looks downwards only).
NoPriorityInversion ==
  \A i, j \in DOMAIN queue :
    queue[j].id \in queue[i].dependencies \ late =>
      queue[j].priority >= queue[i].priority

\* What was pending when the page went away is in what loadQueue hands to the
\* 'queue:restored' listeners, however many reloads came before it ran.
PendingSurvivesReload ==
  [][~loaded /\ loaded' => owed \subseteq PendingIds(stored)]_vars

\* A pending task whose dependencies are complete is eventually started or
\* removed, unless the queue is paused.
RunnableEventuallyStarts ==
  \A id \in Ids :
    (\E i \in DOMAIN queue : queue[i].id = id /\ Runnable(queue[i], completed))
      ~> (paused \/ ~Queued(id))
=============================================================================
