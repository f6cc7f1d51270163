------------------------------- MODULE Polling -------------------------------
(***************************************************************************)
(* The polling controller of src/utils/polling.ts.  start() may be called  *)
(* while an earlier run of its loop still is in a task or a delay, even    *)
(* after stop(): the runs share isRunning and attempts, and the later      *)
(* start() revives the earlier run.  Intervals are not modelled.           *)
(***************************************************************************)
EXTENDS Integers

CONSTANTS
  MaxAttempts,   \* options.maxAttempts
  MaxStarts      \* bound on the calls of start()

VARIABLES
  isRunning, attempts,
  runs           \* what the loop of each start() is doing

vars == <<isRunning, attempts, runs>>

TypeOK ==
  /\ isRunning \in BOOLEAN /\ attempts \in Nat
  /\ runs \in [1 .. MaxStarts -> {"new", "task", "delay", "error delay", "ended"}]

Init == isRunning = FALSE /\ attempts = 0 /\ runs = [n \in 1 .. MaxStarts |-> "new"]

-----------------------------------------------------------------------------
Become(n, state) == runs' = [runs EXCEPT ![n] = state]

Start(n) ==
  /\ runs[n] = "new" /\ \A m \in 1 .. n - 1 : runs[m] # "new"
  /\ isRunning' = TRUE /\ attempts' = 0 /\ Become(n, "task")

Stop == isRunning' = FALSE /\ UNCHANGED <<attempts, runs>>

\* Bound on the attempts, out of reach unless the limit is missed.
AttemptBound == MaxAttempts + 2 * MaxStarts

\* The task succeeds: stop with its result, return if stopped meanwhile, or wait.
Succeed(n) ==
  /\ runs[n] = "task" /\ attempts < AttemptBound /\ attempts' = attempts + 1
  /\ \/ isRunning' = FALSE /\ Become(n, "ended")
     \/ UNCHANGED isRunning /\ Become(n, IF isRunning THEN "delay" ELSE "ended")

\* The catch block, at the given number of attempts: onError() ends the run, or it
\* returns if stopped, or waits, or onError() throws and leaves isRunning as it is.
Catch(n, count) ==
  /\ attempts' = count
  /\ \/ isRunning' = FALSE /\ Become(n, "ended")
     \/ UNCHANGED isRunning /\ Become(n, IF isRunning THEN "error delay" ELSE "ended")
     \/ UNCHANGED isRunning /\ Become(n, "ended")

\* The task fails, or succeeds and until() throws: then the attempt counts twice.
Fail(n) == runs[n] = "task" /\ attempts < AttemptBound /\ \E k \in 1 .. 2 : Catch(n, attempts + k)

\* adaptiveInterval() throws after the delay.
IntervalThrows(n) == runs[n] = "delay" /\ Catch(n, attempts + 1)

\* Mutant of Exhausted: the attempts are expected to meet the limit exactly.
ExhaustedExactly == attempts = MaxAttempts

Exhausted == attempts >= MaxAttempts

\* The delay is over, and the loop begins anew; it ends by the limits, leaving isRunning.
Wake(n) ==
  /\ runs[n] \in {"delay", "error delay"}
  /\ \/ Become(n, IF isRunning /\ ~Exhausted THEN "task" ELSE "ended")
     \/ isRunning /\ Become(n, "ended")   \* options.timeout is over
  /\ UNCHANGED <<isRunning, attempts>>

Next ==
  \/ Stop
  \/ \E n \in 1 .. MaxStarts :
       Start(n) \/ Succeed(n) \/ Fail(n) \/ IntervalThrows(n) \/ Wake(n)

Spec == Init /\ [][Next]_vars

\* Tasks settle and delays end.
Fairness == \A n \in 1 .. MaxStarts : WF_vars(Succeed(n) \/ Fail(n)) /\ WF_vars(Wake(n))

-----------------------------------------------------------------------------
\* With a limit on the attempts every start() returns in the end, however stop(), later
\* starts and throwing callbacks interleave with its loop.
RunsEnd == \A n \in 1 .. MaxStarts : (runs[n] # "new") ~> (runs[n] = "ended")
=============================================================================
