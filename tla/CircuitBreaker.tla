---------------------------- MODULE CircuitBreaker ----------------------------
(***************************************************************************)
(* The circuit breaker of src/utils/circuit-breaker.ts, shared by calls    *)
(* that overlap: execute() runs up to its await in one step, and what      *)
(* follows the await (onSuccess, onFailure) in another, when the state may *)
(* no longer be the one the call was let through in.                       *)
(*                                                                         *)
(* Only the sign of Date.now() - nextAttempt matters to the code, so       *)
(* nextAttempt is kept as untilProbe, the ticks until Date.now() exceeds   *)
(* it; an absolute clock, and a bound on it, are not needed.               *)
(***************************************************************************)
EXTENDS Integers, FiniteSets

CONSTANTS
  Calls,             \* calls of execute() that may be under way together
  FailureThreshold, ResetTimeout, HalfOpenRetries,   \* the options
  CallbackMayThrow,  \* whether onStateChange may throw
  FailureBudget      \* how often the function or the callback may fail, or Unlimited

CONSTANT Unlimited

ASSUME OptionsAssumption ==
  /\ FailureThreshold \in Nat \ {0}
  /\ ResetTimeout \in Nat
  /\ HalfOpenRetries \in Nat \ {0}
  /\ CallbackMayThrow \in BOOLEAN
ASSUME BudgetAssumption ==
  FailureBudget = Unlimited \/ (FailureBudget \in Nat /\ Unlimited \notin Nat)

VARIABLES
  state, failures, successes,
  untilProbe,   \* ticks until Date.now() > nextAttempt
  running,      \* calls waiting for the function they wrap
  outcome,      \* how the last call of each slot ended
  failuresLeft, \* what is left of FailureBudget
  sinceOpen,    \* history: ticks since the circuit last opened, up to ResetTimeout + 1
  lateSuccess   \* history: a call succeeded since then, while the circuit was open

breakerVars == <<state, failures, successes, untilProbe>>
history == <<sinceOpen, lateSuccess>>
vars == <<breakerVars, running, outcome, failuresLeft, history>>

TypeOK ==
  /\ state \in {"CLOSED", "OPEN", "HALF_OPEN"}
  /\ failures \in 0 .. FailureThreshold
  /\ successes \in 0 .. HalfOpenRetries
  /\ untilProbe \in 0 .. ResetTimeout + 1
  /\ running \in SUBSET Calls
  /\ outcome \in [Calls -> {"none", "result", "failure", "blocked"}]
  /\ failuresLeft \in Nat \cup {Unlimited}
  /\ sinceOpen \in 0 .. ResetTimeout + 1
  /\ lateSuccess \in BOOLEAN

Init ==
  /\ state = "CLOSED" /\ failures = 0 /\ successes = 0 /\ untilProbe = 0
  /\ running = {} /\ outcome = [c \in Calls |-> "none"]
  /\ failuresLeft = FailureBudget
  /\ sinceOpen = 0 /\ lateSuccess = FALSE

-----------------------------------------------------------------------------
\* Mutant of ToOpen: re-opening keeps the old nextAttempt.
ToOpenKeepsDeadline ==
  /\ state' = "OPEN" /\ UNCHANGED untilProbe
  /\ sinceOpen' = 0 /\ lateSuccess' = FALSE

\* transitionTo(OPEN), leaving the counters as they are.
ToOpen ==
  /\ state' = "OPEN" /\ untilProbe' = ResetTimeout + 1
  /\ sinceOpen' = 0 /\ lateSuccess' = FALSE

\* Mutant of ToClosed: the failures that opened the circuit are kept.
ToClosedKeepsFailures(threw) ==
  /\ successes' = 0
  /\ state' = "CLOSED" /\ UNCHANGED <<failures, untilProbe, history>>

\* transitionTo(CLOSED), then onFailure() when onStateChange threw: the exception
\* reaches the catch block of the call that closed the circuit.
ToClosed(threw) ==
  /\ successes' = 0
  /\ failures' = IF threw THEN 1 ELSE 0
  /\ IF threw /\ 1 >= FailureThreshold
     THEN ToOpen
     ELSE state' = "CLOSED" /\ UNCHANGED <<untilProbe, history>>

\* onSuccess(); threw: onStateChange is called and throws.
OnSuccess(threw) ==
  \/ /\ state = "HALF_OPEN" /\ successes + 1 < HalfOpenRetries /\ ~threw
     /\ successes' = successes + 1
     /\ UNCHANGED <<state, failures, untilProbe, history>>
  \/ /\ state = "HALF_OPEN" /\ successes + 1 >= HalfOpenRetries
     /\ ToClosed(threw)
  \/ /\ state \in {"CLOSED", "OPEN"} /\ ~threw
     /\ failures' = 0 /\ untilProbe' = 0
     /\ lateSuccess' = (lateSuccess \/ state = "OPEN")
     /\ UNCHANGED <<state, successes, sinceOpen>>

\* Mutant of OnFailure: the threshold has to be exceeded.
OnFailureLate ==
  \/ /\ state = "CLOSED"
     /\ failures' = failures + 1 /\ UNCHANGED successes
     /\ IF failures + 1 > FailureThreshold
        THEN ToOpen ELSE UNCHANGED <<state, untilProbe, history>>
  \/ /\ state = "HALF_OPEN"
     /\ ToOpen /\ UNCHANGED <<failures, successes>>
  \/ /\ state = "OPEN"
     /\ UNCHANGED <<breakerVars, history>>

OnFailure ==
  \/ /\ state = "CLOSED"
     /\ failures' = failures + 1 /\ UNCHANGED successes
     /\ IF failures + 1 >= FailureThreshold
        THEN ToOpen ELSE UNCHANGED <<state, untilProbe, history>>
  \/ /\ state = "HALF_OPEN"
     /\ ToOpen /\ UNCHANGED <<failures, successes>>
  \/ /\ state = "OPEN"
     /\ UNCHANGED <<breakerVars, history>>

-----------------------------------------------------------------------------
\* One failure of the wrapped function or of onStateChange, out of the budget.
Spend ==
  /\ failuresLeft # 0
  /\ failuresLeft' = IF failuresLeft = Unlimited THEN Unlimited ELSE failuresLeft - 1

\* execute(fn) up to the await of fn().
Admit(c) ==
  /\ c \notin running
  /\ running' = running \cup {c} /\ outcome' = [outcome EXCEPT ![c] = "none"]
  /\ UNCHANGED <<failures, history, failuresLeft, untilProbe>>

\* Mutant of ExecuteThrough: every probe starts the count of successes again.
ExecuteThroughRecounts(c) ==
  /\ state # "OPEN"
  /\ Admit(c)
  /\ successes' = 0 /\ UNCHANGED state

\* CLOSED or HALF_OPEN: every call goes through.
ExecuteThrough(c) ==
  /\ state # "OPEN"
  /\ Admit(c)
  /\ UNCHANGED <<state, successes>>

\* OPEN and the timeout is over: the call turns the circuit HALF_OPEN and goes
\* through, unless onStateChange throws before the function is called.
ExecuteProbe(c) ==
  /\ state = "OPEN" /\ untilProbe = 0
  /\ state' = "HALF_OPEN" /\ successes' = 0
  /\ Admit(c)

ExecuteProbeThrows(c) ==
  /\ CallbackMayThrow /\ Spend
  /\ state = "OPEN" /\ untilProbe = 0 /\ c \notin running
  /\ state' = "HALF_OPEN" /\ successes' = 0
  /\ outcome' = [outcome EXCEPT ![c] = "failure"]
  /\ UNCHANGED <<failures, untilProbe, running, history>>

\* OPEN: the fallback, or CircuitOpenError.
ExecuteBlocked(c) ==
  /\ state = "OPEN" /\ untilProbe > 0 /\ c \notin running
  /\ outcome' = [outcome EXCEPT ![c] = "blocked"]
  /\ UNCHANGED <<breakerVars, running, failuresLeft, history>>

Execute(c) == ExecuteThrough(c) \/ ExecuteProbe(c) \/ ExecuteProbeThrows(c) \/ ExecuteBlocked(c)

\* fn() resolved.
Succeed(c, threw) ==
  /\ c \in running /\ running' = running \ {c}
  /\ IF threw THEN CallbackMayThrow /\ Spend ELSE UNCHANGED failuresLeft
  /\ OnSuccess(threw)
  /\ outcome' = [outcome EXCEPT ![c] = IF threw THEN "failure" ELSE "result"]

\* fn() rejected; the fallback's value and the error both count as a failure here.
Fail(c) ==
  /\ c \in running /\ running' = running \ {c}
  /\ Spend /\ OnFailure
  /\ outcome' = [outcome EXCEPT ![c] = "failure"]

Tick ==
  /\ untilProbe > 0 \/ sinceOpen <= ResetTimeout
  /\ untilProbe' = IF untilProbe > 0 THEN untilProbe - 1 ELSE 0
  /\ sinceOpen' = IF sinceOpen <= ResetTimeout THEN sinceOpen + 1 ELSE sinceOpen
  /\ UNCHANGED <<state, failures, successes, running, outcome, failuresLeft, lateSuccess>>

Next ==
  \/ \E c \in Calls : Execute(c) \/ Fail(c)
  \/ \E c \in Calls, threw \in BOOLEAN : Succeed(c, threw)
  \/ Tick

Spec == Init /\ [][Next]_vars

\* Time passes, requests settle, and the application goes on making requests.
Fairness ==
  /\ WF_vars(Tick)
  /\ \A c \in Calls : /\ WF_vars(Execute(c))
                      /\ WF_vars(Fail(c) \/ \E threw \in BOOLEAN : Succeed(c, threw))
FairSpec == Spec /\ Fairness

-----------------------------------------------------------------------------
(***************************************************************************)
(* Properties.                                                             *)
(***************************************************************************)
\* Overlapping calls never leave a counter at its limit without the transition
\* it calls for: closed means below the threshold, half-open below the number of
\* successes that close it, however stale the calls that settle.
TransitionsNotMissed ==
  /\ state = "CLOSED" => failures < FailureThreshold
  /\ state = "HALF_OPEN" => successes < HalfOpenRetries

\* The circuit leaves OPEN only towards HALF_OPEN, and, as long as no call let
\* through before it opened succeeds meanwhile, only once more than resetTimeoutMs
\* have passed since it last opened: re-opening starts the wait again.
OpenHoldsUnlessLateSuccess ==
  [][state = "OPEN" /\ state' # "OPEN" =>
       state' = "HALF_OPEN" /\ (lateSuccess \/ sinceOpen > ResetTimeout)]_vars

\* An open circuit lets no call through before the reset timeout is over.
OpenHoldsForResetTimeout ==
  [][state = "OPEN" /\ running' # running /\ ~(running' \subseteq running) =>
       sinceOpen > ResetTimeout]_vars

\* Once the service and the callback stop failing, the circuit closes for good: no mixture of
\* late answers, probes and timeouts leaves it open or half-open forever.
CircuitRecovers == <>[](state = "CLOSED")
=============================================================================
