------------------------- MODULE CircuitBreakerProofs -------------------------
(***************************************************************************)
(* Proofs that the circuit breaker misses no transition and keeps an open  *)
(* circuit open for resetTimeoutMs, for any number of overlapping calls    *)
(* and any options.                                                        *)
(***************************************************************************)
EXTENDS CircuitBreaker, TLAPS

\* While nothing has cleared nextAttempt, the wait that is left and the wait that
\* is over add up to the reset timeout: what makes OpenHolds inductive.
WaitAccounted ==
  state = "OPEN" /\ ~lateSuccess => untilProbe + sinceOpen = ResetTimeout + 1

IInv == TypeOK /\ TransitionsNotMissed /\ WaitAccounted

LEMMA InitIInv == Init => IInv
<1>. SUFFICES ASSUME Init PROVE IInv
  OBVIOUS
<1>1. failuresLeft \in Nat \cup {Unlimited} /\ lateSuccess \in BOOLEAN
  BY BudgetAssumption DEF Init
<1>2. 0 \in 0 .. FailureThreshold /\ 0 \in 0 .. HalfOpenRetries /\ 0 \in 0 .. ResetTimeout + 1
  BY OptionsAssumption
<1>3. TypeOK
  BY <1>1, <1>2 DEF Init, TypeOK
<1>4. TransitionsNotMissed /\ WaitAccounted
  BY OptionsAssumption DEF Init, TransitionsNotMissed, WaitAccounted
<1>5. QED
  BY <1>3, <1>4 DEF IInv

\* The breaker's own part of the invariant, which onSuccess and onFailure write.
BreakerTypeOK ==
  /\ state \in {"CLOSED", "OPEN", "HALF_OPEN"}
  /\ failures \in 0 .. FailureThreshold
  /\ successes \in 0 .. HalfOpenRetries
  /\ untilProbe \in 0 .. ResetTimeout + 1
  /\ sinceOpen \in 0 .. ResetTimeout + 1
  /\ lateSuccess \in BOOLEAN

BreakerInv == BreakerTypeOK /\ TransitionsNotMissed /\ WaitAccounted

LEMMA ToOpenBreaker ==
  ASSUME ToOpen, failures' \in 0 .. FailureThreshold, successes' \in 0 .. HalfOpenRetries
  PROVE  BreakerInv'
<1>1. lateSuccess' \in BOOLEAN
  BY DEF ToOpen
<1>2. BreakerTypeOK'
  BY <1>1, OptionsAssumption DEF ToOpen, BreakerTypeOK
<1>3. TransitionsNotMissed' /\ WaitAccounted'
  BY OptionsAssumption DEF ToOpen, TransitionsNotMissed, WaitAccounted
<1>4. QED
  BY <1>2, <1>3 DEF BreakerInv

LEMMA OnSuccessBreaker ==
  ASSUME BreakerInv, NEW threw \in BOOLEAN, OnSuccess(threw)
  PROVE  BreakerInv'
<1>1. CASE state = "HALF_OPEN" /\ successes + 1 < HalfOpenRetries /\ ~threw
           /\ successes' = successes + 1
           /\ UNCHANGED <<state, failures, untilProbe, history>>
  BY <1>1, OptionsAssumption
     DEF BreakerInv, BreakerTypeOK, TransitionsNotMissed, WaitAccounted, history
<1>2. CASE state = "HALF_OPEN" /\ successes + 1 >= HalfOpenRetries /\ ToClosed(threw)
  <2>1. failures' \in 0 .. FailureThreshold /\ successes' \in 0 .. HalfOpenRetries
    BY <1>2, OptionsAssumption DEF ToClosed
  <2>2. CASE threw /\ 1 >= FailureThreshold
    BY <1>2, <2>1, <2>2, ToOpenBreaker DEF ToClosed
  <2>3. CASE ~(threw /\ 1 >= FailureThreshold)
    BY <1>2, <2>1, <2>3, OptionsAssumption
       DEF ToClosed, BreakerInv, BreakerTypeOK, TransitionsNotMissed, WaitAccounted, history
  <2>4. QED
    BY <2>2, <2>3
<1>3. CASE state \in {"CLOSED", "OPEN"} /\ ~threw
           /\ failures' = 0 /\ untilProbe' = 0
           /\ lateSuccess' = (lateSuccess \/ state = "OPEN")
           /\ UNCHANGED <<state, successes, sinceOpen>>
  <2>1. lateSuccess' \in BOOLEAN
    BY <1>3 DEF BreakerInv, BreakerTypeOK
  <2>2. BreakerTypeOK'
    BY <1>3, <2>1, OptionsAssumption DEF BreakerInv, BreakerTypeOK
  <2>3. TransitionsNotMissed'
    BY <1>3, OptionsAssumption DEF TransitionsNotMissed
  <2>4. state' = "OPEN" => lateSuccess'
    BY <1>3
  <2>5. QED
    BY <2>2, <2>3, <2>4 DEF BreakerInv, WaitAccounted
<1>4. QED
  BY <1>1, <1>2, <1>3 DEF OnSuccess

LEMMA OnFailureBreaker ==
  ASSUME BreakerInv, OnFailure
  PROVE  BreakerInv'
<1>1. CASE state = "CLOSED" /\ failures' = failures + 1 /\ UNCHANGED successes
           /\ IF failures + 1 >= FailureThreshold
              THEN ToOpen ELSE UNCHANGED <<state, untilProbe, history>>
  <2>1. failures' \in 0 .. FailureThreshold /\ successes' \in 0 .. HalfOpenRetries
    BY <1>1, OptionsAssumption DEF BreakerInv, BreakerTypeOK, TransitionsNotMissed
  <2>2. CASE failures + 1 >= FailureThreshold
    BY <1>1, <2>1, <2>2, ToOpenBreaker
  <2>3. CASE ~(failures + 1 >= FailureThreshold)
    BY <1>1, <2>1, <2>3, OptionsAssumption
       DEF BreakerInv, BreakerTypeOK, TransitionsNotMissed, WaitAccounted, history
  <2>4. QED
    BY <2>2, <2>3
<1>2. CASE state = "HALF_OPEN" /\ ToOpen /\ UNCHANGED <<failures, successes>>
  BY <1>2, ToOpenBreaker DEF BreakerInv, BreakerTypeOK
<1>3. CASE state = "OPEN" /\ UNCHANGED <<breakerVars, history>>
  BY <1>3 DEF BreakerInv, BreakerTypeOK, TransitionsNotMissed, WaitAccounted,
              breakerVars, history
<1>4. QED
  BY <1>1, <1>2, <1>3 DEF OnFailure

LEMMA ExecuteBreaker ==
  ASSUME BreakerInv, NEW c \in Calls, Execute(c)
  PROVE  BreakerInv'
<1>1. /\ UNCHANGED <<failures, untilProbe, sinceOpen, lateSuccess>>
      /\ \/ UNCHANGED <<state, successes>>
         \/ state' = "HALF_OPEN" /\ successes' = 0
  BY DEF Execute, ExecuteThrough, ExecuteProbe, ExecuteProbeThrows, ExecuteBlocked, Admit,
         history, breakerVars
<1>2. QED
  BY <1>1, OptionsAssumption
     DEF BreakerInv, BreakerTypeOK, TransitionsNotMissed, WaitAccounted

LEMMA TickBreaker ==
  ASSUME BreakerInv, Tick
  PROVE  BreakerInv'
BY OptionsAssumption
   DEF Tick, BreakerInv, BreakerTypeOK, TransitionsNotMissed, WaitAccounted

\* The calls' part.
CallsTypeOK ==
  /\ running \in SUBSET Calls
  /\ outcome \in [Calls -> {"none", "result", "failure", "blocked"}]
  /\ failuresLeft \in Nat \cup {Unlimited}

LEMMA CallsType == CallsTypeOK /\ [Next]_vars => CallsTypeOK'
<1>. SUFFICES ASSUME CallsTypeOK, [Next]_vars PROVE CallsTypeOK'
  OBVIOUS
<1>1. ASSUME NEW c \in Calls, Execute(c) PROVE CallsTypeOK'
  BY <1>1 DEF Execute, ExecuteThrough, ExecuteProbe, ExecuteProbeThrows, ExecuteBlocked,
              Admit, Spend, CallsTypeOK
<1>2. ASSUME NEW c \in Calls, Fail(c) PROVE CallsTypeOK'
  BY <1>2 DEF Fail, Spend, CallsTypeOK
<1>3. ASSUME NEW c \in Calls, NEW threw \in BOOLEAN, Succeed(c, threw) PROVE CallsTypeOK'
  BY <1>3 DEF Succeed, Spend, CallsTypeOK
<1>4. CASE Tick \/ UNCHANGED vars
  BY <1>4 DEF Tick, vars, CallsTypeOK
<1>5. QED
  BY <1>1, <1>2, <1>3, <1>4 DEF Next

LEMMA IInvParts == IInv <=> BreakerInv /\ CallsTypeOK
BY DEF IInv, BreakerInv, TypeOK, BreakerTypeOK, CallsTypeOK

LEMMA NextIInv == IInv /\ [Next]_vars => IInv'
<1>. SUFFICES ASSUME IInv, [Next]_vars PROVE BreakerInv'
  BY IInvParts, CallsType DEF IInv, BreakerInv, TypeOK, BreakerTypeOK, CallsTypeOK
<1>1. BreakerInv
  BY IInvParts
<1>2. ASSUME NEW c \in Calls, Execute(c) PROVE BreakerInv'
  BY <1>1, <1>2, ExecuteBreaker
<1>3. ASSUME NEW c \in Calls, Fail(c) PROVE BreakerInv'
  BY <1>1, <1>3, OnFailureBreaker DEF Fail
<1>4. ASSUME NEW c \in Calls, NEW threw \in BOOLEAN, Succeed(c, threw) PROVE BreakerInv'
  BY <1>1, <1>4, OnSuccessBreaker DEF Succeed
<1>5. CASE Tick
  BY <1>1, <1>5, TickBreaker
<1>6. CASE UNCHANGED vars
  BY <1>1, <1>6 DEF vars, breakerVars, history, BreakerInv, BreakerTypeOK,
                    TransitionsNotMissed, WaitAccounted
<1>7. QED
  BY <1>2, <1>3, <1>4, <1>5, <1>6 DEF Next

THEOREM Invariance == Spec => []IInv
BY InitIInv, NextIInv, PTL DEF Spec

\* Every variable keeps its type; in particular no counter passes its limit,
\* although nothing bounds how many stale calls settle.
THEOREM TypeCorrect == Spec => []TypeOK
<1>1. IInv => TypeOK
  BY DEF IInv
<1>2. QED
  BY <1>1, Invariance, PTL

\* No interleaving of calls leaves a counter at its limit without the transition.
THEOREM NoTransitionMissed == Spec => []TransitionsNotMissed
<1>1. IInv => TransitionsNotMissed
  BY DEF IInv
<1>2. QED
  BY <1>1, Invariance, PTL

\* A step of the breaker that leaves OPEN is a call finding the timeout over.
LEMMA LeavingOpen ==
  ASSUME IInv, [Next]_vars, state = "OPEN", state' # "OPEN"
  PROVE  state' = "HALF_OPEN" /\ untilProbe = 0
<1>1. ASSUME NEW c \in Calls, Execute(c) PROVE state' = "HALF_OPEN" /\ untilProbe = 0
  BY <1>1 DEF Execute, ExecuteThrough, ExecuteProbe, ExecuteProbeThrows, ExecuteBlocked,
              breakerVars
<1>2. ASSUME NEW c \in Calls, Fail(c) PROVE FALSE
  BY <1>2 DEF Fail, OnFailure, ToOpen, breakerVars
<1>3. ASSUME NEW c \in Calls, NEW threw \in BOOLEAN, Succeed(c, threw) PROVE FALSE
  BY <1>3 DEF Succeed, OnSuccess
<1>4. CASE Tick \/ UNCHANGED vars
  BY <1>4 DEF Tick, vars, breakerVars
<1>5. QED
  BY <1>1, <1>2, <1>3, <1>4 DEF Next

\* An open circuit stays open for resetTimeoutMs after it last opened, unless a
\* call let through before that succeeds meanwhile.
THEOREM OpenHolds == Spec => OpenHoldsUnlessLateSuccess
<1>1. IInv /\ [Next]_vars =>
        [state = "OPEN" /\ state' # "OPEN" =>
           state' = "HALF_OPEN" /\ (lateSuccess \/ sinceOpen > ResetTimeout)]_vars
  <2>. SUFFICES ASSUME IInv, [Next]_vars, state = "OPEN", state' # "OPEN", ~lateSuccess
                PROVE  state' = "HALF_OPEN" /\ sinceOpen > ResetTimeout
    BY LeavingOpen
  <2>1. state' = "HALF_OPEN" /\ untilProbe = 0
    BY LeavingOpen
  <2>2. untilProbe + sinceOpen = ResetTimeout + 1
    BY DEF IInv, WaitAccounted
  <2>3. QED
    BY <2>1, <2>2, OptionsAssumption DEF IInv, TypeOK
<1>2. QED
  BY <1>1, Invariance, PTL DEF Spec, OpenHoldsUnlessLateSuccess
=============================================================================
