------------------------- MODULE HTTPTransportProofs -------------------------
(***************************************************************************)
(* Proofs about HTTPTransport: types, that every attempt can be            *)
(* interrupted, that cancelled calls stop, and that http() with all its    *)
(* retries implements the transport HTTPClient is written against.         *)
(***************************************************************************)
EXTENDS HTTPTransport, TLAPS

\* Where a call may still make an attempt, its budget allows one more.
Budgeted ==
  \A c \in Calls :
    /\ phase[c] = "idle" => attempts[c] = 0
    /\ phase[c] = "backoff" => attempts[c] <= budget[c]
    /\ phase[c] = "sending" => c \in Uploads
    /\ after[c] <= attempts[c]

\* The timeout runs exactly during the fetch of an attempt nobody aborted; such
\* an attempt, if given a signal, listens to it, and then it is not aborted yet.
Linked ==
  \A c \in Calls \ Uploads :
    /\ c \in timer <=> (phase[c] = "fetching" /\ inner[c] = "none")
    /\ (c \in Signalled /\ phase[c] \in {"fetching", "reading"} /\ inner[c] = "none")
         => (signal = "none" /\ attempts[c] \in listeners[c])

\* An attempt begun after an AbortError is aborted from the start, and the last.
LastAttempt ==
  \A c \in Calls \ Uploads :
    /\ signal = "none" => after[c] = 0
    /\ signal = "abort" => after[c] <= 1
    /\ (signal = "abort" /\ after[c] = 1)
         => (inner[c] = "abort" /\ phase[c] \in {"fetching", "failed"})

IInv == TypeOK /\ Budgeted /\ Linked /\ LastAttempt

-----------------------------------------------------------------------------
\* The two ways out of the catch block of withRetry.
LEMMA FailsEnds ==
  ASSUME NEW c \in Calls, NEW e, Fails(c, e)
  PROVE  \/ /\ attempts[c] <= budget[c] /\ e \in {"busy", "network"}
            /\ phase' = [phase EXCEPT ![c] = "backoff"]
         \/ phase' = [phase EXCEPT ![c] = "failed"]
BY DEF Fails, Retriable, Goto

LEMMA InitIInv == Init => IInv
BY RetriesAssumption DEF Init, IInv, TypeOK, Budgeted, Linked, LastAttempt, Phases, Reasons

\* An attempt may begin wherever the budget of its call leaves room for it.
LEMMA AttemptKeepsIInv ==
  ASSUME IInv, NEW c \in Calls, Attempt(c), UNCHANGED signal,
         budget' \in [Calls -> 0..MaxRetries], attempts[c] <= budget'[c],
         phase[c] \in {"idle", "backoff"},
         \A d \in Calls \ {c} : budget'[d] = budget[d]
  PROVE  IInv'
<1> USE CallsAssumption, RetriesAssumption
<1>a. /\ attempts' = [attempts EXCEPT ![c] = @ + 1]
      /\ attempts[c] + 1 \in 1..(MaxRetries + 1)
      /\ attempts' \in [Calls -> 0..(MaxRetries + 1)]
  <2>1. attempts[c] \in 0..(MaxRetries + 1) /\ budget'[c] \in 0..MaxRetries
    BY DEF IInv, TypeOK
  <2>2. attempts[c] + 1 \in 1..(MaxRetries + 1)
    BY <2>1
  <2> QED BY <2>2 DEF IInv, TypeOK, Attempt
<1>b. phase' \in [Calls -> Phases] /\ timer' \in SUBSET Calls
  BY DEF IInv, TypeOK, Attempt, Fetch, Goto, Phases
<1>c. inner' \in [Calls -> Reasons \cup {"none", "timeout"}]
  BY DEF IInv, TypeOK, Attempt, Fetch
<1>d. listeners' \in [Calls -> SUBSET (1..(MaxRetries + 1))]
  BY <1>a DEF IInv, TypeOK, Attempt, Fetch
<1>e. after' \in [Calls -> 0..(MaxRetries + 1)]
  <2>1. after[c] \in Nat /\ after[c] + 1 \in 0..(MaxRetries + 1)
    BY <1>a DEF IInv, TypeOK, Budgeted
  <2> QED BY <2>1 DEF IInv, TypeOK, Attempt
<1>1. TypeOK'
  BY <1>a, <1>b, <1>c, <1>d, <1>e DEF IInv, TypeOK
<1>2. Budgeted'
  BY DEF IInv, TypeOK, Attempt, Fetch, Goto, Budgeted, Phases, Reasons, Aborted
<1>3. Linked'
  BY DEF IInv, TypeOK, Attempt, Fetch, Goto, Linked, Phases, Reasons, Aborted
<1>4. LastAttempt'
  BY DEF IInv, TypeOK, Attempt, Fetch, Goto, LastAttempt, Phases, Reasons, Aborted
<1> QED BY <1>1, <1>2, <1>3, <1>4 DEF IInv

LEMMA NextKeepsIInv == IInv /\ [Next]_vars => IInv'
<1> SUFFICES ASSUME IInv, [Next]_vars PROVE IInv'
  OBVIOUS
<1> USE CallsAssumption, RetriesAssumption
<1>1. ASSUME NEW c \in Calls, NEW n \in 0..MaxRetries, Call(c, n) PROVE IInv'
  <2>1. /\ budget' \in [Calls -> 0..MaxRetries] /\ attempts[c] <= budget'[c]
        /\ \A d \in Calls \ {c} : budget'[d] = budget[d]
    BY <1>1 DEF Call, IInv, TypeOK, Budgeted
  <2> QED BY <1>1, <2>1, AttemptKeepsIInv DEF Call
<1>2. ASSUME NEW c \in Calls, Retry(c) PROVE IInv'
  <2>1. /\ budget' \in [Calls -> 0..MaxRetries] /\ attempts[c] <= budget'[c]
        /\ \A d \in Calls \ {c} : budget'[d] = budget[d]
    BY <1>2 DEF Retry, IInv, TypeOK, Budgeted
  <2> QED BY <1>2, <2>1, AttemptKeepsIInv DEF Retry
<1>3. ASSUME NEW c \in Calls, Timeout(c) PROVE IInv'
  BY <1>3 DEF Timeout, IInv, TypeOK, Budgeted, Linked, LastAttempt, Phases, Reasons
<1>4. ASSUME NEW c \in Calls, FetchAborted(c) PROVE IInv'
  <2> DEFINE e == IF inner[c] = "other" THEN "network" ELSE inner[c]
  <2>1. Fails(c, e) BY <1>4 DEF FetchAborted
  <2> HIDE DEF e
  <2>2. \/ /\ attempts[c] <= budget[c] /\ e \in {"busy", "network"}
           /\ phase' = [phase EXCEPT ![c] = "backoff"]
        \/ phase' = [phase EXCEPT ![c] = "failed"]
    BY <2>1, FailsEnds
  <2> QED BY <1>4, <2>2 DEF e, FetchAborted, IInv, TypeOK, Budgeted, Linked, LastAttempt, Phases, Reasons
<1>5. ASSUME NEW c \in Calls, NetworkFails(c) PROVE IInv'
  <2>1. \/ attempts[c] <= budget[c] /\ phase' = [phase EXCEPT ![c] = "backoff"]
        \/ phase' = [phase EXCEPT ![c] = "failed"]
    BY <1>5, FailsEnds DEF NetworkFails
  <2> QED BY <1>5, <2>1 DEF NetworkFails, IInv, TypeOK, Budgeted, Linked, LastAttempt, Phases, Reasons
<1>6. ASSUME NEW c \in Calls, BodyAborted(c) PROVE IInv'
  <2>1. \/ attempts[c] <= budget[c] /\ phase' = [phase EXCEPT ![c] = "backoff"]
        \/ phase' = [phase EXCEPT ![c] = "failed"]
    BY <1>6, FailsEnds DEF BodyAborted
  <2> QED BY <1>6, <2>1 DEF BodyAborted, IInv, TypeOK, Budgeted, Linked, LastAttempt, Phases, Reasons
<1>7. ASSUME NEW c \in Calls, NEW e, Headers(c, e) PROVE IInv'
  <2>1. \/ attempts[c] <= budget[c] /\ phase' = [phase EXCEPT ![c] = "backoff"]
        \/ \E p \in {"failed", "ok", "reading"} : phase' = [phase EXCEPT ![c] = p]
    BY <1>7, FailsEnds DEF Headers, Goto
  <2> QED BY <1>7, <2>1 DEF Headers, IInv, TypeOK, Budgeted, Linked, LastAttempt, Phases, Reasons
<1>8. ASSUME NEW c \in Calls, NEW e, Body(c, e) PROVE IInv'
  <2>1. \/ attempts[c] <= budget[c] /\ phase' = [phase EXCEPT ![c] = "backoff"]
        \/ \E p \in {"failed", "ok"} : phase' = [phase EXCEPT ![c] = p]
    BY <1>8, FailsEnds DEF Body, Goto
  <2> QED BY <1>8, <2>1 DEF Body, IInv, TypeOK, Budgeted, Linked, LastAttempt, Phases, Reasons
<1>9. ASSUME NEW c \in Calls, NEW e, XhrEvent(c, e) PROVE IInv'
  <2>1. \/ attempts[c] <= budget[c] /\ phase' = [phase EXCEPT ![c] = "backoff"]
        \/ \E p \in {"failed", "ok"} : phase' = [phase EXCEPT ![c] = p]
    BY <1>9, FailsEnds DEF XhrEvent, Goto
  <2> QED BY <1>9, <2>1 DEF XhrEvent, IInv, TypeOK, Budgeted, Linked, LastAttempt, Phases, Reasons
<1>10. ASSUME NEW reason \in Reasons, AbortSignal(reason) PROVE IInv'
  <2>1. TypeOK' /\ Budgeted'
    BY <1>10 DEF AbortSignal, IInv, TypeOK, Budgeted, Reasons
  <2>2. Linked'
    BY <1>10 DEF AbortSignal, IInv, TypeOK, Linked, Reasons
  <2>3. LastAttempt'
    BY <1>10 DEF AbortSignal, IInv, TypeOK, LastAttempt, Reasons
  <2> QED BY <2>1, <2>2, <2>3 DEF IInv
<1>11. ASSUME UNCHANGED vars PROVE IInv'
  BY <1>11 DEF vars, IInv, TypeOK, Budgeted, Linked, LastAttempt
<1> QED BY <1>1, <1>2, <1>3, <1>4, <1>5, <1>6, <1>7, <1>8, <1>9, <1>10, <1>11 DEF Next

LEMMA Invariance == Spec => []IInv
<1> QED BY InitIInv, NextKeepsIInv, PTL DEF Spec

-----------------------------------------------------------------------------
\* The variables of http() keep their types; in particular a call makes at most
\* one attempt more than its maxRetries.
THEOREM TypeCorrect == Spec => []TypeOK
<1>1. IInv => TypeOK BY DEF IInv
<1> QED BY <1>1, Invariance, PTL

\* Every attempt of http() can be interrupted, by its timeout and by the signal,
\* and no timeout outlives its fetch.
THEOREM Interruptible == Spec => []AttemptsInterruptible
<1>1. IInv => AttemptsInterruptible
  BY DEF IInv, TypeOK, Linked, AttemptsInterruptible, Aborted, Reasons
<1> QED BY <1>1, Invariance, PTL

\* After an AbortError, http() makes at most the attempt its backoff waited for.
THEOREM CancelStops == Spec => []CancelledCallsStop
<1>1. IInv => CancelledCallsStop BY DEF IInv, LastAttempt, CancelledCallsStop
<1> QED BY <1>1, Invariance, PTL

-----------------------------------------------------------------------------
(***************************************************************************)
(* The refinement: a call is pending from its first attempt to its         *)
(* settlement, attempts and backoffs being stutters.                       *)
(***************************************************************************)
promises == [c \in Calls |-> Promised(c)]
abortedCalls == IF signal = "none" THEN {} ELSE Signalled

\* A step that moves the phase of one call moves its promise alone.
LEMMA PromiseMoves ==
  ASSUME TypeOK, NEW c \in Calls, NEW p \in Phases, phase' = [phase EXCEPT ![c] = p]
  PROVE  promises' = [promises EXCEPT ![c] =
           IF p = "idle" THEN "idle" ELSE IF p \in {"ok", "failed"} THEN p ELSE "pending"]
BY DEF TypeOK, promises, Promised, Settled

LEMMA InitImplements == Init => Abstract!Init
BY DEF Init, Abstract!Init, Promised

LEMMA StepImplements == IInv /\ [Next]_vars => [Abstract!Next]_(Abstract!vars)
<1> SUFFICES ASSUME IInv, [Next]_vars PROVE [Abstract!Next]_(Abstract!vars)
  OBVIOUS
<1>1. TypeOK BY DEF IInv
<1>2. ASSUME NEW c \in Calls, phase[c] \in {"idle", "backoff"}, Attempt(c), UNCHANGED signal
      PROVE  [Abstract!Next]_(Abstract!vars)
  <2>1. \E p \in {"fetching", "sending"} : phase' = [phase EXCEPT ![c] = p]
    BY <1>2 DEF Attempt, Fetch, Goto
  <2>2. promises' = [promises EXCEPT ![c] = "pending"]
    BY <1>1, <2>1, PromiseMoves DEF Phases
  <2>3. abortedCalls' = abortedCalls
    BY <1>2 DEF abortedCalls
  <2>4. CASE phase[c] = "idle"
    <3>1. promises[c] = "idle" BY <2>4 DEF promises, Promised
    <3> QED BY <2>2, <2>3, <3>1 DEF Abstract!Next, Abstract!Begin, promises, abortedCalls
  <2>5. CASE phase[c] = "backoff"
    <3>1. promises[c] = "pending" BY <2>5 DEF promises, Promised, Settled
    <3>2. promises' = promises BY <2>2, <3>1 DEF promises
    <3> QED BY <2>3, <3>2 DEF Abstract!vars, promises, abortedCalls
  <2> QED BY <1>2, <2>4, <2>5
<1>3. ASSUME NEW c \in Calls, phase[c] \in {"fetching", "reading", "sending"}, UNCHANGED signal,
             NEW p \in {"reading", "backoff", "ok", "failed"}, phase' = [phase EXCEPT ![c] = p],
             p = "ok" /\ Aborted(c) => c \in Uploads
      PROVE  [Abstract!Next]_(Abstract!vars)
  <2>1. promises[c] = "pending" /\ abortedCalls' = abortedCalls
    BY <1>3 DEF promises, Promised, Settled, abortedCalls
  <2>2. CASE p = "ok"
    <3>1. promises' = [promises EXCEPT ![c] = "ok"]
      BY <1>1, <1>3, <2>2, PromiseMoves DEF Phases
    <3>2. c \in abortedCalls => c \in Uploads
      BY <1>3, <2>2 DEF abortedCalls, Aborted
    <3> QED BY <2>1, <3>1, <3>2 DEF Abstract!Next, Abstract!Fulfil, promises, abortedCalls
  <2>3. CASE p = "failed"
    <3>1. promises' = [promises EXCEPT ![c] = "failed"]
      BY <1>1, <1>3, <2>3, PromiseMoves DEF Phases
    <3> QED BY <2>1, <3>1 DEF Abstract!Next, Abstract!Reject, promises, abortedCalls
  <2>4. CASE p \in {"reading", "backoff"}
    <3>1. promises' = [promises EXCEPT ![c] = "pending"]
      BY <1>1, <1>3, <2>4, PromiseMoves DEF Phases
    <3>2. promises' = promises BY <2>1, <3>1 DEF promises
    <3> QED BY <2>1, <3>2 DEF Abstract!vars, promises, abortedCalls
  <2> QED BY <1>3, <2>2, <2>3, <2>4
<1>4. ASSUME NEW c \in Calls, NEW n \in 0..MaxRetries, Call(c, n)
      PROVE  [Abstract!Next]_(Abstract!vars)
  BY <1>2, <1>4 DEF Call
<1>5. ASSUME NEW c \in Calls, Retry(c) PROVE [Abstract!Next]_(Abstract!vars)
  BY <1>2, <1>5 DEF Retry
<1>6. ASSUME NEW c \in Calls, NEW e, Fails(c, e), UNCHANGED signal,
             phase[c] \in {"fetching", "reading", "sending"}
      PROVE  [Abstract!Next]_(Abstract!vars)
  <2>1. \E p \in {"backoff", "failed"} : phase' = [phase EXCEPT ![c] = p]
    BY <1>6 DEF Fails, Goto
  <2> QED BY <1>3, <1>6, <2>1
<1>7. ASSUME NEW c \in Calls, FetchAborted(c) PROVE [Abstract!Next]_(Abstract!vars)
  BY <1>6, <1>7 DEF FetchAborted
<1>8. ASSUME NEW c \in Calls, NetworkFails(c) PROVE [Abstract!Next]_(Abstract!vars)
  BY <1>6, <1>8 DEF NetworkFails
<1>9. ASSUME NEW c \in Calls, BodyAborted(c) PROVE [Abstract!Next]_(Abstract!vars)
  BY <1>6, <1>9 DEF BodyAborted
<1>10. ASSUME NEW c \in Calls, inner[c] = "none", phase[c] \in {"fetching", "reading"}, Aborted(c)
       PROVE  c \in Uploads
  BY <1>10 DEF IInv, Linked, Aborted
<1>11. ASSUME NEW c \in Calls, NEW e, Headers(c, e) PROVE [Abstract!Next]_(Abstract!vars)
  <2>1. CASE e = "none"
    <3>1. \E p \in {"reading", "ok"} : phase' = [phase EXCEPT ![c] = p]
      BY <1>11, <2>1 DEF Headers, Goto
    <3> QED BY <1>3, <1>10, <1>11, <3>1 DEF Headers
  <2>2. CASE e # "none" BY <1>6, <1>11, <2>2 DEF Headers
  <2> QED BY <2>1, <2>2
<1>12. ASSUME NEW c \in Calls, NEW e, Body(c, e) PROVE [Abstract!Next]_(Abstract!vars)
  <2>1. CASE e = "none" BY <1>3, <1>10, <1>12, <2>1 DEF Body, Goto
  <2>2. CASE e # "none" BY <1>6, <1>12, <2>2 DEF Body
  <2> QED BY <2>1, <2>2
<1>13. ASSUME NEW c \in Calls, NEW e, XhrEvent(c, e) PROVE [Abstract!Next]_(Abstract!vars)
  <2>1. CASE e = "none" BY <1>3, <1>13, <2>1 DEF XhrEvent, Goto, IInv, Budgeted
  <2>2. CASE e # "none" BY <1>6, <1>13, <2>2 DEF XhrEvent
  <2> QED BY <2>1, <2>2
<1>14. ASSUME NEW c \in Calls, Timeout(c) PROVE [Abstract!Next]_(Abstract!vars)
  BY <1>14 DEF Timeout, Abstract!vars, Promised, Settled
<1>15. ASSUME NEW reason \in Reasons, AbortSignal(reason) PROVE [Abstract!Next]_(Abstract!vars)
  <2>1. promises' = promises
    BY <1>15 DEF AbortSignal, promises, Promised, Settled
  <2>2. abortedCalls' = abortedCalls \cup Signalled /\ Signalled \in SUBSET Calls
    BY <1>15, CallsAssumption DEF AbortSignal, abortedCalls, Reasons
  <2> QED BY <2>1, <2>2 DEF Abstract!Next, Abstract!Abort, promises, abortedCalls
<1>16. ASSUME UNCHANGED vars PROVE [Abstract!Next]_(Abstract!vars)
  BY <1>16 DEF vars, Abstract!vars, Promised, Settled
<1> QED BY <1>4, <1>5, <1>7, <1>8, <1>9, <1>11, <1>12, <1>13, <1>14, <1>15, <1>16 DEF Next

\* With all its retries, timeouts and backoffs, http() behaves towards its caller
\* as the transport HTTPClient expects: it settles once, and does not fulfil a
\* call whose signal was aborted, uploads with progress excepted.
THEOREM ImplementsTransport == Spec => HonoursSignal
<1>1. Init => Abstract!Init BY InitImplements
<1>2. IInv /\ [Next]_vars => [Abstract!Next]_(Abstract!vars) BY StepImplements
<1> QED BY <1>1, <1>2, Invariance, PTL DEF Spec, HonoursSignal, Abstract!Spec
=============================================================================
