---------------------------- MODULE HTTPTransport ----------------------------
(***************************************************************************)
(* http() (src/utils/http.ts) with withRetry() (src/utils/retry.ts): the   *)
(* attempts of a call, each a fetch under a timeout of its own and linked  *)
(* to the signal the caller gave, the body that follows, the backoff       *)
(* between attempts, and the XHR path of uploads with progress.            *)
(***************************************************************************)
EXTENDS Naturals

CONSTANTS
  Calls,            \* calls of http()
  Signalled,        \* those that were given the signal
  Uploads,          \* those that report upload progress, where XMLHttpRequest exists
  MaxRetries,       \* the largest maxRetries of a call
  OnRetryMayThrow   \* whether onRetry may throw

ASSUME CallsAssumption == Signalled \subseteq Calls /\ Uploads \subseteq Calls
ASSUME RetriesAssumption == MaxRetries \in Nat /\ OnRetryMayThrow \in BOOLEAN

VARIABLES
  phase,      \* the await a call is at, or how its promise settled
  budget,     \* its maxRetries, 0 when retry is false
  attempts,   \* attempts begun
  timer,      \* calls whose current attempt has its timeout pending
  inner,      \* why the controller of the current attempt was aborted
  listeners,  \* attempts of each call that listen to the signal
  signal,     \* the reason the callers' signal was aborted with, or "none"
  after       \* history: attempts begun after the signal was aborted

vars == <<phase, budget, attempts, timer, inner, listeners, signal, after>>

Phases == {"idle", "fetching", "reading", "sending", "backoff", "ok", "failed"}
Reasons == {"abort", "other"}   \* an AbortError; anything else given to abort()
Errors == {"busy", "denied", "network", "timeout", "abort", "raw"}

TypeOK ==
  /\ phase \in [Calls -> Phases]
  /\ budget \in [Calls -> 0..MaxRetries]
  /\ attempts \in [Calls -> 0..(MaxRetries + 1)]
  /\ timer \in SUBSET Calls
  /\ inner \in [Calls -> Reasons \cup {"none", "timeout"}]
  /\ listeners \in [Calls -> SUBSET (1..(MaxRetries + 1))]
  /\ signal \in Reasons \cup {"none"}
  /\ after \in [Calls -> 0..(MaxRetries + 1)]

Init ==
  /\ phase = [c \in Calls |-> "idle"] /\ budget = [c \in Calls |-> 0]
  /\ attempts = [c \in Calls |-> 0] /\ timer = {}
  /\ inner = [c \in Calls |-> "none"] /\ listeners = [c \in Calls |-> {}]
  /\ signal = "none" /\ after = [c \in Calls |-> 0]

Settled(c) == phase[c] \in {"ok", "failed"}
InFlight(c) == phase[c] \notin {"idle", "ok", "failed"}
Aborted(c) == c \in Signalled /\ signal # "none"

Goto(c, p) == phase' = [phase EXCEPT ![c] = p]

-----------------------------------------------------------------------------
\* Mutant of Fetch: only the first attempt is linked to the signal.
FetchLinksOnce(c) ==
  /\ Goto(c, "fetching")
  /\ timer' = IF Aborted(c) THEN timer \ {c} ELSE timer \cup {c}
  /\ inner' = [inner EXCEPT ![c] = IF Aborted(c) THEN signal ELSE "none"]
  /\ listeners' = [listeners EXCEPT ![c] =
       IF c \in Signalled /\ ~Aborted(c) /\ attempts[c] = 0 THEN {1} ELSE @]

\* Mutant of Fetch: the timeout is started once for all attempts.
FetchTimesOnce(c) ==
  /\ Goto(c, "fetching")
  /\ timer' = IF Aborted(c) \/ attempts[c] > 0 THEN timer \ {c} ELSE timer \cup {c}
  /\ inner' = [inner EXCEPT ![c] = IF Aborted(c) THEN signal ELSE "none"]
  /\ listeners' = [listeners EXCEPT ![c] =
       IF c \in Signalled /\ ~Aborted(c) THEN @ \cup {attempts[c] + 1} ELSE @]

\* fetchWithTimeout up to its await: an attempt that finds the signal aborted is
\* aborted at once, any other one gets a timeout and listens to the signal.
Fetch(c) ==
  /\ Goto(c, "fetching")
  /\ timer' = IF Aborted(c) THEN timer \ {c} ELSE timer \cup {c}
  /\ inner' = [inner EXCEPT ![c] = IF Aborted(c) THEN signal ELSE "none"]
  /\ listeners' = [listeners EXCEPT ![c] =
       IF c \in Signalled /\ ~Aborted(c) THEN @ \cup {attempts[c] + 1} ELSE @]

\* executeRequest: XMLHttpRequest takes no notice of the signal.
Attempt(c) ==
  /\ attempts' = [attempts EXCEPT ![c] = @ + 1]
  /\ after' = IF Aborted(c) THEN [after EXCEPT ![c] = @ + 1] ELSE after
  /\ IF c \in Uploads THEN Goto(c, "sending") /\ UNCHANGED <<timer, inner, listeners>>
                      ELSE Fetch(c)

Call(c, n) ==
  /\ phase[c] = "idle"
  /\ budget' = [budget EXCEPT ![c] = n]
  /\ Attempt(c) /\ UNCHANGED signal

\* Mutant of Retriable: nothing is said of cancellations.
RetriableAnything(e) == e \notin {"denied", "raw"}

\* The retryCondition of http(): 5xx, 429 and 408, and failures of the network.
Retriable(e) == e \in {"busy", "network"}

\* Mutant of Fails: one attempt too many.
FailsLate(c, e) ==
  \/ attempts[c] <= budget[c] + 1 /\ Retriable(e) /\ Goto(c, "backoff")
  \/ (attempts[c] <= budget[c] /\ Retriable(e) => OnRetryMayThrow) /\ Goto(c, "failed")

\* The catch block of withRetry: back off, or reject with the last error (or
\* with what onRetry throws).
Fails(c, e) ==
  \/ attempts[c] <= budget[c] /\ Retriable(e) /\ Goto(c, "backoff")
  \/ (attempts[c] <= budget[c] /\ Retriable(e) => OnRetryMayThrow) /\ Goto(c, "failed")

\* sleep() is over; nothing interrupts it.
Retry(c) == phase[c] = "backoff" /\ Attempt(c) /\ UNCHANGED <<budget, signal>>

\* The attempt's timeout: the controller's abort unlinks it from the signal.
Timeout(c) ==
  /\ c \in timer /\ timer' = timer \ {c}
  /\ inner' = [inner EXCEPT ![c] = "timeout"]
  /\ listeners' = [listeners EXCEPT ![c] = @ \ {attempts[c]}]
  /\ UNCHANGED <<phase, budget, attempts, signal, after>>

\* The signal's owner aborts it: every listener left on it runs once, those of
\* attempts long over to no effect.
AbortSignal(reason) ==
  LET reached == {c \in Calls : attempts[c] \in listeners[c]}
  IN /\ signal = "none" /\ signal' = reason
     /\ inner' = [c \in Calls |-> IF c \in reached THEN reason ELSE inner[c]]
     /\ timer' = timer \ reached
     /\ listeners' = [c \in Calls |-> {}]
     /\ UNCHANGED <<phase, budget, attempts, after>>

\* fetch() rejects because its controller was aborted. A reason that is no
\* AbortError is taken for a failure of the network.
FetchAborted(c) ==
  /\ phase[c] = "fetching" /\ inner[c] # "none"
  /\ timer' = timer \ {c}
  /\ Fails(c, IF inner[c] = "other" THEN "network" ELSE inner[c])
  /\ UNCHANGED <<budget, attempts, inner, listeners, signal, after>>

\* fetch() rejects by itself.
NetworkFails(c) ==
  /\ phase[c] = "fetching" /\ inner[c] = "none"
  /\ timer' = timer \ {c} /\ Fails(c, "network")
  /\ UNCHANGED <<budget, attempts, inner, listeners, signal, after>>

\* Mutant of Headers: the timeout goes on while the body is read.
HeadersKeepTimer(c, e) ==
  /\ phase[c] = "fetching" /\ inner[c] = "none"
  /\ IF e = "none" THEN Goto(c, "reading") \/ Goto(c, "ok") ELSE Fails(c, e)
  /\ UNCHANGED <<budget, attempts, timer, inner, listeners, signal, after>>

\* The headers arrive: an error status, a body to read, or a stream to hand out.
\* The attempt is not unlinked from the signal.
Headers(c, e) ==
  /\ phase[c] = "fetching" /\ inner[c] = "none"
  /\ timer' = timer \ {c}
  /\ IF e = "none" THEN Goto(c, "reading") \/ Goto(c, "ok") ELSE Fails(c, e)
  /\ UNCHANGED <<budget, attempts, inner, listeners, signal, after>>

\* The body ends, breaks off ("network") or cannot be parsed ("raw").
Body(c, e) ==
  /\ phase[c] = "reading" /\ inner[c] = "none"
  /\ IF e = "none" THEN Goto(c, "ok") ELSE Fails(c, e)
  /\ UNCHANGED <<budget, attempts, timer, inner, listeners, signal, after>>

\* Reading is aborted; its error is not classified.
BodyAborted(c) ==
  /\ phase[c] = "reading" /\ inner[c] # "none"
  /\ Fails(c, IF inner[c] = "abort" THEN "abort" ELSE "raw")
  /\ UNCHANGED <<budget, attempts, timer, inner, listeners, signal, after>>

\* onload, onerror ("network") and ontimeout ("raw") of the XMLHttpRequest.
XhrEvent(c, e) ==
  /\ phase[c] = "sending"
  /\ IF e = "none" THEN Goto(c, "ok") ELSE Fails(c, e)
  /\ UNCHANGED <<budget, attempts, timer, inner, listeners, signal, after>>

Next ==
  \/ \E c \in Calls :
       \/ \E n \in 0..MaxRetries : Call(c, n)
       \/ Retry(c) \/ Timeout(c) \/ FetchAborted(c) \/ NetworkFails(c) \/ BodyAborted(c)
       \/ \E e \in {"none", "busy", "denied"} : Headers(c, e)
       \/ \E e \in {"none", "network", "raw"} : Body(c, e)
       \/ \E e \in {"none", "busy", "denied", "network", "raw"} : XhrEvent(c, e)
  \/ \E reason \in Reasons : AbortSignal(reason)

Spec == Init /\ [][Next]_vars

\* Timers fire and aborted promises reject; the server may never answer.
Fairness ==
  \A c \in Calls : WF_vars(Retry(c)) /\ WF_vars(Timeout(c)) /\ WF_vars(FetchAborted(c) \/ BodyAborted(c))
FairSpec == Spec /\ Fairness

-----------------------------------------------------------------------------
(***************************************************************************)
(* Properties.                                                             *)
(***************************************************************************)
\* A fetch that nothing has aborted has its timeout running, and the timeout
\* never outlives the fetch: it cannot cut off a body or a later attempt. And the
\* abort of the signal reaches a call in whatever attempt, fetch or body it is.
AttemptsInterruptible ==
  \A c \in Calls \ Uploads :
    /\ c \in timer <=> phase[c] = "fetching" /\ inner[c] = "none"
    /\ Aborted(c) /\ phase[c] \in {"fetching", "reading"} => inner[c] # "none"

\* Once the signal has been aborted with an AbortError, a call makes at most one
\* more attempt, the one its backoff was waiting for: "Never retry intentional
\* cancellations". (An upload, deaf to the signal, may make them all.)
CancelledCallsStop ==
  \A c \in Calls \ Uploads : signal = "abort" => after[c] <= 1

Promised(c) ==
  IF phase[c] = "idle" THEN "idle" ELSE IF Settled(c) THEN phase[c] ELSE "pending"

Abstract == INSTANCE Transport WITH
  Deaf <- Uploads,
  call <- [c \in Calls |-> Promised(c)],
  aborted <- IF signal = "none" THEN {} ELSE Signalled

\* All retries included, http() is the transport HTTPClient counts on: it settles
\* once, and never fulfils a call whose signal was aborted.
HonoursSignal == Abstract!Spec

\* An aborted call is answered, and only a body that does not end keeps a call
\* from settling: no server, however silent, holds it in the other phases.
CallsSettle ==
  /\ Abstract!Answers
  /\ \A c \in Calls \ Uploads : InFlight(c) ~> (Settled(c) \/ phase[c] = "reading")
=============================================================================
