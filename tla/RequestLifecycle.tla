-------------------------- MODULE RequestLifecycle --------------------------
(***************************************************************************)
(* The life of a request in HTTPClient (src/core/http-client.ts):          *)
(* _executeRequest, its deduplication map, its abort controllers and its   *)
(* abandonment timer, with cancel, cancelAll, requestWithId and dispose    *)
(* arriving between any two of its awaits.                                 *)
(***************************************************************************)
EXTENDS Integers, FiniteSets

CONSTANTS
  Requests,             \* calls of request()
  Keys,                 \* deduplication keys (URL and params)
  NoKey, None,          \* no deduplication; no request
  Limited,              \* whether a rate limiter is configured
  InterceptorsMayFail,  \* whether a request interceptor may reject
  ResponseInterceptors, \* whether response interceptors are registered
  MayRecover,           \* whether error interceptors may turn an error into a response
  WithIds,              \* the requests made with requestWithId()
  Interruptions         \* which of these happen

ASSUME KeysAssumption == NoKey \notin Keys /\ None \notin Requests
ASSUME FlagsAssumption ==
  /\ {Limited, InterceptorsMayFail, ResponseInterceptors, MayRecover} \subseteq BOOLEAN
  /\ WithIds \subseteq Requests
  /\ Interruptions \subseteq {"cancel", "cancelAll", "dispose", "abandon"}

VARIABLES
  phase,        \* the await a request is at, or how its promise settled
  key,          \* its dedupeKey
  owner,        \* for a joined request, the request whose promise it returned
  inFlight,     \* this.inFlightRequests
  controllers,  \* requests with an entry of their own in this.abortControllers
  outerIds,     \* requests with one made by requestWithId
  aborted,      \* unfinished requests whose own abort controller has been aborted
  armed,        \* requests whose abandonment timer is running
  dropped       \* history: dispose() or a timer dropped the map entry of a live request

vars == <<phase, key, owner, inFlight, controllers, outerIds, aborted, armed, dropped>>

Settled == {"ok", "failed", "stillborn"}   \* stillborn: a request interceptor rejected
Live == {"preparing", "transport", "responding"}   \* the client still works on it
Phases == {"idle", "limited", "joined", "recovering"} \cup Live \cup Settled

TypeOK ==
  /\ phase \in [Requests -> Phases]
  /\ key \in [Requests -> Keys \cup {NoKey}]
  /\ owner \in [Requests -> Requests \cup {None}]
  /\ inFlight \in [Keys -> Requests \cup {None}]
  /\ controllers \in SUBSET Requests /\ outerIds \in SUBSET Requests
  /\ aborted \in SUBSET Requests /\ armed \in SUBSET Requests
  /\ dropped \in BOOLEAN

Init ==
  /\ phase = [r \in Requests |-> "idle"] /\ key = [r \in Requests |-> NoKey]
  /\ owner = [r \in Requests |-> None] /\ inFlight = [k \in Keys |-> None]
  /\ controllers = {} /\ outerIds = {} /\ aborted = {} /\ armed = {}
  /\ dropped = FALSE

Goto(r, p) == phase' = [phase EXCEPT ![r] = p]

-----------------------------------------------------------------------------
\* Mutant of Dispatch: the map is written without asking whether there is a key.
DispatchWithoutKey(r, k) ==
  \/ /\ k \in Keys /\ inFlight[k] # None
     /\ Goto(r, "joined") /\ owner' = [owner EXCEPT ![r] = inFlight[k]]
     /\ UNCHANGED <<inFlight, controllers, armed>>
  \/ /\ k \in Keys => inFlight[k] = None
     /\ Goto(r, "preparing")
     /\ controllers' = controllers \cup {r} /\ armed' = armed \cup {r}
     /\ inFlight' = [x \in Keys \cup {k} |-> IF x = k THEN r ELSE inFlight[x]]
     /\ UNCHANGED owner

\* _executeRequest after the rate limiter, up to its next await: join the request
\* in flight under the same key, or become the one in flight.
Dispatch(r, k) ==
  \/ /\ k \in Keys /\ inFlight[k] # None
     /\ Goto(r, "joined") /\ owner' = [owner EXCEPT ![r] = inFlight[k]]
     /\ UNCHANGED <<inFlight, controllers, armed>>
  \/ /\ k \in Keys => inFlight[k] = None
     /\ Goto(r, "preparing")
     /\ controllers' = controllers \cup {r} /\ armed' = armed \cup {r}
     /\ inFlight' = [x \in Keys |-> IF x = k THEN r ELSE inFlight[x]]
     /\ UNCHANGED owner

\* request() or, with an id for cancel(), requestWithId().
Request(r, k) ==
  /\ phase[r] = "idle"
  /\ key' = [key EXCEPT ![r] = k]
  /\ outerIds' = outerIds \cup ({r} \cap WithIds)
  /\ IF Limited
     THEN Goto(r, "limited") /\ UNCHANGED <<owner, inFlight, controllers, armed>>
     ELSE Dispatch(r, k)
  /\ UNCHANGED <<aborted, dropped>>

\* waitForToken() resolves.
Admitted(r) ==
  /\ phase[r] = "limited"
  /\ Dispatch(r, key[r])
  /\ UNCHANGED <<key, outerIds, aborted, dropped>>

\* The request interceptors resolve or one rejects, outside the try block.
Prepared(r, ok) ==
  /\ phase[r] = "preparing"
  /\ ~ok => InterceptorsMayFail
  /\ Goto(r, IF ok THEN "transport" ELSE "stillborn")
  /\ UNCHANGED <<key, owner, inFlight, controllers, outerIds, aborted, armed, dropped>>

\* Mutant of Cleanup: the abandonment timer is left running.
CleanupLeavesTimer(r) ==
  /\ inFlight' = [k \in Keys |-> IF k = key[r] THEN None ELSE inFlight[k]]
  /\ controllers' = controllers \ {r}
  /\ UNCHANGED armed

\* The finally block.
Cleanup(r) ==
  /\ inFlight' = [k \in Keys |-> IF k = key[r] THEN None ELSE inFlight[k]]
  /\ controllers' = controllers \ {r}
  /\ armed' = armed \ {r}

\* The end of the try block, or of the catch block: runErrorInterceptors is
\* returned without await, so the finally block does not wait for it.
Complete(r, ok) ==
  /\ Cleanup(r)
  /\ Goto(r, IF ok THEN "ok" ELSE IF ResponseInterceptors THEN "recovering" ELSE "failed")
  /\ aborted' = aborted \ {r}
  /\ UNCHANGED <<key, owner, outerIds, dropped>>

\* transport() settles; one whose signal is aborted rejects.
Answered(r, ok) ==
  /\ phase[r] = "transport"
  /\ ok => r \notin aborted
  /\ IF ok /\ ResponseInterceptors
     THEN /\ Goto(r, "responding")
          /\ UNCHANGED <<key, owner, inFlight, controllers, outerIds, aborted, armed, dropped>>
     ELSE Complete(r, ok)

\* The response interceptors and the validation schema accept the response, or not.
Responded(r, ok) == phase[r] = "responding" /\ Complete(r, ok)

\* The error interceptors turn the error into a response, or not.
Recovered(r, ok) ==
  /\ phase[r] = "recovering" /\ (ok => MayRecover)
  /\ Goto(r, IF ok THEN "ok" ELSE "failed")
  /\ UNCHANGED <<key, owner, inFlight, controllers, outerIds, aborted, armed, dropped>>

\* A joined request settles with the promise it returned.
Follow(r) ==
  /\ phase[r] = "joined" /\ phase[owner[r]] \in Settled
  /\ Goto(r, IF phase[owner[r]] = "ok" THEN "ok" ELSE "failed")
  /\ UNCHANGED <<key, owner, inFlight, controllers, outerIds, aborted, armed, dropped>>

\* The finally() of requestWithId.
ReleaseId(r) ==
  /\ r \in outerIds /\ phase[r] \in Settled
  /\ outerIds' = outerIds \ {r}
  /\ UNCHANGED <<phase, key, owner, inFlight, controllers, aborted, armed, dropped>>

-----------------------------------------------------------------------------
\* cancel() with the id of the 'request:start' event.
Cancel(r) ==
  /\ "cancel" \in Interruptions
  /\ r \in controllers
  /\ aborted' = aborted \cup {r} /\ controllers' = controllers \ {r}
  /\ UNCHANGED <<phase, key, owner, inFlight, outerIds, armed, dropped>>

\* cancel() with the id requestWithId returned: _executeRequest has replaced the
\* signal of the controller it aborts by that of its own.
CancelOuter(r) ==
  /\ "cancel" \in Interruptions
  /\ r \in outerIds
  /\ outerIds' = outerIds \ {r}
  /\ UNCHANGED <<phase, key, owner, inFlight, controllers, aborted, armed, dropped>>

AbortAll ==
  /\ aborted' = aborted \cup controllers
  /\ controllers' = {} /\ outerIds' = {}
  /\ UNCHANGED <<phase, key, owner, armed>>

\* Whether a live request loses its entry in the map.
Drops == dropped' = (dropped \/ \E k \in Keys : /\ inFlight[k] # None /\ inFlight'[k] = None
                                                 /\ phase[inFlight[k]] \in Live)

\* Mutant of CancelAll: it clears the deduplication map, as dispose() does.
CancelAllClears == /\ "cancelAll" \in Interruptions /\ AbortAll
                   /\ inFlight' = [k \in Keys |-> None] /\ UNCHANGED dropped

CancelAll == "cancelAll" \in Interruptions /\ AbortAll /\ UNCHANGED <<inFlight, dropped>>

\* dispose(); nothing keeps the client from being used again (it also runs on
\* 'beforeunload', which the user may decline).
Dispose ==
  /\ "dispose" \in Interruptions
  /\ AbortAll /\ inFlight' = [k \in Keys |-> None] /\ Drops

\* Mutant of Abandon: the request is forgotten without being aborted.
AbandonForgets(r) ==
  /\ "abandon" \in Interruptions
  /\ r \in armed /\ armed' = armed \ {r}
  /\ controllers' = controllers \ {r}
  /\ UNCHANGED <<phase, key, owner, inFlight, outerIds, aborted, dropped>>

\* The abandonment timer fires, after 30 minutes.
Abandon(r) ==
  /\ "abandon" \in Interruptions
  /\ r \in armed /\ armed' = armed \ {r}
  /\ IF r \in controllers
     THEN /\ aborted' = aborted \cup {r} /\ controllers' = controllers \ {r}
          /\ inFlight' = [k \in Keys |-> IF k = key[r] THEN None ELSE inFlight[k]]
     ELSE UNCHANGED <<aborted, controllers, inFlight>>
  /\ Drops
  /\ UNCHANGED <<phase, key, owner, outerIds>>

Step(r) ==
  \/ Admitted(r) \/ Follow(r) \/ ReleaseId(r)
  \/ \E ok \in BOOLEAN : Prepared(r, ok) \/ Responded(r, ok) \/ Recovered(r, ok)

Next ==
  \/ \E r \in Requests, k \in Keys \cup {NoKey} : Request(r, k)
  \/ \E r \in Requests : Step(r) \/ Cancel(r) \/ CancelOuter(r) \/ Abandon(r)
  \/ \E r \in Requests, ok \in BOOLEAN : Answered(r, ok)
  \/ CancelAll \/ Dispose

Spec == Init /\ [][Next]_vars

\* Interceptors terminate and timers fire; a transport may hang until its signal
\* is aborted.
Fairness ==
  \A r \in Requests :
    /\ WF_vars(Step(r)) /\ WF_vars(Abandon(r))
    /\ WF_vars(r \in aborted /\ \E ok \in BOOLEAN : Answered(r, ok))
FairSpec == Spec /\ Fairness

-----------------------------------------------------------------------------
(***************************************************************************)
(* Properties.                                                             *)
(***************************************************************************)
\* "Multiple simultaneous GET requests to the same URL share one network call":
\* at most one live request per key whose call has not been aborted.
SharedFlight ==
  \A r, s \in {q \in Requests : phase[q] \in Live /\ q \notin aborted /\ key[q] \in Keys} :
    key[r] = key[s] => r = s

\* ... which cancellations, late answers and failed interceptors never break: only
\* the entry of a live request dropped by dispose() or an abandonment timer does.
SingleFlight == ~dropped => SharedFlight

\* A request as a call that may be shared: idle until it is dispatched, in the air while
\* the client works on it, and landed when only error interceptors are left.
AsCall(p) ==
  CASE p \in {"idle", "limited"} -> "idle" [] p \in Live -> "flying"
    [] p = "recovering" -> "landed" [] p = "stillborn" -> "spoilt" [] OTHER -> p

Flights == INSTANCE OneFlightPerKey WITH
  Callers <- Requests,
  call <- [r \in Requests |-> AsCall(phase[r])],
  keyOf <- [r \in Requests |-> IF AsCall(phase[r]) = "idle" THEN NoKey ELSE key[r]],
  leader <- owner, flight <- inFlight,
  forgotten <- IF dropped THEN Keys ELSE {}

\* A request is the one in flight for its key or shares the outcome of the one that is; the
\* map lists it exactly as long as the client works on it, whatever is cancelled or fails
\* meanwhile, until dispose() or an abandonment timer takes the entry of a live request.
ImplementsOneFlightPerKey == Flights!Spec

\* A request that is over holds nothing.
NothingHeld ==
  /\ \A r \in controllers \cup armed : phase[r] \notin Settled
  /\ \A k \in Keys : inFlight[k] # None => phase[inFlight[k]] \notin Settled

\* Whatever interrupts it, a request that is over holds nothing: no abort
\* controller, no running timer, and no entry in the deduplication map through
\* which later requests would be handed its old outcome; unless it was a request
\* interceptor, which runs outside the try block, that rejected it.
ResourcesReleased ==
  /\ \A r \in controllers \cup armed : phase[r] \in Live \cup {"stillborn"}
  /\ \A k \in Keys : inFlight[k] # None =>
       phase[inFlight[k]] \in Live \cup {"stillborn"} /\ key[inFlight[k]] = k

\* "Cancel an in-flight request by ID": the id that requestWithId returned aborts
\* its request, if it has not settled.
CancelAborts ==
  [][\A r \in outerIds : r \notin outerIds' /\ phase[r] \notin Settled => r \in aborted']_vars

\* Every request settles, joined ones included, even if its transport hangs: the
\* abandonment timer aborts it.
RequestsSettle ==
  \A r \in Requests : phase[r] # "idle" ~> phase[r] \in Settled
=============================================================================
