--------------------------- MODULE AuthInterceptor ---------------------------
(***************************************************************************)
(* createAuthInterceptor (src/utils/auth.ts): every request carries the    *)
(* stored token; the first one answered 401 refreshes it, and those that   *)
(* start or are answered 401 meanwhile wait in failedQueue.  The refresh,  *)
(* getAccessToken and the transport are awaits between which anything else *)
(* may run.                                                                *)
(*                                                                         *)
(* Tokens are numbered in the order refreshTokens obtains them; 0 stands   *)
(* for none, before the application has one.                               *)
(***************************************************************************)
EXTENDS Integers, FiniteSets

CONSTANTS
  Requests,              \* requests of the application
  RefreshCall,           \* the request refreshTokens makes with the client it is given
  RefreshThroughClient,  \* whether it makes it
  MaxExpired             \* bound: the last token the server lets expire

ASSUME RefreshAssumption ==
  RefreshCall \notin Requests /\ RefreshThroughClient \in BOOLEAN /\ MaxExpired \in Nat

VARIABLES
  phase,         \* the await a request is at, or how it ended
  retried,       \* requests with _retry
  header,        \* the token each request was last sent with, -1 before that
  isRefreshing,
  failedQueue,   \* requests whose promise is in failedQueue
  stored,        \* the token getAccessToken returns
  valid          \* whether the server accepts it; older ones are never accepted

vars == <<phase, retried, header, isRefreshing, failedQueue, stored, valid>>

All == Requests \cup {RefreshCall}
Settled == {"ok", "failed"}
Waiting == {"queued", "waiting"}   \* before being sent; after a 401
Phases == {"idle", "starting", "token", "sent", "refreshing"} \cup Waiting \cup Settled

TypeOK ==
  /\ phase \in [All -> Phases]
  /\ retried \in SUBSET All
  /\ header \in [All -> Int]
  /\ isRefreshing \in BOOLEAN
  /\ failedQueue \in SUBSET {r \in All : phase[r] \in Waiting}
  /\ stored \in Nat /\ valid \in BOOLEAN

Init ==
  /\ phase = [r \in All |-> "idle"] /\ retried = {} /\ header = [r \in All |-> -1]
  /\ isRefreshing = FALSE /\ failedQueue = {}
  /\ stored \in {0, 1} /\ valid \in BOOLEAN /\ (stored = 0 => ~valid)

Goto(r, p) == phase' = [phase EXCEPT ![r] = p]

-----------------------------------------------------------------------------
\* client.request(), up to the await before the request interceptor.
Start(r) ==
  /\ r \in Requests /\ phase[r] = "idle"
  /\ Goto(r, "starting")
  /\ UNCHANGED <<retried, header, isRefreshing, failedQueue, stored, valid>>

\* The request interceptor: wait for the refresh under way, or ask for the token.
OnRequest(r) ==
  /\ phase[r] = "starting"
  /\ IF isRefreshing
     THEN Goto(r, "queued") /\ failedQueue' = failedQueue \cup {r}
     ELSE Goto(r, "token") /\ UNCHANGED failedQueue
  /\ UNCHANGED <<retried, header, isRefreshing, stored, valid>>

\* getAccessToken() resolves and the request is sent, without the header if there is no
\* token.
Attach(r) ==
  /\ phase[r] = "token"
  /\ Goto(r, "sent") /\ header' = [header EXCEPT ![r] = stored]
  /\ UNCHANGED <<retried, isRefreshing, failedQueue, stored, valid>>

\* getAccessToken() throws or rejects.
TokenUnavailable(r) ==
  /\ phase[r] = "token"
  /\ Goto(r, "failed")
  /\ UNCHANGED <<retried, header, isRefreshing, failedQueue, stored, valid>>

\* Mutant of StartRefresh: isRefreshing is set only after the refresh has begun.
StartRefreshUnmarked(r) ==
  /\ phase' = [phase EXCEPT ![r] = "refreshing",
                            ![RefreshCall] = IF RefreshThroughClient THEN "starting" ELSE @]
  /\ retried' = retried \cup {r} /\ UNCHANGED <<isRefreshing, failedQueue>>

\* The 401 of a request that finds no refresh under way: it calls refreshTokens.
StartRefresh(r) ==
  /\ phase' = [phase EXCEPT ![r] = "refreshing",
                            ![RefreshCall] = IF RefreshThroughClient THEN "starting" ELSE @]
  /\ retried' = retried \cup {r} /\ isRefreshing' = TRUE
  /\ UNCHANGED failedQueue

\* The server answers 401, and the response interceptor handles it.
Denied(r) ==
  /\ phase[r] = "sent"
  /\ ~(valid /\ header[r] = stored)
  /\ \/ /\ r \in retried
        /\ Goto(r, "failed") /\ UNCHANGED <<retried, isRefreshing, failedQueue>>
     \/ /\ r \notin retried /\ isRefreshing
        /\ Goto(r, "waiting") /\ failedQueue' = failedQueue \cup {r}
        /\ UNCHANGED <<retried, isRefreshing>>
     \/ /\ r \notin retried /\ ~isRefreshing
        /\ StartRefresh(r)
  /\ UNCHANGED <<header, stored, valid>>

\* The server accepts the token, or the request fails for another reason.
Answered(r, ok) ==
  /\ phase[r] = "sent"
  /\ ok => valid /\ header[r] = stored
  /\ Goto(r, IF ok THEN "ok" ELSE "failed")
  /\ UNCHANGED <<retried, header, isRefreshing, failedQueue, stored, valid>>

\* Mutant of Resumed: requests that wait before being sent are not woken up.
ResumedPartly(q, r, s) ==
  IF s = r \/ (s \in q /\ phase[s] = "waiting") THEN "starting" ELSE phase[s]

\* Where a request s goes when the refresh of r succeeds and processQueue resolves q.
Resumed(q, r, s) ==
  IF s = r \/ (s \in q /\ phase[s] = "waiting") THEN "starting"
  ELSE IF s \in q THEN "token" ELSE phase[s]

\* refreshTokens() may settle: the request it makes, if any, has.
RefreshReady(ok) ==
  RefreshThroughClient => phase[RefreshCall] = (IF ok THEN "ok" ELSE "failed")

\* refreshTokens() has stored the new token and resolves.
Refreshed(r) ==
  /\ phase[r] = "refreshing" /\ RefreshReady(TRUE)
  /\ isRefreshing' = FALSE
  /\ phase' = [s \in All |-> Resumed(failedQueue, r, s)]
  /\ failedQueue' = {}
  /\ stored' = stored + 1 /\ valid' = TRUE
  /\ UNCHANGED <<retried, header>>

\* Mutant of RefreshFailed: processQueue rejects the promises but keeps the queue.
RefreshFailedKeepsQueue(r) ==
  /\ phase[r] = "refreshing" /\ RefreshReady(FALSE)
  /\ isRefreshing' = FALSE
  /\ phase' = [s \in All |-> IF s = r \/ s \in failedQueue THEN "failed" ELSE phase[s]]
  /\ UNCHANGED <<retried, header, failedQueue, stored, valid>>

\* Mutant of RefreshFailed: processQueue resolves the promises, without a token.
RefreshFailedResolves(r) ==
  /\ phase[r] = "refreshing" /\ RefreshReady(FALSE)
  /\ isRefreshing' = FALSE
  /\ phase' = [[s \in All |-> Resumed(failedQueue, r, s)] EXCEPT ![r] = "failed"]
  /\ failedQueue' = {}
  /\ UNCHANGED <<retried, header, stored, valid>>

\* refreshTokens() rejects.
RefreshFailed(r) ==
  /\ phase[r] = "refreshing" /\ RefreshReady(FALSE)
  /\ isRefreshing' = FALSE
  /\ phase' = [s \in All |-> IF s = r \/ s \in failedQueue THEN "failed" ELSE phase[s]]
  /\ failedQueue' = {}
  /\ UNCHANGED <<retried, header, stored, valid>>

\* The server lets the token expire.
Expire ==
  /\ valid /\ stored <= MaxExpired
  /\ valid' = FALSE
  /\ UNCHANGED <<phase, retried, header, isRefreshing, failedQueue, stored>>

Step(r) ==
  \/ OnRequest(r) \/ Attach(r) \/ TokenUnavailable(r)
  \/ Denied(r) \/ Refreshed(r) \/ RefreshFailed(r)
  \/ \E ok \in BOOLEAN : Answered(r, ok)

Next ==
  \/ \E r \in All : Start(r) \/ Step(r)
  \/ Expire

Spec == Init /\ [][Next]_vars

\* Transports, getAccessToken and refreshTokens settle.
FairSpec == Spec /\ \A r \in All : WF_vars(Step(r))

-----------------------------------------------------------------------------
(***************************************************************************)
(* Properties.                                                             *)
(***************************************************************************)
\* Nobody is left in failedQueue: a request waits exactly as long as its promise
\* is there, and while one is, one refresh, and only one, is under way that will
\* resolve or reject it.
WaitersServed ==
  /\ failedQueue = {r \in All : phase[r] \in Waiting}
  /\ isRefreshing <=> \E r \in All : phase[r] = "refreshing"
  /\ failedQueue # {} => isRefreshing
  /\ \A r, s \in All : phase[r] = "refreshing" /\ phase[s] = "refreshing" => r = s

\* A request is never sent again with a token the server has refused it with, or
\* an older one, however refreshes, new requests and late 401s interleave.
ResentWithNewerToken ==
  [][\A r \in All : phase[r] # "sent" /\ phase'[r] = "sent" => header'[r] > header[r]]_vars

\* Every request settles, those waiting for a refresh included.
RequestsSettle == \A r \in Requests : phase[r] # "idle" ~> phase[r] \in Settled
=============================================================================
