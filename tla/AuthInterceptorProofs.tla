------------------------ MODULE AuthInterceptorProofs ------------------------
(***************************************************************************)
(* Proofs about the token refresh, for any number of requests and whether  *)
(* or not refreshTokens uses the client: nobody is forgotten in            *)
(* failedQueue, and no request is sent twice with the same token.          *)
(***************************************************************************)
EXTENDS AuthInterceptor, TLAPS

(***************************************************************************)
(* The inductive invariant.  A request refreshTokens makes through the     *)
(* client gets no further than failedQueue: the refresh that would take it *)
(* out waits for it.                                                       *)
(***************************************************************************)
RefreshCallWaits ==
  /\ phase[RefreshCall] \in {"idle", "starting", "queued"}
  /\ phase[RefreshCall] # "idle" => RefreshThroughClient /\ isRefreshing
  /\ RefreshThroughClient /\ isRefreshing => phase[RefreshCall] # "idle"

Inv == TypeOK /\ WaitersServed /\ RefreshCallWaits

LEMMA InitInv == Init => Inv
<1>. SUFFICES ASSUME Init PROVE Inv
  OBVIOUS
<1>. USE DEF Init, Phases, Waiting, Settled, All
<1>1. phase \in [All -> Phases] /\ header \in [All -> Int]
  OBVIOUS
<1>2. \A r \in All : phase[r] = "idle"
  OBVIOUS
<1>3. TypeOK
  <2>1. stored \in Nat
    OBVIOUS
  <2>2. isRefreshing \in BOOLEAN /\ valid \in BOOLEAN /\ retried \in SUBSET All
    OBVIOUS
  <2>3. failedQueue \in SUBSET {r \in All : phase[r] \in Waiting}
    OBVIOUS
  <2>4. QED
    BY <1>1, <2>1, <2>2, <2>3 DEF TypeOK
<1>4. WaitersServed
  BY <1>2 DEF WaitersServed
<1>5. RefreshCallWaits
  BY <1>2 DEF RefreshCallWaits
<1>6. QED
  BY <1>3, <1>4, <1>5 DEF Inv

\* A step that takes one request, neither waiting nor refreshing, somewhere it
\* neither waits nor refreshes.
LEMMA PlainMove ==
  ASSUME Inv, NEW r \in All, NEW p \in Phases \ (Waiting \cup {"refreshing"}),
         Goto(r, p), phase[r] \notin Waiting \cup {"refreshing"},
         r = RefreshCall => p \in {"idle", "starting", "queued"} /\ p = phase[r],
         retried' \in SUBSET All, header' \in [All -> Int],
         UNCHANGED <<isRefreshing, failedQueue, stored, valid>>
  PROVE  Inv'
<1>1. /\ phase' \in [All -> Phases]
      /\ phase'[r] = p
      /\ \A s \in All \ {r} : phase'[s] = phase[s]
  BY DEF Inv, TypeOK, Goto
<1>2. \A s \in All : /\ phase'[s] \in Waiting <=> phase[s] \in Waiting
                     /\ phase'[s] = "refreshing" <=> phase[s] = "refreshing"
  BY <1>1
<1>3. TypeOK'
  BY <1>1, <1>2 DEF Inv, TypeOK
<1>4. WaitersServed'
  BY <1>2 DEF Inv, WaitersServed
<1>5. RefreshCallWaits'
  BY <1>1 DEF Inv, RefreshCallWaits, All
<1>6. QED
  BY <1>3, <1>4, <1>5 DEF Inv

\* A request joins failedQueue while a refresh is under way.
LEMMA JoinQueue ==
  ASSUME Inv, isRefreshing, NEW r \in All, NEW p \in Waiting,
         Goto(r, p), phase[r] \notin Waiting \cup {"refreshing"},
         r = RefreshCall => p = "queued" /\ phase[r] = "starting",
         failedQueue' = failedQueue \cup {r},
         UNCHANGED <<retried, header, isRefreshing, stored, valid>>
  PROVE  Inv'
<1>1. /\ phase' \in [All -> Phases]
      /\ phase'[r] = p
      /\ \A s \in All \ {r} : phase'[s] = phase[s]
  BY DEF Inv, TypeOK, Goto, Phases
<1>2. \A s \in All : /\ phase'[s] \in Waiting <=> phase[s] \in Waiting \/ s = r
                     /\ phase'[s] = "refreshing" <=> phase[s] = "refreshing"
  BY <1>1 DEF Waiting
<1>3. TypeOK'
  BY <1>1, <1>2 DEF Inv, TypeOK
<1>4. WaitersServed'
  BY <1>2 DEF Inv, WaitersServed
<1>5. RefreshCallWaits'
  BY <1>1 DEF Inv, RefreshCallWaits, All
<1>6. QED
  BY <1>3, <1>4, <1>5 DEF Inv

\* The first 401 starts a refresh.
LEMMA FirstDenied ==
  ASSUME Inv, ~isRefreshing, NEW r \in All, phase[r] = "sent", StartRefresh(r),
         UNCHANGED <<header, stored, valid>>
  PROVE  Inv'
<1>1. r # RefreshCall /\ RefreshCall \in All /\ phase[RefreshCall] = "idle"
  BY DEF Inv, RefreshCallWaits, All
<1>2. /\ phase' \in [All -> Phases]
      /\ phase'[r] = "refreshing"
      /\ phase'[RefreshCall] = (IF RefreshThroughClient THEN "starting" ELSE "idle")
      /\ \A s \in All \ {r, RefreshCall} : phase'[s] = phase[s]
  BY <1>1 DEF Inv, TypeOK, StartRefresh, Phases
<1>3. /\ failedQueue = {} /\ \A s \in All : phase[s] \notin Waiting /\ phase[s] # "refreshing"
      /\ isRefreshing' = TRUE /\ failedQueue' = {}
  BY DEF Inv, WaitersServed, StartRefresh
<1>4. \A s \in All : /\ phase'[s] \notin Waiting
                     /\ phase'[s] = "refreshing" <=> s = r
  BY <1>1, <1>2, <1>3 DEF Waiting
<1>5. TypeOK'
  BY <1>2, <1>3 DEF Inv, TypeOK, StartRefresh
<1>6. WaitersServed'
  BY <1>3, <1>4 DEF WaitersServed
<1>7. RefreshCallWaits'
  BY <1>2, <1>3 DEF RefreshCallWaits
<1>8. QED
  BY <1>5, <1>6, <1>7 DEF Inv

\* The refresh of r ends, and with it the wait of everybody.
LEMMA RefreshEnds ==
  ASSUME Inv, NEW r \in All, phase[r] = "refreshing", ~RefreshThroughClient,
         phase' \in [All -> Phases],
         \A s \in All : phase'[s] \notin Waiting \cup {"refreshing"},
         phase'[RefreshCall] = phase[RefreshCall],
         isRefreshing' = FALSE, failedQueue' = {},
         stored' \in Nat, valid' \in BOOLEAN, UNCHANGED <<retried, header>>
  PROVE  Inv'
<1>1. TypeOK'
  BY DEF Inv, TypeOK
<1>2. WaitersServed'
  BY DEF WaitersServed
<1>3. RefreshCallWaits'
  BY DEF Inv, RefreshCallWaits
<1>4. QED
  BY <1>1, <1>2, <1>3 DEF Inv

\* Only a refresh that does not use the client ends.
LEMMA NotReentrant ==
  ASSUME Inv, NEW r \in All, phase[r] = "refreshing", NEW ok \in BOOLEAN, RefreshReady(ok)
  PROVE  /\ ~RefreshThroughClient
         /\ phase[RefreshCall] = "idle" /\ r # RefreshCall /\ RefreshCall \notin failedQueue
         /\ \A s \in All : s \in failedQueue <=> phase[s] \in Waiting
         /\ \A s \in All : phase[s] = "refreshing" <=> s = r
<1>1. ~RefreshThroughClient
  BY DEF Inv, RefreshCallWaits, RefreshReady, TypeOK
<1>2. phase[RefreshCall] = "idle"
  BY <1>1 DEF Inv, RefreshCallWaits
<1>3. QED
  BY <1>1, <1>2 DEF Inv, WaitersServed, All, Waiting

LEMMA NextInv == Inv /\ [Next]_vars => Inv'
<1>. SUFFICES ASSUME Inv, [Next]_vars PROVE Inv'
  OBVIOUS
<1>1. ASSUME NEW r \in All, Start(r) PROVE Inv'
  <2>1. r # RefreshCall /\ retried \in SUBSET All /\ header \in [All -> Int]
    BY <1>1, RefreshAssumption DEF Start, Inv, TypeOK
  <2>2. QED
    BY <1>1, <2>1, PlainMove DEF Start, Phases, Waiting, Settled
<1>2. ASSUME NEW r \in All, OnRequest(r) PROVE Inv'
  <2>1. CASE isRefreshing
    BY <1>2, <2>1, JoinQueue DEF OnRequest, Waiting
  <2>2. CASE ~isRefreshing
    <3>1. r # RefreshCall /\ retried \in SUBSET All /\ header \in [All -> Int]
      BY <1>2, <2>2 DEF OnRequest, Inv, RefreshCallWaits, TypeOK
    <3>2. QED
      BY <1>2, <2>2, <3>1, PlainMove DEF OnRequest, Phases, Waiting, Settled
  <2>3. QED
    BY <2>1, <2>2
<1>3. ASSUME NEW r \in All, NEW ok \in BOOLEAN,
             Attach(r) \/ TokenUnavailable(r) \/ Answered(r, ok)
      PROVE  Inv'
  <2>1. /\ r # RefreshCall
        /\ retried' \in SUBSET All /\ header' \in [All -> Int]
        /\ UNCHANGED <<isRefreshing, failedQueue, stored, valid>>
        /\ phase[r] \in {"token", "sent"}
    BY <1>3 DEF Attach, TokenUnavailable, Answered, Inv, RefreshCallWaits, TypeOK
  <2>2. \E p \in {"sent", "ok", "failed"} : Goto(r, p)
    BY <1>3 DEF Attach, TokenUnavailable, Answered
  <2>3. QED
    BY <2>1, <2>2, PlainMove DEF Phases, Waiting, Settled
<1>4. ASSUME NEW r \in All, Denied(r) PROVE Inv'
  <2>1. /\ r # RefreshCall /\ phase[r] = "sent"
        /\ retried \in SUBSET All /\ header \in [All -> Int]
    BY <1>4 DEF Denied, Inv, RefreshCallWaits, TypeOK
  <2>2. CASE Goto(r, "failed") /\ UNCHANGED <<retried, isRefreshing, failedQueue>>
    BY <1>4, <2>1, <2>2, PlainMove DEF Denied, Phases, Waiting, Settled
  <2>3. CASE isRefreshing /\ Goto(r, "waiting") /\ failedQueue' = failedQueue \cup {r}
             /\ UNCHANGED <<retried, isRefreshing>>
    BY <1>4, <2>1, <2>3, JoinQueue DEF Denied, Waiting
  <2>4. CASE ~isRefreshing /\ StartRefresh(r)
    BY <1>4, <2>1, <2>4, FirstDenied DEF Denied
  <2>5. QED
    BY <1>4, <2>2, <2>3, <2>4 DEF Denied
<1>5. ASSUME NEW r \in All, Refreshed(r) PROVE Inv'
  <2>1. /\ ~RefreshThroughClient
        /\ phase[RefreshCall] = "idle" /\ r # RefreshCall /\ RefreshCall \notin failedQueue
        /\ \A s \in All : s \in failedQueue <=> phase[s] \in Waiting
        /\ \A s \in All : phase[s] = "refreshing" <=> s = r
    BY <1>5, NotReentrant DEF Refreshed
  <2>2. \A s \in All : Resumed(failedQueue, r, s) \in Phases \ (Waiting \cup {"refreshing"})
    BY <2>1 DEF Resumed, Phases, Waiting, Settled, Inv, TypeOK
  <2>3. /\ phase' \in [All -> Phases]
        /\ \A s \in All : phase'[s] \notin Waiting \cup {"refreshing"}
    BY <1>5, <2>2 DEF Refreshed
  <2>4. phase'[RefreshCall] = phase[RefreshCall]
    BY <1>5, <2>1 DEF Refreshed, Resumed, All
  <2>5. stored' \in Nat
    BY <1>5 DEF Refreshed, Inv, TypeOK
  <2>6. QED
    BY <1>5, <2>1, <2>3, <2>4, <2>5, RefreshEnds DEF Refreshed
<1>6. ASSUME NEW r \in All, RefreshFailed(r) PROVE Inv'
  <2>1. /\ ~RefreshThroughClient
        /\ phase[RefreshCall] = "idle" /\ r # RefreshCall /\ RefreshCall \notin failedQueue
        /\ \A s \in All : s \in failedQueue <=> phase[s] \in Waiting
        /\ \A s \in All : phase[s] = "refreshing" <=> s = r
    BY <1>6, NotReentrant DEF RefreshFailed
  <2>2. /\ phase' \in [All -> Phases]
        /\ \A s \in All : phase'[s] \notin Waiting \cup {"refreshing"}
    BY <1>6, <2>1 DEF RefreshFailed, Phases, Waiting, Settled, Inv, TypeOK
  <2>3. phase'[RefreshCall] = phase[RefreshCall]
    BY <1>6, <2>1 DEF RefreshFailed, All
  <2>4. stored' \in Nat /\ valid' \in BOOLEAN
    BY <1>6 DEF RefreshFailed, Inv, TypeOK
  <2>5. QED
    BY <1>6, <2>1, <2>2, <2>3, <2>4, RefreshEnds DEF RefreshFailed
<1>7. CASE Expire
  BY <1>7 DEF Expire, Inv, TypeOK, WaitersServed, RefreshCallWaits
<1>8. CASE UNCHANGED vars
  BY <1>8 DEF vars, Inv, TypeOK, WaitersServed, RefreshCallWaits
<1>9. QED
  BY <1>1, <1>2, <1>3, <1>4, <1>5, <1>6, <1>7, <1>8 DEF Next, Step

LEMMA Invariance == Spec => []Inv
BY InitInv, NextInv, PTL DEF Spec

\* Every variable keeps its type.
THEOREM TypeCorrect == Spec => []TypeOK
<1>1. Inv => TypeOK
  BY DEF Inv
<1>2. QED
  BY <1>1, Invariance, PTL

\* Nobody is forgotten in failedQueue, even when the refresh can never end.
THEOREM NobodyForgotten == Spec => []WaitersServed
<1>1. Inv => WaitersServed
  BY DEF Inv
<1>2. QED
  BY <1>1, Invariance, PTL

\* A refresh that makes its request through the client stays under way: its
\* request waits in failedQueue, or is about to.
THEOREM ReentrantRefreshBlocks ==
  Spec => [](RefreshThroughClient /\ isRefreshing => phase[RefreshCall] \in {"starting", "queued"})
<1>1. Inv => (RefreshThroughClient /\ isRefreshing => phase[RefreshCall] \in {"starting", "queued"})
  BY DEF Inv, RefreshCallWaits
<1>2. QED
  BY <1>1, Invariance, PTL

-----------------------------------------------------------------------------
(***************************************************************************)
(* Tokens.  A request about to be sent was last sent with an older token   *)
(* than the one stored: a request goes back to be sent only when a refresh *)
(* has stored a newer one.                                                 *)
(***************************************************************************)
ToBeSent == {"idle", "starting", "queued", "token"}

HeadersOlder ==
  \A r \in All : header[r] <= stored /\ (phase[r] \in ToBeSent => header[r] < stored)

\* A step under which header and stored stay, and nobody is to be sent who was not.
LEMMA HeadersKept ==
  ASSUME HeadersOlder, UNCHANGED <<header, stored>>,
         \A s \in All : phase'[s] \in ToBeSent => phase[s] \in ToBeSent
  PROVE  HeadersOlder'
BY DEF HeadersOlder

LEMMA NextHeaders == Inv /\ HeadersOlder /\ [Next]_vars => HeadersOlder'
<1>. SUFFICES ASSUME Inv, HeadersOlder, [Next]_vars PROVE HeadersOlder'
  OBVIOUS
<1>. USE DEF ToBeSent
<1>0. phase \in [All -> Phases] /\ header \in [All -> Int] /\ stored \in Nat
  BY DEF Inv, TypeOK
<1>1. ASSUME NEW r \in All, NEW ok \in BOOLEAN,
             Start(r) \/ OnRequest(r) \/ TokenUnavailable(r) \/ Answered(r, ok)
      PROVE  HeadersOlder'
  <2>1. /\ UNCHANGED <<header, stored>>
        /\ \A s \in All : phase'[s] \in ToBeSent => phase[s] \in ToBeSent
    BY <1>0, <1>1 DEF Start, OnRequest, TokenUnavailable, Answered, Goto
  <2>2. QED
    BY <2>1, HeadersKept
<1>2. ASSUME NEW r \in All, Attach(r) PROVE HeadersOlder'
  BY <1>0, <1>2 DEF Attach, Goto, HeadersOlder
<1>3. ASSUME NEW r \in All, Denied(r) PROVE HeadersOlder'
  <2>1. CASE \E p \in {"failed", "waiting"} : Goto(r, p)
    <3>1. \A s \in All : phase'[s] \in ToBeSent => phase[s] \in ToBeSent
      BY <1>0, <2>1 DEF Goto
    <3>2. QED
      BY <1>3, <3>1, HeadersKept DEF Denied
  <2>2. CASE ~isRefreshing /\ StartRefresh(r)
    <3>1. r # RefreshCall /\ RefreshCall \in All /\ phase[RefreshCall] = "idle"
      BY <1>3, <2>2 DEF Denied, Inv, RefreshCallWaits, All
    <3>2. \A s \in All : phase'[s] \in ToBeSent => phase[s] \in ToBeSent
      BY <1>0, <2>2, <3>1 DEF StartRefresh
    <3>3. QED
      BY <1>3, <3>2, HeadersKept DEF Denied
  <2>3. QED
    BY <1>3, <2>1, <2>2 DEF Denied
<1>4. ASSUME NEW r \in All, Refreshed(r) PROVE HeadersOlder'
  BY <1>0, <1>4 DEF Refreshed, HeadersOlder
<1>5. ASSUME NEW r \in All, RefreshFailed(r) PROVE HeadersOlder'
  <2>1. \A s \in All : phase'[s] \in ToBeSent => phase[s] \in ToBeSent
    BY <1>5 DEF RefreshFailed
  <2>2. QED
    BY <1>5, <2>1, HeadersKept DEF RefreshFailed
<1>6. CASE Expire \/ UNCHANGED vars
  BY <1>6, HeadersKept DEF Expire, vars
<1>7. QED
  BY <1>1, <1>2, <1>3, <1>4, <1>5, <1>6 DEF Next, Step

\* Only Attach sends a request.
LEMMA OnlyAttachSends ==
  ASSUME Inv, Next, NEW r \in All, phase[r] # "sent", phase'[r] = "sent"
  PROVE  Attach(r)
<1>0. phase \in [All -> Phases] /\ RefreshCall \in All
  BY DEF Inv, TypeOK, All
<1>1. ASSUME NEW s \in All, NEW ok \in BOOLEAN,
             Start(s) \/ OnRequest(s) \/ TokenUnavailable(s) \/ Answered(s, ok)
      PROVE  FALSE
  BY <1>0, <1>1 DEF Start, OnRequest, TokenUnavailable, Answered, Goto
<1>2. ASSUME NEW s \in All, Denied(s) PROVE FALSE
  BY <1>0, <1>2 DEF Denied, StartRefresh, Goto
<1>3. ASSUME NEW s \in All, Refreshed(s) \/ RefreshFailed(s) PROVE FALSE
  BY <1>3 DEF Refreshed, RefreshFailed, Resumed
<1>4. CASE Expire
  BY <1>4 DEF Expire
<1>5. ASSUME NEW s \in All, Attach(s) PROVE Attach(r)
  BY <1>0, <1>5 DEF Attach, Goto
<1>6. QED
  BY <1>1, <1>2, <1>3, <1>4, <1>5 DEF Next, Step

\* No request is sent again with a token it has been refused with.
THEOREM NeverResentWithOldToken == Spec => ResentWithNewerToken
<1>1. Init => HeadersOlder
  BY DEF Init, HeadersOlder
<1>2. ASSUME Inv, HeadersOlder, [Next]_vars
      PROVE  [\A r \in All : phase[r] # "sent" /\ phase'[r] = "sent" => header'[r] > header[r]]_vars
  <2>1. SUFFICES ASSUME Next, NEW r \in All, phase[r] # "sent", phase'[r] = "sent"
                 PROVE  header'[r] > header[r]
    BY <1>2 DEF vars
  <2>2. Attach(r)
    BY <1>2, <2>1, OnlyAttachSends
  <2>3. header[r] < stored /\ header \in [All -> Int] /\ stored \in Nat
    BY <1>2, <2>2 DEF Attach, HeadersOlder, ToBeSent, Inv, TypeOK
  <2>4. QED
    BY <2>2, <2>3 DEF Attach
<1>3. QED
  BY <1>1, <1>2, Invariance, NextHeaders, PTL DEF Spec, ResentWithNewerToken
=============================================================================
