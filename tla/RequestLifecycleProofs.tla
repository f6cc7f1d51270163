------------------------ MODULE RequestLifecycleProofs ------------------------
(***************************************************************************)
(* Proofs about HTTPClient's requests, for any number of requests and      *)
(* keys: a request that is over holds nothing, unless a request            *)
(* interceptor rejected it; until dispose() or an abandonment timer drops  *)
(* a live request, at most one request per key is under way; and requests  *)
(* implement OneFlightPerKey.                                              *)
(***************************************************************************)
EXTENDS RequestLifecycle, TLAPS

rest == <<key, owner, inFlight, controllers, outerIds, aborted, armed, dropped>>

(***************************************************************************)
(* Types.                                                                  *)
(***************************************************************************)
LEMMA InitType == Init => TypeOK
BY DEF Init, TypeOK, Phases, Settled, Live

LEMMA DispatchType ==
  ASSUME TypeOK, NEW r \in Requests, NEW k \in Keys \cup {NoKey}, Dispatch(r, k)
  PROVE  /\ phase' \in [Requests -> Phases]
         /\ owner' \in [Requests -> Requests \cup {None}]
         /\ inFlight' \in [Keys -> Requests \cup {None}]
         /\ controllers' \in SUBSET Requests /\ armed' \in SUBSET Requests
BY DEF Dispatch, Goto, TypeOK, Phases, Live, Settled

LEMMA CompleteType ==
  ASSUME TypeOK, NEW r \in Requests, NEW ok \in BOOLEAN, Complete(r, ok)
  PROVE  TypeOK'
<1>1. phase' \in [Requests -> Phases]
  BY DEF Complete, Goto, TypeOK, Phases, Live, Settled
<1>2. inFlight' \in [Keys -> Requests \cup {None}]
  BY DEF Complete, Cleanup, TypeOK
<1>3. QED
  BY <1>1, <1>2 DEF Complete, Cleanup, TypeOK

LEMMA GotoType ==
  ASSUME TypeOK, NEW r \in Requests, NEW p \in Phases, Goto(r, p), UNCHANGED rest
  PROVE  TypeOK'
BY DEF Goto, TypeOK, rest

LEMMA NextType == TypeOK /\ [Next]_vars => TypeOK'
<1>. SUFFICES ASSUME TypeOK, [Next]_vars PROVE TypeOK'
  OBVIOUS
<1>1. ASSUME NEW r \in Requests, NEW k \in Keys \cup {NoKey}, Request(r, k)
      PROVE  TypeOK'
  <2>1. key' \in [Requests -> Keys \cup {NoKey}] /\ outerIds' \in SUBSET Requests
    BY <1>1 DEF Request, TypeOK
  <2>2. CASE Limited
    BY <1>1, <2>1, <2>2 DEF Request, TypeOK, Goto, Phases
  <2>3. CASE ~Limited
    BY <1>1, <2>1, <2>3, DispatchType DEF Request, TypeOK
  <2>4. QED
    BY <2>2, <2>3
<1>2. ASSUME NEW r \in Requests, Admitted(r) PROVE TypeOK'
  <2>1. key[r] \in Keys \cup {NoKey}
    BY DEF TypeOK
  <2>2. QED
    BY <1>2, <2>1, DispatchType DEF Admitted, TypeOK
<1>3. ASSUME NEW r \in Requests, Follow(r) PROVE TypeOK'
  <2>1. PICK p \in {"ok", "failed"} : Goto(r, p)
    BY <1>3 DEF Follow
  <2>2. p \in Phases /\ UNCHANGED rest
    BY <1>3 DEF Follow, Phases, Settled, rest
  <2>3. QED
    BY <2>1, <2>2, GotoType
<1>4. ASSUME NEW r \in Requests, ReleaseId(r) PROVE TypeOK'
  BY <1>4 DEF ReleaseId, TypeOK
<1>5. ASSUME NEW r \in Requests, NEW ok \in BOOLEAN, Prepared(r, ok) \/ Recovered(r, ok)
      PROVE  TypeOK'
  BY <1>5, GotoType DEF Prepared, Recovered, Phases, Live, Settled, rest
<1>6. ASSUME NEW r \in Requests, NEW ok \in BOOLEAN, Answered(r, ok) \/ Responded(r, ok)
      PROVE  TypeOK'
  BY <1>6, GotoType, CompleteType DEF Answered, Responded, Phases, Live, rest
<1>7. ASSUME NEW r \in Requests, Cancel(r) \/ CancelOuter(r) \/ Abandon(r) PROVE TypeOK'
  <2>1. CASE Cancel(r) \/ CancelOuter(r)
    BY <2>1 DEF Cancel, CancelOuter, TypeOK
  <2>2. CASE Abandon(r)
    <3>1. dropped' \in BOOLEAN
      BY <2>2 DEF Abandon, Drops
    <3>2. QED
      BY <2>2, <3>1 DEF Abandon, TypeOK
  <2>3. QED
    BY <1>7, <2>1, <2>2
<1>8. CASE CancelAll \/ Dispose
  <2>1. dropped' \in BOOLEAN
    BY <1>8 DEF CancelAll, Dispose, Drops, TypeOK
  <2>2. QED
    BY <1>8, <2>1 DEF CancelAll, Dispose, AbortAll, TypeOK
<1>9. CASE UNCHANGED vars
  BY <1>9 DEF vars, TypeOK
<1>10. QED
  BY <1>1, <1>2, <1>3, <1>4, <1>5, <1>6, <1>7, <1>8, <1>9 DEF Next, Step

\* Every variable keeps its type, whatever interrupts the requests.
THEOREM TypeCorrect == Spec => []TypeOK
BY InitType, NextType, PTL DEF Spec

-----------------------------------------------------------------------------
(***************************************************************************)
(* Resources.  ResourcesReleased is inductive once types are known: the    *)
(* finally block takes back all that a request holds, whoever owns the map *)
(* entry by then, and only a rejecting request interceptor escapes it.     *)
(***************************************************************************)
Holders == Live \cup {"stillborn"}

\* A request that neither holds anything nor was live may go anywhere.
LEMMA FreeMoves ==
  ASSUME TypeOK, ResourcesReleased, NEW r \in Requests, NEW p \in Phases, Goto(r, p),
         phase[r] \notin Holders,
         UNCHANGED <<key, inFlight, controllers, armed>>
  PROVE  ResourcesReleased'
<1>1. \A s \in Requests : phase[s] \in Holders => phase'[s] = phase[s]
  BY DEF Goto, TypeOK
<1>2. \A k \in Keys : inFlight[k] # None => inFlight[k] \in Requests
  BY DEF TypeOK
<1>3. QED
  BY <1>1, <1>2 DEF ResourcesReleased, Holders, TypeOK

LEMMA DispatchReleased ==
  ASSUME TypeOK, ResourcesReleased, NEW r \in Requests, NEW k \in Keys \cup {NoKey},
         Dispatch(r, k), phase[r] \notin Holders,
         key' = [key EXCEPT ![r] = k]
  PROVE  ResourcesReleased'
<1>1. /\ \A s \in Requests : phase[s] \in Holders => phase'[s] = phase[s] /\ key'[s] = key[s]
      /\ key'[r] = k
      /\ \A x \in Keys : inFlight[x] # None => inFlight[x] \in Requests
  BY DEF Dispatch, Goto, TypeOK
<1>2. CASE Goto(r, "joined") /\ UNCHANGED <<inFlight, controllers, armed>>
  BY <1>1, <1>2 DEF ResourcesReleased, Holders, TypeOK
<1>3. CASE /\ Goto(r, "preparing")
           /\ controllers' = controllers \cup {r} /\ armed' = armed \cup {r}
           /\ inFlight' = [x \in Keys |-> IF x = k THEN r ELSE inFlight[x]]
  <2>1. phase'[r] \in Holders
    BY <1>3 DEF Goto, TypeOK, Live, Holders
  <2>2. \A s \in controllers' \cup armed' : phase'[s] \in Holders
    BY <1>1, <1>3, <2>1 DEF ResourcesReleased, Holders, TypeOK
  <2>3. ASSUME NEW x \in Keys, inFlight'[x] # None
        PROVE  phase'[inFlight'[x]] \in Holders /\ key'[inFlight'[x]] = x
    <3>1. CASE x = k
      BY <1>1, <1>3, <2>1, <3>1
    <3>2. CASE x # k
      BY <1>1, <1>3, <2>3, <3>2 DEF ResourcesReleased, Holders
    <3>3. QED
      BY <3>1, <3>2
  <2>4. QED
    BY <2>2, <2>3 DEF ResourcesReleased, Holders
<1>4. QED
  BY <1>2, <1>3 DEF Dispatch

LEMMA CompleteReleased ==
  ASSUME TypeOK, ResourcesReleased, NEW r \in Requests, NEW ok \in BOOLEAN, Complete(r, ok)
  PROVE  ResourcesReleased'
<1>1. /\ \A s \in Requests \ {r} : phase'[s] = phase[s]
      /\ key' = key
      /\ controllers' = controllers \ {r} /\ armed' = armed \ {r}
      /\ inFlight' = [k \in Keys |-> IF k = key[r] THEN None ELSE inFlight[k]]
  BY DEF Complete, Cleanup, Goto, TypeOK
<1>2. \A s \in controllers' \cup armed' : phase'[s] \in Holders
  BY <1>1 DEF ResourcesReleased, Holders, TypeOK
<1>3. ASSUME NEW k \in Keys, inFlight'[k] # None
      PROVE  phase'[inFlight'[k]] \in Holders /\ key'[inFlight'[k]] = k
  <2>1. inFlight'[k] = inFlight[k] /\ k # key[r]
    BY <1>1, <1>3
  <2>2. phase[inFlight[k]] \in Holders /\ key[inFlight[k]] = k /\ inFlight[k] \in Requests
    BY <1>3, <2>1 DEF ResourcesReleased, Holders, TypeOK
  <2>3. QED
    BY <1>1, <2>1, <2>2
<1>4. QED
  BY <1>2, <1>3 DEF ResourcesReleased, Holders

LEMMA NextReleased ==
  TypeOK /\ ResourcesReleased /\ [Next]_vars => ResourcesReleased'
<1>. SUFFICES ASSUME TypeOK, ResourcesReleased, [Next]_vars
              PROVE  ResourcesReleased'
  OBVIOUS
<1>1. ASSUME NEW r \in Requests, NEW k \in Keys \cup {NoKey}, Request(r, k)
      PROVE  ResourcesReleased'
  <2>1. phase[r] = "idle" /\ phase[r] \notin Holders /\ key' = [key EXCEPT ![r] = k]
    BY <1>1 DEF Request, Live, Holders
  <2>2. CASE Limited
    <3>1. /\ \A s \in Requests : phase[s] \in Holders => phase'[s] = phase[s] /\ key'[s] = key[s]
          /\ UNCHANGED <<inFlight, controllers, armed>>
          /\ \A x \in Keys : inFlight[x] # None => inFlight[x] \in Requests
      BY <1>1, <2>1, <2>2 DEF Request, Goto, TypeOK
    <3>2. QED
      BY <3>1 DEF ResourcesReleased, Holders, TypeOK
  <2>3. CASE ~Limited
    BY <1>1, <2>1, <2>3, DispatchReleased DEF Request
  <2>4. QED
    BY <2>2, <2>3
<1>2. ASSUME NEW r \in Requests, Admitted(r) PROVE ResourcesReleased'
  <2>1. key[r] \in Keys \cup {NoKey} /\ key' = [key EXCEPT ![r] = key[r]]
    BY <1>2 DEF Admitted, TypeOK
  <2>2. phase[r] \notin Holders
    BY <1>2 DEF Admitted, Live, Holders
  <2>3. QED
    BY <1>2, <2>1, <2>2, DispatchReleased DEF Admitted
<1>3. ASSUME NEW r \in Requests, Follow(r) PROVE ResourcesReleased'
  BY <1>3, FreeMoves DEF Follow, Phases, Live, Settled, Holders
<1>4. ASSUME NEW r \in Requests, NEW ok \in BOOLEAN, Recovered(r, ok)
      PROVE  ResourcesReleased'
  BY <1>4, FreeMoves DEF Recovered, Phases, Live, Settled, Holders
<1>5. ASSUME NEW r \in Requests, NEW ok \in BOOLEAN,
             Prepared(r, ok) \/ (Answered(r, ok) /\ ok /\ ResponseInterceptors)
      PROVE  ResourcesReleased'
  <2>1. /\ \E p \in {"transport", "responding", "stillborn"} : phase' = [phase EXCEPT ![r] = p]
        /\ UNCHANGED <<key, inFlight, controllers, armed>>
    BY <1>5 DEF Prepared, Answered, Goto
  <2>2. \A s \in Requests : phase[s] \in Holders => phase'[s] \in Holders
    BY <2>1 DEF TypeOK, Live, Holders
  <2>3. \A k \in Keys : inFlight[k] # None => inFlight[k] \in Requests
    BY DEF TypeOK
  <2>4. QED
    BY <2>1, <2>2, <2>3 DEF ResourcesReleased, Holders, TypeOK
<1>6. ASSUME NEW r \in Requests, NEW ok \in BOOLEAN,
             (Answered(r, ok) /\ ~(ok /\ ResponseInterceptors)) \/ Responded(r, ok)
      PROVE  ResourcesReleased'
  BY <1>6, CompleteReleased DEF Answered, Responded
<1>7. ASSUME NEW r \in Requests, Cancel(r) \/ CancelOuter(r) \/ ReleaseId(r) \/ Abandon(r)
      PROVE  ResourcesReleased'
  <2>1. /\ UNCHANGED <<phase, key>> /\ controllers' \subseteq controllers /\ armed' \subseteq armed
        /\ \A k \in Keys : inFlight'[k] # None => inFlight'[k] = inFlight[k]
    BY <1>7 DEF Cancel, CancelOuter, ReleaseId, Abandon, TypeOK
  <2>2. QED
    BY <2>1 DEF ResourcesReleased, Holders
<1>8. CASE CancelAll \/ Dispose
  <2>1. /\ UNCHANGED <<phase, key>> /\ controllers' = {} /\ armed' = armed
        /\ \A k \in Keys : inFlight'[k] # None => inFlight'[k] = inFlight[k]
    BY <1>8 DEF CancelAll, Dispose, AbortAll
  <2>2. QED
    BY <2>1 DEF ResourcesReleased, Holders
<1>9. CASE UNCHANGED vars
  BY <1>9 DEF vars, ResourcesReleased
<1>10. QED
  BY <1>1, <1>2, <1>3, <1>4, <1>5, <1>6, <1>7, <1>8, <1>9 DEF Next, Step

\* A request that is over holds no controller, timer or map entry, whatever
\* cancel(), dispose() and the abandonment timer do, unless a request interceptor
\* rejected it.
THEOREM NothingLeaks == Spec => []ResourcesReleased
<1>1. Init => ResourcesReleased
  BY DEF Init, ResourcesReleased
<1>2. QED
  BY <1>1, TypeCorrect, NextReleased, PTL DEF Spec

-----------------------------------------------------------------------------
(***************************************************************************)
(* One request per key.  What makes it hold is that the deduplication map  *)
(* names the live request of every key: Dispatch enters it, and the        *)
(* finally block that takes the entry away is that request's own, as long  *)
(* as no live request has lost its entry to dispose() or to a timer.       *)
(***************************************************************************)
FlightRecorded ==
  \A r \in Requests : phase[r] \in Live /\ key[r] \in Keys => inFlight[key[r]] = r

\* No live request appears or changes its key, and the map does not change.
LEMMA RecordKept ==
  ASSUME FlightRecorded, UNCHANGED inFlight,
         \A s \in Requests : phase'[s] \in Live => phase[s] \in Live /\ key'[s] = key[s]
  PROVE  FlightRecorded'
BY DEF FlightRecorded

LEMMA DispatchRecorded ==
  ASSUME TypeOK, FlightRecorded, NEW r \in Requests, NEW k \in Keys \cup {NoKey},
         Dispatch(r, k), phase[r] \notin Live, key' = [key EXCEPT ![r] = k]
  PROVE  FlightRecorded'
<1>1. /\ \A s \in Requests \ {r} : phase'[s] = phase[s] /\ key'[s] = key[s]
      /\ key'[r] = k
  BY DEF Dispatch, Goto, TypeOK
<1>2. CASE Goto(r, "joined") /\ UNCHANGED inFlight
  <2>1. phase'[r] \notin Live
    BY <1>2 DEF Goto, TypeOK, Live
  <2>2. QED
    BY <1>1, <1>2, <2>1, RecordKept
<1>3. CASE /\ k \in Keys => inFlight[k] = None
           /\ inFlight' = [x \in Keys |-> IF x = k THEN r ELSE inFlight[x]]
  <2>1. SUFFICES ASSUME NEW s \in Requests, phase'[s] \in Live, key'[s] \in Keys
                 PROVE  inFlight'[key'[s]] = s
    BY DEF FlightRecorded
  <2>2. CASE s = r
    BY <1>1, <1>3, <2>1, <2>2
  <2>3. CASE s # r
    <3>1. inFlight[key[s]] = s /\ key'[s] = key[s]
      BY <1>1, <2>1, <2>3 DEF FlightRecorded
    <3>2. key[s] # k
      BY <1>1, <1>3, <2>1, <3>1, KeysAssumption
    <3>3. QED
      BY <1>3, <2>1, <3>1, <3>2
  <2>4. QED
    BY <2>2, <2>3
<1>4. QED
  BY <1>2, <1>3 DEF Dispatch

LEMMA CompleteRecorded ==
  ASSUME TypeOK, FlightRecorded, NEW r \in Requests, NEW ok \in BOOLEAN, Complete(r, ok),
         phase[r] \in Live
  PROVE  FlightRecorded'
<1>1. /\ \A s \in Requests \ {r} : phase'[s] = phase[s]
      /\ phase'[r] \notin Live /\ key' = key
      /\ inFlight' = [k \in Keys |-> IF k = key[r] THEN None ELSE inFlight[k]]
  BY DEF Complete, Cleanup, Goto, TypeOK, Live
<1>2. SUFFICES ASSUME NEW s \in Requests, phase'[s] \in Live, key'[s] \in Keys
               PROVE  inFlight'[key'[s]] = s
  BY DEF FlightRecorded
<1>3. s # r /\ inFlight[key[s]] = s
  BY <1>1, <1>2 DEF FlightRecorded
<1>4. key[s] # key[r]
  BY <1>1, <1>2, <1>3 DEF FlightRecorded
<1>5. QED
  BY <1>1, <1>2, <1>3, <1>4

LEMMA NextRecorded ==
  TypeOK /\ FlightRecorded /\ [Next]_vars /\ ~dropped' => FlightRecorded'
<1>. SUFFICES ASSUME TypeOK, FlightRecorded, [Next]_vars, ~dropped' PROVE FlightRecorded'
  OBVIOUS
<1>1. ASSUME NEW r \in Requests, NEW k \in Keys \cup {NoKey}, Request(r, k)
      PROVE  FlightRecorded'
  <2>1. phase[r] \notin Live /\ key' = [key EXCEPT ![r] = k]
    BY <1>1 DEF Request, Live
  <2>2. CASE Limited
    <3>1. /\ UNCHANGED inFlight /\ phase'[r] \notin Live
          /\ \A s \in Requests \ {r} : phase'[s] = phase[s] /\ key'[s] = key[s]
      BY <1>1, <2>1, <2>2 DEF Request, Goto, TypeOK, Live
    <3>2. QED
      BY <3>1, RecordKept
  <2>3. CASE ~Limited
    BY <1>1, <2>1, <2>3, DispatchRecorded DEF Request
  <2>4. QED
    BY <2>2, <2>3
<1>2. ASSUME NEW r \in Requests, Admitted(r) PROVE FlightRecorded'
  <2>1. key[r] \in Keys \cup {NoKey} /\ key' = [key EXCEPT ![r] = key[r]]
    BY <1>2 DEF Admitted, TypeOK
  <2>2. phase[r] \notin Live
    BY <1>2 DEF Admitted, Live
  <2>3. QED
    BY <1>2, <2>1, <2>2, DispatchRecorded DEF Admitted
<1>3. ASSUME NEW r \in Requests, NEW ok \in BOOLEAN,
             \/ Follow(r) \/ Recovered(r, ok) \/ Prepared(r, ok)
             \/ Answered(r, ok) /\ ok /\ ResponseInterceptors
      PROVE  FlightRecorded'
  <2>1. /\ UNCHANGED <<key, inFlight>>
        /\ \A s \in Requests : phase'[s] \in Live => phase[s] \in Live
    BY <1>3 DEF Follow, Recovered, Prepared, Answered, Goto, TypeOK, Live, Settled
  <2>2. QED
    BY <2>1, RecordKept
<1>4. ASSUME NEW r \in Requests, NEW ok \in BOOLEAN,
             (Answered(r, ok) /\ ~(ok /\ ResponseInterceptors)) \/ Responded(r, ok)
      PROVE  FlightRecorded'
  BY <1>4, CompleteRecorded DEF Answered, Responded, Live
<1>5. ASSUME NEW r \in Requests, Cancel(r) \/ CancelOuter(r) \/ ReleaseId(r)
      PROVE  FlightRecorded'
  BY <1>5, RecordKept DEF Cancel, CancelOuter, ReleaseId
<1>6. CASE CancelAll
  BY <1>6, RecordKept DEF CancelAll, AbortAll
<1>7. ASSUME NEW r \in Requests, Abandon(r) \/ Dispose PROVE FlightRecorded'
  <2>1. /\ UNCHANGED <<phase, key>>
        /\ \A k \in Keys : inFlight'[k] = inFlight[k] \/ inFlight'[k] = None
    BY <1>7 DEF Abandon, Dispose, AbortAll, TypeOK
  <2>2. \A k \in Keys : inFlight[k] # None /\ phase[inFlight[k]] \in Live => inFlight'[k] # None
    BY <1>7 DEF Abandon, Dispose, Drops
  <2>3. SUFFICES ASSUME NEW s \in Requests, phase[s] \in Live, key[s] \in Keys
                 PROVE  inFlight'[key[s]] = s
    BY <2>1 DEF FlightRecorded
  <2>4. inFlight[key[s]] = s /\ s # None
    BY <2>3, KeysAssumption DEF FlightRecorded
  <2>5. QED
    BY <2>1, <2>2, <2>3, <2>4
<1>8. CASE UNCHANGED vars
  BY <1>8, RecordKept DEF vars
<1>9. CASE Dispose
  BY <1>7, <1>9 DEF FlightRecorded
<1>10. QED
  BY <1>1, <1>2, <1>3, <1>4, <1>5, <1>6, <1>7, <1>8, <1>9 DEF Next, Step

\* Once dropped is set it stays set.
LEMMA DroppedStays == TypeOK /\ dropped /\ [Next]_vars => dropped'
<1>. SUFFICES ASSUME dropped, [Next]_vars PROVE dropped'
  OBVIOUS
<1>1. CASE UNCHANGED dropped
  BY <1>1
<1>2. CASE Drops
  BY <1>2 DEF Drops
<1>3. UNCHANGED dropped \/ Drops
  BY DEF Next, Step, Request, Admitted, Follow, ReleaseId, Prepared, Responded, Recovered,
         Answered, Complete, Cancel, CancelOuter, Abandon, CancelAll, Dispose, vars
<1>4. QED
  BY <1>1, <1>2, <1>3

\* Until dispose() or an abandonment timer drops a live request, at most one
\* request per key is under way: requests made meanwhile share it.
THEOREM OneRequestPerKey == Spec => []SingleFlight
<1> DEFINE Recorded == ~dropped => FlightRecorded
<1>1. Init => Recorded
  BY DEF Init, FlightRecorded, Live
<1>2. Recorded => SingleFlight
  BY DEF FlightRecorded, SingleFlight, SharedFlight
<1>3. TypeOK /\ Recorded /\ [Next]_vars => Recorded'
  BY NextRecorded, DroppedStays
<1>4. QED
  BY <1>1, <1>2, <1>3, TypeCorrect, PTL DEF Spec

-----------------------------------------------------------------------------
(***************************************************************************)
(* Requests implement OneFlightPerKey.  The map refers to requests that    *)
(* are in the air or stillborn, under their key (ResourcesReleased), and   *)
(* whoever joined has somebody to follow.                                  *)
(***************************************************************************)
FollowsSomebody == \A r \in Requests : phase[r] = "joined" => owner[r] \in Requests

LEMMA DispatchFollows ==
  ASSUME TypeOK, FollowsSomebody, NEW r \in Requests, NEW k \in Keys \cup {NoKey}, Dispatch(r, k)
  PROVE  FollowsSomebody'
BY DEF Dispatch, Goto, FollowsSomebody, TypeOK

LEMMA NextFollows == TypeOK /\ FollowsSomebody /\ [Next]_vars => FollowsSomebody'
<1>. SUFFICES ASSUME TypeOK, FollowsSomebody, [Next]_vars PROVE FollowsSomebody'
  OBVIOUS
<1>1. ASSUME NEW r \in Requests, NEW k \in Keys \cup {NoKey}, Request(r, k) PROVE FollowsSomebody'
  BY <1>1, DispatchFollows DEF Request, Goto, FollowsSomebody, TypeOK
<1>2. ASSUME NEW r \in Requests, Admitted(r) PROVE FollowsSomebody'
  BY <1>2, DispatchFollows DEF Admitted, TypeOK
<1>3. ASSUME UNCHANGED owner, \A r \in Requests : phase'[r] = "joined" => phase[r] = "joined"
      PROVE  FollowsSomebody'
  BY <1>3 DEF FollowsSomebody
<1>4. ASSUME NEW r \in Requests, Follow(r) \/ ReleaseId(r) PROVE FollowsSomebody'
  BY <1>3, <1>4 DEF Follow, ReleaseId, Goto, TypeOK
<1>5. ASSUME NEW r \in Requests, NEW ok \in BOOLEAN, Prepared(r, ok) \/ Recovered(r, ok)
      PROVE  FollowsSomebody'
  BY <1>3, <1>5 DEF Prepared, Recovered, Goto, TypeOK
<1>6. ASSUME NEW r \in Requests, NEW ok \in BOOLEAN, Answered(r, ok) \/ Responded(r, ok)
      PROVE  FollowsSomebody'
  BY <1>3, <1>6 DEF Answered, Responded, Complete, Goto, TypeOK
<1>7. ASSUME NEW r \in Requests, Cancel(r) \/ CancelOuter(r) \/ Abandon(r) PROVE FollowsSomebody'
  BY <1>3, <1>7 DEF Cancel, CancelOuter, Abandon
<1>8. CASE CancelAll \/ Dispose \/ UNCHANGED vars
  BY <1>3, <1>8 DEF CancelAll, Dispose, AbortAll, vars
<1>9. QED
  BY <1>1, <1>2, <1>4, <1>5, <1>6, <1>7, <1>8 DEF Next, Step

\* A request that moves within the air, or before it is dispatched, is no step of the call.
LEMMA Becomes ==
  ASSUME TypeOK, NEW r \in Requests, NEW p \in Phases, Goto(r, p), UNCHANGED key,
         AsCall(phase[r]) # "idle", AsCall(p) # "idle"
  PROVE  /\ AsCall(p) # AsCall(phase[r]) => Flights!Become(r, AsCall(p))
         /\ AsCall(p) = AsCall(phase[r]) => UNCHANGED [s \in Requests |-> AsCall(phase[s])]
         /\ UNCHANGED [s \in Requests |-> IF AsCall(phase[s]) = "idle" THEN NoKey ELSE key[s]]
<1>1. \A s \in Requests : AsCall(phase'[s]) = IF s = r THEN AsCall(p) ELSE AsCall(phase[s])
  BY DEF Goto, TypeOK
<1>2. AsCall(p) # AsCall(phase[r]) => Flights!Become(r, AsCall(p))
  BY <1>1 DEF Flights!Become
<1>3. QED
  BY <1>1, <1>2

\* _executeRequest is a flight of its own or joins the one in the map.
LEMMA DispatchFlies ==
  ASSUME TypeOK, ResourcesReleased, NEW r \in Requests, NEW k \in Keys \cup {NoKey},
         Dispatch(r, k), phase[r] \in {"idle", "limited"},
         key' = [key EXCEPT ![r] = k], UNCHANGED dropped
  PROVE  Flights!Next
<1>. DEFINE call == [s \in Requests |-> AsCall(phase[s])]
            keyOf == [s \in Requests |-> IF AsCall(phase[s]) = "idle" THEN NoKey ELSE key[s]]
<1>1. call[r] = "idle"
  BY DEF AsCall, Live
<1>2. CASE /\ k \in Keys /\ inFlight[k] # None
           /\ Goto(r, "joined") /\ owner' = [owner EXCEPT ![r] = inFlight[k]]
           /\ UNCHANGED <<inFlight, controllers, armed>>
  <2>1. \A s \in Requests : /\ AsCall(phase'[s]) = IF s = r THEN "joined" ELSE AsCall(phase[s])
                            /\ key'[s] = IF s = r THEN k ELSE key[s]
    BY <1>2 DEF Goto, TypeOK, AsCall, Live
  <2>2. call' = [call EXCEPT ![r] = "joined"] /\ keyOf' = [keyOf EXCEPT ![r] = k]
    BY <2>1
  <2>3. inFlight[k] \in Requests /\ phase[inFlight[k]] \in Live \cup {"stillborn"} /\ key[inFlight[k]] = k
    BY <1>2 DEF ResourcesReleased, TypeOK
  <2>4. call[inFlight[k]] \in {"flying", "spoilt"} /\ keyOf[inFlight[k]] = k
    BY <2>3 DEF AsCall, Live
  <2>5. Flights!Join(r, k)
    BY <1>1, <1>2, <2>2, <2>4 DEF Flights!Join, Flights!Become
  <2>6. QED
    BY <1>2, <2>5 DEF Flights!Next
<1>3. CASE /\ k \in Keys => inFlight[k] = None
           /\ Goto(r, "preparing")
           /\ inFlight' = [x \in Keys |-> IF x = k THEN r ELSE inFlight[x]]
           /\ UNCHANGED owner
  <2>1. \A s \in Requests : /\ AsCall(phase'[s]) = IF s = r THEN "flying" ELSE AsCall(phase[s])
                            /\ key'[s] = IF s = r THEN k ELSE key[s]
    BY <1>3 DEF Goto, TypeOK, AsCall, Live
  <2>2. call' = [call EXCEPT ![r] = "flying"] /\ keyOf' = [keyOf EXCEPT ![r] = k]
    BY <2>1
  <2>3. Flights!Fly(r, k)
    BY <1>1, <1>3, <2>2 DEF Flights!Fly, Flights!Become
  <2>4. QED
    BY <2>3 DEF Flights!Next
<1>4. QED
  BY <1>2, <1>3 DEF Dispatch

\* The finally block lands the flight, for good or with error interceptors to come.
LEMMA CompleteLands ==
  ASSUME TypeOK, NEW r \in Requests, NEW ok \in BOOLEAN, Complete(r, ok), phase[r] \in Live
  PROVE  Flights!Next
<1>1. PICK p \in {"ok", "failed", "recovering"} : Goto(r, p)
  BY DEF Complete
<1>2. AsCall(p) \in {"ok", "failed", "landed"} /\ AsCall(phase[r]) = "flying" /\ p \in Phases
  BY DEF AsCall, Live, Phases, Settled
<1>3. /\ Flights!Become(r, AsCall(p))
      /\ UNCHANGED [s \in Requests |-> IF AsCall(phase[s]) = "idle" THEN NoKey ELSE key[s]]
  BY <1>1, <1>2, Becomes DEF Complete
<1>4. Flights!Land(r, AsCall(p))
  BY <1>2, <1>3 DEF Flights!Land, Complete, Cleanup
<1>5. QED
  BY <1>2, <1>4 DEF Flights!Next, Flights!Outcomes

\* dispose() and the abandonment timer forget keys, and say so if it was in mid-air.
LEMMA DropForgets ==
  ASSUME TypeOK, ResourcesReleased, NEW ks \in SUBSET Keys,
         inFlight' = [k \in Keys |-> IF k \in ks THEN None ELSE inFlight[k]],
         UNCHANGED <<phase, key, owner>>, Drops
  PROVE  Flights!Next
<1>. DEFINE forgot == IF dropped THEN Keys ELSE {}
            call == [s \in Requests |-> AsCall(phase[s])]
<1>1. ASSUME NEW k \in ks, inFlight[k] # None, call[inFlight[k]] = "flying" PROVE dropped'
  <2>1. inFlight[k] \in Requests /\ phase[inFlight[k]] \in Live
    BY <1>1 DEF ResourcesReleased, TypeOK, AsCall
  <2>2. QED
    BY <1>1, <2>1 DEF Drops
<1>2. dropped => dropped'
  BY DEF Drops
<1>3. {k \in ks : inFlight[k] # None /\ call[inFlight[k]] = "flying"} \subseteq forgot'
  BY <1>1
<1>4. Flights!Forget(ks)
  BY <1>2, <1>3 DEF Flights!Forget
<1>5. QED
  BY <1>4 DEF Flights!Next

LEMMA StepFlies ==
  TypeOK /\ ResourcesReleased /\ FollowsSomebody /\ [Next]_vars => [Flights!Next]_(Flights!vars)
<1>. SUFFICES ASSUME TypeOK, ResourcesReleased, FollowsSomebody, [Next]_vars
              PROVE  [Flights!Next]_(Flights!vars)
  OBVIOUS
<1>. DEFINE call == [s \in Requests |-> AsCall(phase[s])]
            keyOf == [s \in Requests |-> IF AsCall(phase[s]) = "idle" THEN NoKey ELSE key[s]]
<1>1. ASSUME NEW r \in Requests, NEW k \in Keys \cup {NoKey}, Request(r, k)
      PROVE  [Flights!Next]_(Flights!vars)
  <2>1. CASE Limited
    <3>1. \A s \in Requests : /\ AsCall(phase'[s]) = AsCall(phase[s])
                              /\ AsCall(phase[s]) # "idle" => key'[s] = key[s]
      BY <1>1, <2>1 DEF Request, Goto, TypeOK, AsCall, Live
    <3>2. UNCHANGED <<call, keyOf>>
      BY <3>1
    <3>3. QED
      BY <1>1, <2>1, <3>2 DEF Request, Flights!vars
  <2>2. CASE ~Limited
    BY <1>1, <2>2, DispatchFlies DEF Request
  <2>3. QED
    BY <2>1, <2>2
<1>2. ASSUME NEW r \in Requests, Admitted(r) PROVE [Flights!Next]_(Flights!vars)
  <2>1. key[r] \in Keys \cup {NoKey} /\ key' = [key EXCEPT ![r] = key[r]]
    BY <1>2 DEF Admitted, TypeOK
  <2>2. QED
    BY <1>2, <2>1, DispatchFlies DEF Admitted
<1>3. ASSUME NEW r \in Requests, NEW ok \in BOOLEAN, Prepared(r, ok)
      PROVE  [Flights!Next]_(Flights!vars)
  <2>1. PICK p \in {"transport", "stillborn"} : Goto(r, p)
    BY <1>3 DEF Prepared
  <2>2. AsCall(p) \in {"flying", "spoilt"} /\ AsCall(phase[r]) = "flying" /\ p \in Phases
    BY <1>3 DEF Prepared, AsCall, Live, Phases, Settled
  <2>3. /\ AsCall(p) = "spoilt" => Flights!Become(r, "spoilt")
        /\ AsCall(p) = "flying" => UNCHANGED call
        /\ UNCHANGED keyOf
    BY <1>3, <2>1, <2>2, Becomes DEF Prepared
  <2>4. UNCHANGED <<owner, inFlight, dropped>>
    BY <1>3 DEF Prepared
  <2>5. QED
    BY <2>2, <2>3, <2>4 DEF Flights!Spoil, Flights!Next, Flights!vars
<1>4. ASSUME NEW r \in Requests, NEW ok \in BOOLEAN, Answered(r, ok) \/ Responded(r, ok)
      PROVE  [Flights!Next]_(Flights!vars)
  <2>1. CASE Complete(r, ok)
    BY <1>4, <2>1, CompleteLands DEF Answered, Responded, Live
  <2>2. CASE Goto(r, "responding") /\ UNCHANGED <<key, owner, inFlight, dropped>> /\ phase[r] = "transport"
    <3>1. AsCall("responding") = "flying" /\ AsCall(phase[r]) = "flying" /\ "responding" \in Phases
      BY <2>2 DEF AsCall, Live, Phases
    <3>2. UNCHANGED <<call, keyOf>>
      BY <2>2, <3>1, Becomes
    <3>3. QED
      BY <2>2, <3>2 DEF Flights!vars
  <2>3. QED
    BY <1>4, <2>1, <2>2 DEF Answered, Responded
<1>5. ASSUME NEW r \in Requests, NEW ok \in BOOLEAN, Recovered(r, ok)
      PROVE  [Flights!Next]_(Flights!vars)
  <2>1. PICK p \in {"ok", "failed"} : Goto(r, p)
    BY <1>5 DEF Recovered
  <2>2. AsCall(p) = p /\ AsCall(phase[r]) = "landed" /\ p \in Phases
    BY <1>5 DEF Recovered, AsCall, Live, Phases, Settled
  <2>3. Flights!Become(r, p) /\ UNCHANGED keyOf
    BY <1>5, <2>1, <2>2, Becomes DEF Recovered
  <2>4. Flights!Settle(r, p)
    BY <1>5, <2>2, <2>3 DEF Recovered, Flights!Settle
  <2>5. QED
    BY <2>4 DEF Flights!Next, Flights!Outcomes
<1>6. ASSUME NEW r \in Requests, Follow(r) PROVE [Flights!Next]_(Flights!vars)
  <2>. DEFINE p == IF phase[owner[r]] = "ok" THEN "ok" ELSE "failed"
  <2>1. owner[r] \in Requests /\ phase[r] = "joined" /\ phase[owner[r]] \in Settled /\ Goto(r, p)
    BY <1>6 DEF Follow, FollowsSomebody
  <2>2. AsCall(p) = p /\ AsCall(phase[r]) = "joined" /\ p \in Phases
    BY <2>1 DEF AsCall, Live, Phases, Settled
  <2>3. Flights!Become(r, p) /\ UNCHANGED keyOf
    BY <1>6, <2>1, <2>2, Becomes DEF Follow
  <2>4. call[owner[r]] \in {"ok", "failed", "spoilt"} /\ p = IF call[owner[r]] = "ok" THEN "ok" ELSE "failed"
    BY <2>1 DEF AsCall, Settled, Live
  <2>. HIDE DEF p
  <2>5. Flights!Share(r)
    BY <1>6, <2>2, <2>3, <2>4 DEF Follow, Flights!Share, Flights!Outcomes
  <2>6. QED
    BY <2>5 DEF Flights!Next
<1>7. ASSUME NEW r \in Requests, ReleaseId(r) \/ Cancel(r) \/ CancelOuter(r)
      PROVE  [Flights!Next]_(Flights!vars)
  BY <1>7 DEF ReleaseId, Cancel, CancelOuter, Flights!vars
<1>8. ASSUME NEW r \in Requests, Abandon(r) PROVE [Flights!Next]_(Flights!vars)
  <2>. DEFINE ks == IF r \in controllers THEN {key[r]} \cap Keys ELSE {}
  <2>1. inFlight' = [k \in Keys |-> IF k \in ks THEN None ELSE inFlight[k]]
    BY <1>8 DEF Abandon, TypeOK
  <2>2. ks \in SUBSET Keys
    OBVIOUS
  <2>. HIDE DEF ks
  <2>3. QED
    BY <1>8, <2>1, <2>2, DropForgets DEF Abandon
<1>9. CASE CancelAll
  BY <1>9 DEF CancelAll, AbortAll, Flights!vars
<1>10. CASE Dispose
  <2>1. inFlight' = [k \in Keys |-> IF k \in Keys THEN None ELSE inFlight[k]]
    BY <1>10 DEF Dispose
  <2>2. QED
    BY <1>10, <2>1, DropForgets DEF Dispose, AbortAll
<1>11. CASE UNCHANGED vars
  BY <1>11 DEF vars, Flights!vars
<1>12. QED
  BY <1>1, <1>2, <1>3, <1>4, <1>5, <1>6, <1>7, <1>8, <1>9, <1>10, <1>11 DEF Next, Step

\* Requests implement OneFlightPerKey: whatever is cancelled, recovered or abandoned, and
\* whatever fails, each is the flight for its key or joins the flight the map lists, in the
\* air or stillborn, and shares its outcome; and the map lists a flight until it lands,
\* unless dispose() or an abandonment timer forgets it.
THEOREM RequestsShareFlights == Spec => ImplementsOneFlightPerKey
<1>1. Init => FollowsSomebody
  BY DEF Init, FollowsSomebody
<1>2. Init => Flights!Init
  <2>. SUFFICES ASSUME Init PROVE Flights!Init
    OBVIOUS
  <2>1. \A r \in Requests : AsCall(phase[r]) = "idle"
    BY DEF Init, AsCall, Live
  <2>2. QED
    BY <2>1 DEF Init, Flights!Init
<1>3. QED
  BY <1>1, <1>2, NextFollows, StepFlies, TypeCorrect, NothingLeaks, PTL
     DEF Spec, ImplementsOneFlightPerKey, Flights!Spec
=============================================================================
