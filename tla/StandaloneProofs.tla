--------------------------- MODULE StandaloneProofs ---------------------------
(***************************************************************************)
(* Proofs about the parts that Standalone puts side by side, each from an  *)
(* inductive invariant of its own: that the WebSocket and the SSE client   *)
(* implement a connection that is followed up by a limited number of       *)
(* delays and are never stranded, that batches hold what add() was given,  *)
(* that flights are shared and pages contiguous, that every chunk of a     *)
(* resolved upload is stored or was overtaken, that the last call runs,    *)
(* that a request stays as it was configured, and that a cache has its     *)
(* entries in the order of last use.                                       *)
(***************************************************************************)
EXTENDS Standalone, SequencesExt, FiniteSetTheorems, SequenceTheorems,
        WellFoundedInduction, TLAPS

\* NotStranded needs the types only to know that one more delay is a delay.
IInv == TypeOK /\ NotStranded

-----------------------------------------------------------------------------
\* What handleReconnect() leaves: its own delay, a report that there is none, or nothing
\* because the application does not want to reconnect.
LEMMA HandleReconnectFollowsUp ==
  ASSUME TypeOK, NEW sleeping \in 0 .. MaxWaiting, HandleReconnect(sleeping)
  PROVE  /\ waiting' \in 0 .. MaxWaiting /\ reconnectAttempts' \in 0 .. MaxRetries
         /\ gaveUp' \in BOOLEAN
         /\ Reconnect => waiting' > 0 \/ gaveUp'
<1> USE WebSocketAssumption DEF TypeOK
<1>1. CASE ~Reconnect /\ waiting' = sleeping /\ UNCHANGED <<reconnectAttempts, gaveUp>>
  BY <1>1
<1>2. CASE /\ Reconnect /\ reconnectAttempts >= MaxRetries
           /\ gaveUp' = TRUE /\ waiting' = sleeping /\ UNCHANGED reconnectAttempts
  BY <1>2
<1>3. CASE /\ Reconnect /\ reconnectAttempts < MaxRetries /\ sleeping < MaxWaiting
           /\ reconnectAttempts' = reconnectAttempts + 1 /\ waiting' = sleeping + 1
           /\ UNCHANGED gaveUp
  BY <1>3
<1> QED BY <1>1, <1>2, <1>3 DEF HandleReconnect

LEMMA InitIInv == Init => IInv
<1> SUFFICES ASSUME Init PROVE IInv OBVIOUS
<1>1. 0 \in 0 .. MaxOld /\ 0 \in 0 .. MaxWaiting /\ 0 \in 0 .. MaxRetries
  BY WebSocketAssumption
<1>2. TypeOK BY <1>1 DEF Init, TypeOK
<1>3. NotStranded BY DEF Init, NotStranded
<1> QED BY <1>2, <1>3 DEF IInv

\* connect() leaves a socket that closed alone only after close().
LEMMA ConnectKeepsIInv ==
  ASSUME IInv, NEW sleeping \in 0 .. MaxWaiting, NEW called \in BOOLEAN,
         Connect(sleeping, called), MayConnect \/ sleeping = waiting \/ isExplicitlyClosed \/ ws # "CLOSED"
  PROVE  IInv'
<1> USE WebSocketAssumption DEF IInv
<1>1. CASE ~MayConnect /\ waiting' = sleeping /\ UNCHANGED <<ws, old, reconnectAttempts, gaveUp, wanted>>
  <2>1. TypeOK' BY <1>1 DEF Connect, TypeOK, heartbeatVars
  <2>2. NotStranded' BY <1>1 DEF Connect, NotStranded
  <2> QED BY <2>1, <2>2
<1>2. CASE /\ MayConnect
           /\ ws' = "CONNECTING" /\ wanted' = called
           /\ old' = IF ws = "CLOSING" THEN old + 1 ELSE old
           /\ old' <= MaxOld
           /\ gaveUp' = FALSE /\ waiting' = sleeping /\ UNCHANGED reconnectAttempts
  <2>0. old' \in 0 .. MaxOld
    <3>1. old \in 0 .. MaxOld BY DEF TypeOK
    <3> QED BY <1>2, <3>1
  <2>1. TypeOK' BY <1>2, <2>0 DEF Connect, TypeOK, heartbeatVars
  <2>2. NotStranded' BY <1>2 DEF NotStranded
  <2> QED BY <2>1, <2>2
<1>3. CASE MayConnect /\ HandleReconnect(sleeping) /\ UNCHANGED <<ws, old, wanted>>
  <2>1. TypeOK' BY <1>3, HandleReconnectFollowsUp DEF Connect, TypeOK, heartbeatVars
  <2>2. NotStranded' BY <1>3, HandleReconnectFollowsUp DEF NotStranded
  <2> QED BY <2>1, <2>2
<1> QED BY <1>1, <1>2, <1>3 DEF Connect

\* A close event is followed up unless the application has called close().
LEMMA OnCloseKeepsIInv ==
  ASSUME IInv, OnClose, ws' \in {ws, "CLOSED"}, old' \in 0 .. MaxOld, cutOff' \in BOOLEAN
  PROVE  IInv'
<1> USE WebSocketAssumption DEF IInv
<1>1. CASE isExplicitlyClosed /\ UNCHANGED <<waiting, reconnectAttempts, gaveUp>>
  <2>1. TypeOK' BY <1>1 DEF OnClose, StopHeartbeat, TypeOK
  <2>2. NotStranded' BY <1>1 DEF OnClose, NotStranded
  <2> QED BY <2>1, <2>2
<1>2. CASE ~isExplicitlyClosed /\ HandleReconnect(waiting)
  <2>1. waiting \in 0 .. MaxWaiting BY DEF TypeOK
  <2>2. TypeOK' BY <1>2, <2>1, HandleReconnectFollowsUp DEF OnClose, StopHeartbeat, TypeOK
  <2>3. NotStranded' BY <1>2, <2>1, HandleReconnectFollowsUp DEF NotStranded
  <2> QED BY <2>2, <2>3
<1> QED BY <1>1, <1>2 DEF OnClose

LEMMA StepIInv == IInv /\ [Next]_vars => IInv'
<1> SUFFICES ASSUME IInv, [Next]_vars PROVE IInv' OBVIOUS
<1> USE WebSocketAssumption
<1>0. waiting \in 0 .. MaxWaiting BY DEF IInv, TypeOK
<1>1. CASE CallConnect BY <1>0, <1>1, ConnectKeepsIInv DEF CallConnect
<1>2. CASE Wake
  <2>0. waiting > 0 /\ Connect(waiting - 1, FALSE) BY <1>2 DEF Wake
  <2>1. waiting - 1 \in 0 .. MaxWaiting BY <1>0, <2>0
  <2>2. MayConnect \/ isExplicitlyClosed \/ ws # "CLOSED" BY DEF MayConnect
  <2> QED BY <2>0, <2>1, <2>2, ConnectKeepsIInv
<1>3. CASE Opened
  <2>1. 0 \in 0 .. MaxRetries OBVIOUS
  <2>2. beating' \in BOOLEAN /\ armed' \in BOOLEAN BY <1>3, Zenon DEF Opened
  <2>3. TypeOK' BY <1>3, <2>1, <2>2 DEF Opened, IInv, TypeOK
  <2>4. NotStranded' BY <1>3 DEF Opened, NotStranded
  <2> QED BY <2>3, <2>4 DEF IInv
<1>4. CASE Closed
  <2>1. old' \in 0 .. MaxOld /\ cutOff' \in BOOLEAN BY <1>4 DEF Closed, IInv, TypeOK
  <2> QED BY <1>4, <2>1, OnCloseKeepsIInv DEF Closed
<1>5. CASE OldClosed
  <2>1. old' \in 0 .. MaxOld /\ cutOff' \in BOOLEAN BY <1>5 DEF OldClosed, IInv, TypeOK
  <2> QED BY <1>5, <2>1, OnCloseKeepsIInv DEF OldClosed
<1>6. CASE ServerCloses BY <1>6 DEF ServerCloses, IInv, TypeOK, NotStranded, heartbeatVars
<1>7. CASE Beat \/ Message BY <1>7 DEF Beat, Message, IInv, TypeOK, NotStranded
<1>8. CASE HeartbeatTimeout BY <1>8 DEF HeartbeatTimeout, IInv, TypeOK, NotStranded
<1>9. CASE GoesSilent BY <1>9 DEF GoesSilent, IInv, TypeOK, NotStranded, heartbeatVars
<1>10. CASE Close BY <1>10 DEF Close, StopHeartbeat, IInv, TypeOK, NotStranded
<1>11. CASE UNCHANGED vars BY <1>11 DEF vars, heartbeatVars, IInv, TypeOK, NotStranded
<1> QED BY <1>1, <1>2, <1>3, <1>4, <1>5, <1>6, <1>7, <1>8, <1>9, <1>10, <1>11 DEF Next

\* The invariant holds in every state.
LEMMA Invariance == Spec => []IInv
BY InitIInv, StepIInv, PTL DEF Spec

\* The fields of the class keep their types; among others, reconnectAttempts never
\* passes maxRetries.
THEOREM TypeCorrect == Spec => []TypeOK
<1>1. IInv => TypeOK BY DEF IInv
<1> QED BY <1>1, Invariance, PTL

LEMMA SocketNeverStranded == Spec => []NotStranded
<1>1. IInv => NotStranded BY DEF IInv
<1> QED BY <1>1, Invariance, PTL

-----------------------------------------------------------------------------
LEMMA InitImplements == Init => Link!Init
BY DEF Init, Link!Init

\* handleReconnect() schedules a retry beside the delays there are, or nothing.
LEMMA HandleReconnectRetries ==
  ASSUME NEW sleeping, HandleReconnect(sleeping)
  PROVE  \/ /\ reconnectAttempts < MaxRetries /\ reconnectAttempts' = reconnectAttempts + 1
            /\ waiting' = sleeping + 1
         \/ reconnectAttempts' = reconnectAttempts /\ waiting' = sleeping
BY DEF HandleReconnect

\* connect() dials, schedules a retry, or does nothing, at the end of a delay or not.
LEMMA ConnectImplements ==
  ASSUME IInv, NEW sleeping, NEW called, Connect(sleeping, called),
         \/ called = TRUE /\ sleeping = waiting
         \/ called = FALSE /\ waiting > 0 /\ sleeping = waiting - 1
  PROVE  [Link!Next]_(Link!vars)
<1>0. waiting \in Nat /\ waiting - 1 + 1 = waiting BY WebSocketAssumption DEF IInv, TypeOK
<1>1. CASE ~MayConnect /\ waiting' = sleeping /\ UNCHANGED <<ws, reconnectAttempts, wanted>>
  BY <1>0, <1>1 DEF Connect, Link!vars, Link!Next, Link!Skip, Link!Use
<1>2. CASE /\ MayConnect /\ ws' = "CONNECTING" /\ wanted' = called
           /\ waiting' = sleeping /\ UNCHANGED reconnectAttempts
  <2>1. Link!Dial BY <1>2 DEF Connect, MayConnect, Link!Dial
  <2> QED BY <1>0, <1>2, <2>1 DEF Link!Next, Link!Call, Link!Redial, Link!Use
<1>3. CASE MayConnect /\ HandleReconnect(sleeping) /\ UNCHANGED <<ws, wanted>>
  <2>1. ~isExplicitlyClosed /\ UNCHANGED isExplicitlyClosed BY <1>3 DEF Connect, MayConnect
  <2>2. CASE /\ reconnectAttempts < MaxRetries /\ reconnectAttempts' = reconnectAttempts + 1
             /\ waiting' = sleeping + 1
    BY <1>0, <1>3, <2>1, <2>2 DEF Link!Next, Link!Retry, Link!Replace, Link!Again
  <2>3. CASE reconnectAttempts' = reconnectAttempts /\ waiting' = sleeping
    BY <1>0, <1>3, <2>1, <2>3 DEF Link!Next, Link!Skip, Link!Use, Link!vars
  <2> QED BY <1>3, <2>2, <2>3, HandleReconnectRetries
<1> QED BY <1>1, <1>2, <1>3 DEF Connect

\* A close event takes the link down if it is this.ws that closed.
LEMMA OnCloseImplements ==
  ASSUME OnClose, ws' \in {ws, "CLOSED"} PROVE [Link!Next]_(Link!vars)
<1>1. Link!Retry \/ UNCHANGED <<reconnectAttempts, waiting, wanted, isExplicitlyClosed>>
  BY HandleReconnectRetries DEF OnClose, Link!Retry, Link!Again
<1>2. CASE ws' = ws BY <1>1, <1>2 DEF Link!Next, Link!vars
<1>3. CASE ws' = "CLOSED" /\ ws \in {"CONNECTING", "OPEN"}
  BY <1>1, <1>3 DEF Link!Next, Link!Lose
<1>4. CASE ws' = "CLOSED" /\ ws \notin {"CONNECTING", "OPEN"}
  BY <1>1, <1>4 DEF Link!Next, Link!vars
<1> QED BY <1>2, <1>3, <1>4

LEMMA StepImplements == IInv /\ [Next]_vars => [Link!Next]_(Link!vars)
<1> SUFFICES ASSUME IInv, [Next]_vars PROVE [Link!Next]_(Link!vars) OBVIOUS
<1>1. CASE CallConnect BY <1>1, ConnectImplements DEF CallConnect
<1>2. CASE Wake BY <1>2, ConnectImplements DEF Wake
<1>3. CASE Opened BY <1>3 DEF Opened, Link!Next, Link!Establish
<1>4. CASE Closed BY <1>4, OnCloseImplements DEF Closed
<1>5. CASE OldClosed BY <1>5, OnCloseImplements DEF OldClosed
<1>6. CASE ServerCloses BY <1>6 DEF ServerCloses, Link!Next, Link!Lose
<1>7. CASE Beat \/ Message \/ GoesSilent BY <1>7 DEF Beat, Message, GoesSilent, Link!vars
<1>8. CASE HeartbeatTimeout
  <2>1. CASE ws \in {"CONNECTING", "OPEN"}
    BY <1>8, <2>1 DEF HeartbeatTimeout, Link!Next, Link!Lose
  <2>2. CASE ws \notin {"CONNECTING", "OPEN"} BY <1>8, <2>2 DEF HeartbeatTimeout, Link!vars
  <2> QED BY <2>1, <2>2
<1>9. CASE Close BY <1>9 DEF Close, Link!Next, Link!Close
<1>10. CASE UNCHANGED vars BY <1>10 DEF vars, Link!vars
<1> QED BY <1>1, <1>2, <1>3, <1>4, <1>5, <1>6, <1>7, <1>8, <1>9, <1>10 DEF Next

\* connect(), the listeners and the heartbeat implement Reconnecting: the client dials only
\* a link that is down, never after close(), and by itself only at the end of a delay, of
\* which at most MaxRetries begin until one is up, however many delays, sockets and timers
\* overlap.
THEOREM WebSocketImplementsReconnecting == Spec => ImplementsReconnecting
<1> QED BY InitImplements, Invariance, StepImplements, PTL DEF Spec, ImplementsReconnecting, Link!Spec

-----------------------------------------------------------------------------
\* SSEClient: the EventSource is the link.
LEMMA InitStreamImplements == SSE!Init => SSE!Link!Init
BY DEF SSE!Init, SSE!Link!Init

LEMMA StreamRetries ==
  ASSUME NEW sleeping, SSE!HandleReconnect(sleeping)
  PROVE  \/ /\ sseAttempts < MaxRetries /\ sseAttempts' = sseAttempts + 1
            /\ sseWaiting' = sleeping + 1
         \/ sseAttempts' = sseAttempts /\ sseWaiting' = sleeping
BY DEF SSE!HandleReconnect

LEMMA ConnectStreamImplements ==
  ASSUME sseWaiting \in Nat, NEW sleeping, NEW called, SSE!Connect(sleeping, called),
         \/ called = TRUE /\ sleeping = sseWaiting
         \/ called = FALSE /\ sseWaiting > 0 /\ sleeping = sseWaiting - 1
  PROVE  [SSE!Link!Next]_(SSE!Link!vars)
<1>0. sseWaiting - 1 + 1 = sseWaiting
  OBVIOUS
<1>1. CASE ~SSE!MayConnect /\ sseWaiting' = sleeping /\ UNCHANGED <<es, sseAttempts, sseWanted>>
  BY <1>0, <1>1 DEF SSE!Connect, SSE!Link!vars, SSE!Link!Next, SSE!Link!Skip, SSE!Link!Use
<1>2. CASE /\ SSE!MayConnect /\ es' = "CONNECTING" /\ sseWanted' = called
           /\ sseWaiting' = sleeping /\ UNCHANGED sseAttempts
  <2>1. SSE!Link!Dial
    BY <1>2 DEF SSE!Connect, SSE!MayConnect, SSE!Link!Dial
  <2>2. QED
    BY <1>0, <1>2, <2>1 DEF SSE!Link!Next, SSE!Link!Call, SSE!Link!Redial, SSE!Link!Use
<1>3. CASE SSE!MayConnect /\ SSE!HandleReconnect(sleeping) /\ UNCHANGED <<es, sseWanted>>
  <2>1. ~sseClosed /\ UNCHANGED sseClosed
    BY <1>3 DEF SSE!Connect, SSE!MayConnect
  <2>2. CASE /\ sseAttempts < MaxRetries /\ sseAttempts' = sseAttempts + 1
             /\ sseWaiting' = sleeping + 1
    BY <1>0, <1>3, <2>1, <2>2 DEF SSE!Link!Next, SSE!Link!Retry, SSE!Link!Replace, SSE!Link!Again
  <2>3. CASE sseAttempts' = sseAttempts /\ sseWaiting' = sleeping
    BY <1>0, <1>3, <2>1, <2>3 DEF SSE!Link!Next, SSE!Link!Skip, SSE!Link!Use, SSE!Link!vars
  <2>4. QED
    BY <1>3, <2>2, <2>3, StreamRetries
<1>4. QED
  BY <1>1, <1>2, <1>3 DEF SSE!Connect

\* A closed client has no EventSource whose events could reconnect it.
StreamInv == (sseClosed => es = "none") /\ sseWaiting \in Nat

LEMMA NextStream == StreamInv /\ [SSE!Next]_SSE!vars => StreamInv'
BY DEF StreamInv, SSE!Next, SSE!vars, SSE!CallConnect, SSE!Wake, SSE!Connect, SSE!MayConnect,
       SSE!HandleReconnect, SSE!Opened, SSE!Interrupted, SSE!Failed, SSE!Close

LEMMA StepStreamImplements ==
  StreamInv /\ [SSE!Next]_SSE!vars => [SSE!Link!Next]_(SSE!Link!vars)
<1>. SUFFICES ASSUME StreamInv, [SSE!Next]_SSE!vars PROVE [SSE!Link!Next]_(SSE!Link!vars)
  OBVIOUS
<1>1. CASE SSE!CallConnect
  BY <1>1, ConnectStreamImplements DEF SSE!CallConnect, StreamInv
<1>2. CASE SSE!Wake
  BY <1>2, ConnectStreamImplements DEF SSE!Wake, StreamInv
<1>3. CASE SSE!Opened
  BY <1>3 DEF SSE!Opened, SSE!Link!Next, SSE!Link!Establish
<1>4. CASE SSE!Interrupted
  BY <1>4 DEF SSE!Interrupted, SSE!Link!Next, SSE!Link!Resume
<1>5. CASE SSE!Failed
  <2>1. SSE!Link!Retry \/ UNCHANGED <<sseAttempts, sseWaiting, sseWanted, sseClosed>>
    BY <1>5, StreamRetries DEF SSE!Failed, StreamInv, SSE!Link!Retry, SSE!Link!Again
  <2>2. QED
    BY <1>5, <2>1 DEF SSE!Failed, SSE!Link!Next, SSE!Link!Lose
<1>6. CASE SSE!Close
  BY <1>6 DEF SSE!Close, SSE!Link!Next, SSE!Link!Close
<1>7. CASE UNCHANGED SSE!vars
  BY <1>7 DEF SSE!vars, SSE!Link!vars
<1>8. QED
  BY <1>1, <1>2, <1>3, <1>4, <1>5, <1>6, <1>7 DEF SSE!Next

LEMMA StreamImplementsReconnecting == SSE!Spec => SSE!ImplementsReconnecting
<1>1. SSE!Init => StreamInv
  BY DEF SSE!Init, StreamInv
<1>2. QED
  BY <1>1, NextStream, InitStreamImplements, StepStreamImplements, PTL
     DEF SSE!Spec, SSE!ImplementsReconnecting, SSE!Link!Spec

\* A stream that is down was followed up, or given up.
StreamKept == SSE!TypeOK /\ SSE!NotStranded

LEMMA InitStreamKept == SSE!Init => StreamKept
<1>1. 0 \in 0 .. MaxRetries /\ 0 \in 0 .. MaxWaiting
  BY WebSocketAssumption
<1>2. QED
  BY <1>1 DEF SSE!Init, StreamKept, SSE!TypeOK, SSE!NotStranded

LEMMA StreamFollowsUp ==
  ASSUME SSE!TypeOK, NEW sleeping \in 0 .. MaxWaiting, SSE!HandleReconnect(sleeping)
  PROVE  /\ sseWaiting' \in 0 .. MaxWaiting /\ sseAttempts' \in 0 .. MaxRetries
         /\ sseGaveUp' \in BOOLEAN
         /\ Reconnect => sseWaiting' > 0 \/ sseGaveUp'
<1>. USE WebSocketAssumption DEF SSE!TypeOK
<1>1. CASE ~Reconnect /\ sseWaiting' = sleeping /\ UNCHANGED <<sseAttempts, sseGaveUp>>
  BY <1>1
<1>2. CASE /\ Reconnect /\ sseAttempts >= MaxRetries
           /\ sseGaveUp' = TRUE /\ sseWaiting' = sleeping /\ UNCHANGED sseAttempts
  BY <1>2
<1>3. CASE /\ Reconnect /\ sseAttempts < MaxRetries /\ sleeping < MaxWaiting
           /\ sseAttempts' = sseAttempts + 1 /\ sseWaiting' = sleeping + 1
           /\ UNCHANGED sseGaveUp
  BY <1>3
<1>4. QED
  BY <1>1, <1>2, <1>3 DEF SSE!HandleReconnect

LEMMA ConnectStreamKept ==
  ASSUME StreamKept, NEW sleeping \in 0 .. MaxWaiting, NEW called \in BOOLEAN,
         SSE!Connect(sleeping, called), SSE!MayConnect \/ sleeping = sseWaiting \/ sseClosed \/ es # "CLOSED"
  PROVE  StreamKept'
<1>. USE WebSocketAssumption DEF StreamKept
<1>1. CASE /\ ~SSE!MayConnect /\ sseWaiting' = sleeping
           /\ UNCHANGED <<es, sseAttempts, sseGaveUp, sseWanted>>
  BY <1>1 DEF SSE!Connect, SSE!TypeOK, SSE!NotStranded
<1>2. CASE /\ SSE!MayConnect /\ es' = "CONNECTING" /\ sseWanted' = called
           /\ sseGaveUp' = FALSE /\ sseWaiting' = sleeping /\ UNCHANGED sseAttempts
  BY <1>2 DEF SSE!Connect, SSE!TypeOK, SSE!NotStranded
<1>3. CASE SSE!MayConnect /\ SSE!HandleReconnect(sleeping) /\ UNCHANGED <<es, sseWanted>>
  BY <1>3, StreamFollowsUp DEF SSE!Connect, SSE!TypeOK, SSE!NotStranded
<1>4. QED
  BY <1>1, <1>2, <1>3 DEF SSE!Connect

LEMMA NextStreamKept == StreamKept /\ [SSE!Next]_SSE!vars => StreamKept'
<1>. SUFFICES ASSUME StreamKept, [SSE!Next]_SSE!vars PROVE StreamKept'
  OBVIOUS
<1>. USE WebSocketAssumption
<1>1. sseWaiting \in 0 .. MaxWaiting
  BY DEF StreamKept, SSE!TypeOK
<1>2. CASE SSE!CallConnect
  BY <1>1, <1>2, ConnectStreamKept DEF SSE!CallConnect
<1>3. CASE SSE!Wake
  <2>0. sseWaiting > 0 /\ SSE!Connect(sseWaiting - 1, FALSE)
    BY <1>3 DEF SSE!Wake
  <2>1. sseWaiting - 1 \in 0 .. MaxWaiting
    BY <1>1, <2>0
  <2>2. SSE!MayConnect \/ sseClosed \/ es # "CLOSED"
    BY DEF SSE!MayConnect
  <2>3. QED
    BY <2>0, <2>1, <2>2, ConnectStreamKept
<1>4. CASE SSE!Failed
  BY <1>1, <1>4, StreamFollowsUp DEF SSE!Failed, StreamKept, SSE!TypeOK, SSE!NotStranded
<1>5. CASE SSE!Opened
  <2>1. 0 \in 0 .. MaxRetries
    OBVIOUS
  <2>2. QED
    BY <1>5, <2>1 DEF SSE!Opened, StreamKept, SSE!TypeOK, SSE!NotStranded
<1>6. CASE SSE!Interrupted
  BY <1>6 DEF SSE!Interrupted, StreamKept, SSE!TypeOK, SSE!NotStranded
<1>7. CASE SSE!Close
  BY <1>7 DEF SSE!Close, StreamKept, SSE!TypeOK, SSE!NotStranded
<1>8. CASE UNCHANGED SSE!vars
  BY <1>8 DEF SSE!vars, StreamKept, SSE!TypeOK, SSE!NotStranded
<1>9. QED
  BY <1>2, <1>3, <1>4, <1>5, <1>6, <1>7, <1>8 DEF SSE!Next

LEMMA StreamNeverStranded == SSE!Spec => []SSE!NotStranded
<1>1. StreamKept => SSE!NotStranded
  BY DEF StreamKept
<1>2. QED
  BY <1>1, InitStreamKept, NextStreamKept, PTL DEF SSE!Spec

-----------------------------------------------------------------------------
\* Where the element at position k of RemoveAt(q, i) is in q.
Position(k, i) == IF k < i THEN k ELSE k + 1

LEMMA RemoveAtElements ==
  ASSUME NEW S, NEW q \in Seq(S), NEW i \in DOMAIN q
  PROVE  /\ RemoveAt(q, i) \in Seq(S) /\ Len(RemoveAt(q, i)) = Len(q) - 1
         /\ \A k \in 1 .. Len(q) - 1 : /\ Position(k, i) \in DOMAIN q \ {i}
                                       /\ RemoveAt(q, i)[k] = q[Position(k, i)]
         /\ \A j, k \in 1 .. Len(q) - 1 : Position(j, i) = Position(k, i) => j = k
<1>. DEFINE a == SubSeq(q, 1, i - 1)
            b == SubSeq(q, i + 1, Len(q))
            r == RemoveAt(q, i)
            n == Len(q)
<1>1. n \in Nat /\ DOMAIN q = 1 .. n /\ i \in 1 .. n
  BY LenProperties
<1>2. \A j \in 1 .. n : q[j] \in S
  BY ElementOfSeq
<1>3. a \in Seq(S) /\ Len(a) = i - 1 /\ \A j \in 1 .. i - 1 : a[j] = q[j]
  <2>1. \A j \in 1 .. i - 1 : q[j] \in S
    BY <1>1, <1>2
  <2>2. /\ a \in Seq(S)
        /\ Len(a) = IF 1 <= i - 1 THEN (i - 1) - 1 + 1 ELSE 0
        /\ \A j \in 1 .. (i - 1) - 1 + 1 : a[j] = q[1 + j - 1]
    <3>. HIDE DEF a
    <3>. QED BY <1>1, <2>1, SubSeqProperties DEF a
  <2>. HIDE DEF a
  <2>3. QED
    BY <1>1, <2>2
<1>4. b \in Seq(S) /\ Len(b) = n - i /\ \A j \in 1 .. n - i : b[j] = q[i + j]
  <2>1. \A j \in i + 1 .. n : q[j] \in S
    BY <1>1, <1>2
  <2>2. /\ b \in Seq(S)
        /\ Len(b) = IF i + 1 <= n THEN n - (i + 1) + 1 ELSE 0
        /\ \A j \in 1 .. n - (i + 1) + 1 : b[j] = q[i + 1 + j - 1]
    <3>. HIDE DEF b
    <3>. QED BY <1>1, <2>1, SubSeqProperties DEF b
  <2>. HIDE DEF b, n
  <2>3. Len(b) = n - i
    BY <1>1, <2>2
  <2>4. ASSUME NEW j \in 1 .. n - i
        PROVE  b[j] = q[i + j]
    <3>1. j \in 1 .. n - (i + 1) + 1 /\ i + 1 + j - 1 = i + j
      BY <1>1
    <3>2. QED
      BY <2>2, <3>1
  <2>5. QED
    BY <2>2, <2>3, <2>4
<1>5. r = a \o b
  BY DEF RemoveAt
<1>. HIDE DEF a, b, r, n
<1>6. r \in Seq(S) /\ Len(r) = n - 1
  <2>1. r \in Seq(S) /\ Len(r) = Len(a) + Len(b)
    BY <1>3, <1>4, <1>5, ConcatProperties
  <2>2. QED
    BY <1>1, <1>3, <1>4, <2>1
<1>7. \A k \in 1 .. n - 1 : r[k] = q[Position(k, i)]
  <2>. TAKE k \in 1 .. n - 1
  <2>1. r[k] = IF k <= i - 1 THEN a[k] ELSE b[k - (i - 1)]
    BY <1>1, <1>3, <1>4, <1>5, ConcatProperties
  <2>2. CASE k < i
    BY <1>1, <1>3, <2>1, <2>2 DEF Position
  <2>3. CASE k >= i
    <3>1. k - (i - 1) \in 1 .. n - i /\ i + (k - (i - 1)) = k + 1
      BY <1>1, <2>3
    <3>2. ~(k < i) /\ ~(k <= i - 1)
      BY <1>1, <2>3
    <3>3. QED
      BY <1>4, <2>1, <3>1, <3>2 DEF Position
  <2>4. QED
    BY <1>1, <2>2, <2>3
<1>8. /\ \A k \in 1 .. n - 1 : Position(k, i) \in 1 .. n /\ Position(k, i) # i
      /\ \A j, k \in 1 .. n - 1 : Position(j, i) = Position(k, i) => j = k
  BY <1>1 DEF Position
<1>9. QED
  BY <1>1, <1>6, <1>7, <1>8 DEF r, n

\* The elements of a sequence after Append, and after an element is put in front of it.
LEMMA AppendElements ==
  ASSUME NEW S, NEW q \in Seq(S), NEW e \in S
  PROVE  /\ Append(q, e) \in Seq(S) /\ Len(Append(q, e)) = Len(q) + 1
         /\ DOMAIN Append(q, e) = 1 .. Len(q) + 1
         /\ Append(q, e)[Len(q) + 1] = e
         /\ \A k \in 1 .. Len(q) : Append(q, e)[k] = q[k]
<1>1. Append(q, e) \in Seq(S)
  OBVIOUS
<1>2. Len(q) \in Nat /\ Len(Append(q, e)) = Len(q) + 1
  BY LenProperties
<1>3. Append(q, e)[Len(q) + 1] = e /\ \A k \in 1 .. Len(q) : Append(q, e)[k] = q[k]
  OBVIOUS
<1>4. DOMAIN Append(q, e) = 1 .. Len(q) + 1
  BY <1>1, <1>2, LenProperties
<1>5. QED
  BY <1>1, <1>2, <1>3, <1>4

LEMMA InFrontElements ==
  ASSUME NEW S, NEW q \in Seq(S), NEW e \in S
  PROVE  /\ <<e>> \o q \in Seq(S) /\ Len(<<e>> \o q) = Len(q) + 1
         /\ (<<e>> \o q)[1] = e
         /\ \A k \in 2 .. Len(q) + 1 : (<<e>> \o q)[k] = q[k - 1]
<1>1. <<e>> \in Seq(S) /\ Len(<<e>>) = 1 /\ <<e>>[1] = e
  OBVIOUS
<1>2. Len(q) \in Nat
  BY LenProperties
<1>3. /\ <<e>> \o q \in Seq(S) /\ Len(<<e>> \o q) = 1 + Len(q)
      /\ \A k \in 1 .. 1 + Len(q) : (<<e>> \o q)[k] = IF k <= 1 THEN <<e>>[k] ELSE q[k - 1]
  <2>1. /\ <<e>> \o q \in Seq(S) /\ Len(<<e>> \o q) = Len(<<e>>) + Len(q)
        /\ \A k \in 1 .. Len(<<e>>) + Len(q) :
             (<<e>> \o q)[k] = IF k <= Len(<<e>>) THEN <<e>>[k] ELSE q[k - Len(<<e>>)]
    BY <1>1, ConcatProperties
  <2>2. QED
    BY <1>1, <2>1
<1>. DEFINE r == <<e>> \o q
<1>. HIDE DEF r
<1>4. r[1] = e
  BY <1>1, <1>2, <1>3 DEF r
<1>5. \A k \in 2 .. Len(q) + 1 : r[k] = q[k - 1]
  BY <1>2, <1>3 DEF r
<1>6. QED
  BY <1>2, <1>3, <1>4, <1>5 DEF r

-----------------------------------------------------------------------------
(***************************************************************************)
(* BatchProcessor.  add() and flush() leave less in the queue than fills a *)
(* batch, and a timeout that is set has a timer, so that a flush empties   *)
(* the queue.                                                              *)
(***************************************************************************)
In(i, s) == \E k \in DOMAIN s : s[k] = i

\* What ItemsHeld says of a queue, the batches under way and the promises.
Held(q, under, p) ==
  /\ q \in Seq(Items) /\ under \in SUBSET Seq(Items)
  /\ p \in [Items -> {"none", "pending", "resolved", "rejected"}]
  /\ \A i \in Items : p[i] = "pending" <=> In(i, q) \/ \E b \in under : In(i, b)
  /\ \A b, c \in under, i \in Items : In(i, b) /\ In(i, c) => b = c
  /\ \A b \in under, i \in Items : ~(In(i, b) /\ In(i, q))
  /\ \A b \in under : Len(b) \in 1 .. MaxBatchSize /\ IsInjective(b)
  /\ IsInjective(q)

BatchInv ==
  /\ Held(queue, batches, promise)
  /\ Len(queue) < MaxBatchSize
  /\ timeout \in BOOLEAN /\ timer \in BOOLEAN
  /\ timeout => timer
  /\ queue # <<>> => timer

LEMMA InItems == ASSUME NEW s \in Seq(Items), NEW i, In(i, s) PROVE i \in Items
BY ElementOfSeq DEF In

LEMMA BatchMeans == BatchInv => Batch!ItemsHeld
<1>. SUFFICES ASSUME BatchInv PROVE Batch!ItemsHeld
  OBVIOUS
<1>1. \A s, i : i \in Batch!ToSet(s) <=> In(i, s)
  BY DEF Batch!ToSet, In
<1>2. \A s : Batch!IsInjective(s) <=> IsInjective(s)
  BY DEF Batch!IsInjective, IsInjective
<1>3. \A b \in batches : \A i : In(i, b) => i \in Items
  BY InItems DEF BatchInv, Held
<1>4. \A b, c \in batches : b # c => Batch!ToSet(b) \cap Batch!ToSet(c) = {}
  BY <1>1, <1>3 DEF BatchInv, Held
<1>5. \A b \in batches : Batch!ToSet(b) \cap Batch!ToSet(queue) = {} /\ Len(b) \in 1 .. MaxBatchSize
  BY <1>1, <1>3 DEF BatchInv, Held
<1>6. \A i \in Items :
        promise[i] = "pending" <=> i \in Batch!ToSet(queue) \/ \E b \in batches : i \in Batch!ToSet(b)
  BY <1>1 DEF BatchInv, Held
<1>7. \A s \in batches \cup {queue} : Batch!IsInjective(s)
  BY <1>2 DEF BatchInv, Held
<1>8. QED
  BY <1>4, <1>5, <1>6, <1>7 DEF BatchInv, Batch!ItemsHeld

LEMMA InitBatch == Batch!Init => BatchInv
<1>. SUFFICES ASSUME Batch!Init PROVE BatchInv
  OBVIOUS
<1>1. <<>> \in Seq(Items) /\ Len(<<>>) = 0 /\ DOMAIN <<>> = {}
  OBVIOUS
<1>2. \A i : ~In(i, <<>>)
  BY <1>1 DEF In
<1>3. IsInjective(<<>>)
  BY <1>1 DEF IsInjective
<1>4. Held(<<>>, {}, [i \in Items |-> "none"])
  BY <1>1, <1>2, <1>3 DEF Held
<1>5. Len(<<>>) < MaxBatchSize
  BY StandaloneAssumption
<1>6. QED
  BY <1>1, <1>4, <1>5 DEF Batch!Init, BatchInv

\* push() of a new item.
LEMMA PushHolds ==
  ASSUME NEW q, NEW under, NEW p, Held(q, under, p), NEW i \in Items, p[i] = "none"
  PROVE  Held(Append(q, i), under, [p EXCEPT ![i] = "pending"])
<1>. DEFINE r == Append(q, i)
            w == [p EXCEPT ![i] = "pending"]
            n == Len(q)
<1>1. n \in Nat /\ DOMAIN q = 1 .. n
  BY LenProperties DEF Held
<1>2. r \in Seq(Items) /\ DOMAIN r = 1 .. n + 1 /\ r[n + 1] = i /\ \A k \in 1 .. n : r[k] = q[k]
  BY AppendElements DEF Held
<1>3. /\ w \in [Items -> {"none", "pending", "resolved", "rejected"}]
      /\ w[i] = "pending" /\ \A j \in Items \ {i} : w[j] = p[j]
  BY DEF Held
<1>4. ~In(i, q) /\ \A b \in under : ~In(i, b)
  BY DEF Held
<1>. HIDE DEF r, w, n
<1>5. \A j : In(j, r) <=> In(j, q) \/ j = i
  <2>1. \A k \in 1 .. n + 1 : k \in 1 .. n \/ k = n + 1
    BY <1>1
  <2>2. n + 1 \in 1 .. n + 1 /\ \A k \in 1 .. n : k \in 1 .. n + 1
    BY <1>1
  <2>3. QED
    BY <1>1, <1>2, <2>1, <2>2 DEF In
<1>6. IsInjective(r)
  <2>. SUFFICES ASSUME NEW j \in 1 .. n + 1, NEW k \in 1 .. n + 1, r[j] = r[k] PROVE j = k
    BY <1>2 DEF IsInjective
  <2>1. CASE j \in 1 .. n /\ k \in 1 .. n
    BY <1>1, <1>2, <2>1 DEF Held, IsInjective
  <2>2. CASE j \in 1 .. n /\ k = n + 1
    BY <1>1, <1>2, <1>4, <2>2 DEF In
  <2>3. CASE j = n + 1 /\ k \in 1 .. n
    BY <1>1, <1>2, <1>4, <2>3 DEF In
  <2>4. QED
    BY <1>1, <2>1, <2>2, <2>3
<1>7. \A j \in Items : w[j] = "pending" <=> In(j, r) \/ \E b \in under : In(j, b)
  BY <1>3, <1>5 DEF Held
<1>8. \A b \in under, j \in Items : ~(In(j, b) /\ In(j, r))
  BY <1>4, <1>5 DEF Held
<1>9. Held(r, under, w)
  BY <1>2, <1>3, <1>6, <1>7, <1>8 DEF Held
<1>10. QED
  BY <1>9 DEF r, w

\* A queue that does not fill more than a batch becomes one.
LEMMA FlushHolds ==
  ASSUME NEW q, Held(q, batches, promise'), Len(q) <= MaxBatchSize, Batch!Splice(q)
  PROVE  Held(queue', batches', promise') /\ queue' = <<>>
<1>. DEFINE n == Len(q)
<1>1. q \in Seq(Items) /\ n \in Nat /\ MaxBatchSize \in Nat
  BY LenProperties, StandaloneAssumption DEF Held
<1>2. (IF n < MaxBatchSize THEN n ELSE MaxBatchSize) = n
  BY <1>1
<1>3. /\ queue' = SubSeq(q, n + 1, n)
      /\ batches' = IF n = 0 THEN batches ELSE batches \cup {SubSeq(q, 1, n)}
  BY <1>2 DEF Batch!Splice
<1>4. SubSeq(q, 1, n) = q
  BY <1>1
<1>5. SubSeq(q, n + 1, n) = <<>>
  BY <1>1
<1>6. <<>> \in Seq(Items) /\ DOMAIN <<>> = {}
  OBVIOUS
<1>7. IsInjective(<<>>) /\ \A i : ~In(i, <<>>)
  BY <1>6 DEF IsInjective, In
<1>8. CASE n = 0
  <2>1. q = <<>>
    BY <1>1, <1>8, EmptySeq
  <2>2. QED
    BY <1>3, <1>5, <1>8, <2>1
<1>9. CASE n # 0
  <2>1. batches' = batches \cup {q} /\ queue' = <<>> /\ n \in 1 .. MaxBatchSize
    BY <1>1, <1>3, <1>4, <1>5, <1>9
  <2>. HIDE DEF n
  <2>2. \A b \in batches \cup {q} : Len(b) \in 1 .. MaxBatchSize /\ IsInjective(b)
    BY <2>1 DEF Held, n
  <2>3. Held(<<>>, batches \cup {q}, promise')
    BY <1>1, <1>6, <1>7, <2>2 DEF Held
  <2>4. QED
    BY <2>1, <2>3
<1>10. QED
  BY <1>8, <1>9

\* A batch is answered.
LEMMA SettleHolds ==
  ASSUME BatchInv, NEW b \in batches, NEW outcome \in {"resolved", "rejected"},
         Batch!Settle(b, outcome)
  PROVE  BatchInv'
<1>1. /\ batches' = batches \ {b} /\ UNCHANGED <<queue, timeout, timer>>
      /\ promise' = [i \in Items |-> IF In(i, b) THEN outcome ELSE promise[i]]
  BY DEF Batch!Settle, Batch!ToSet, In
<1>2. promise' \in [Items -> {"none", "pending", "resolved", "rejected"}]
  BY <1>1 DEF BatchInv, Held
<1>3. ASSUME NEW i \in Items
      PROVE  promise'[i] = "pending" <=> In(i, queue) \/ \E c \in batches' : In(i, c)
  BY <1>1, <1>3 DEF BatchInv, Held
<1>4. Held(queue, batches', promise')
  BY <1>1, <1>2, <1>3 DEF BatchInv, Held
<1>5. QED
  BY <1>1, <1>4 DEF BatchInv

\* A request that is not batched.
LEMMA AloneHolds ==
  ASSUME BatchInv, NEW i \in Items, Batch!SendAlone(i)
  PROVE  BatchInv'
<1>1. /\ promise[i] = "none" /\ promise' = [promise EXCEPT ![i] = "pending"]
      /\ batches' = batches \cup {<<i>>} /\ UNCHANGED <<queue, timeout, timer>>
  BY DEF Batch!SendAlone
<1>2. <<i>> \in Seq(Items) /\ Len(<<i>>) = 1 /\ DOMAIN <<i>> = {1} /\ <<i>>[1] = i
  OBVIOUS
<1>3. IsInjective(<<i>>) /\ (\A j : In(j, <<i>>) <=> j = i) /\ Len(<<i>>) \in 1 .. MaxBatchSize
  <2>1. 1 \in 1 .. MaxBatchSize
    BY StandaloneAssumption
  <2>2. IsInjective(<<i>>)
    BY <1>2 DEF IsInjective
  <2>3. \A j : In(j, <<i>>) <=> j = i
    BY <1>2 DEF In
  <2>4. QED
    BY <1>2, <2>1, <2>2, <2>3
<1>4. /\ promise' \in [Items -> {"none", "pending", "resolved", "rejected"}]
      /\ promise'[i] = "pending" /\ \A j \in Items \ {i} : promise'[j] = promise[j]
  BY <1>1 DEF BatchInv, Held
<1>5. ~In(i, queue) /\ \A b \in batches : ~In(i, b)
  BY <1>1 DEF BatchInv, Held
<1>. DEFINE alone == <<i>>
<1>. HIDE DEF alone
<1>6. /\ alone \in Seq(Items) /\ IsInjective(alone) /\ (\A j : In(j, alone) <=> j = i)
      /\ Len(alone) \in 1 .. MaxBatchSize /\ batches' = batches \cup {alone}
  BY <1>1, <1>2, <1>3 DEF alone
<1>7. \A j \in Items : promise'[j] = "pending" <=> In(j, queue) \/ \E b \in batches' : In(j, b)
  BY <1>4, <1>5, <1>6 DEF BatchInv, Held
<1>8. \A b, c \in batches', j \in Items : In(j, b) /\ In(j, c) => b = c
  BY <1>5, <1>6 DEF BatchInv, Held
<1>9. \A b \in batches', j \in Items : ~(In(j, b) /\ In(j, queue))
  BY <1>5, <1>6 DEF BatchInv, Held
<1>10. Held(queue, batches', promise')
  BY <1>4, <1>6, <1>7, <1>8, <1>9 DEF BatchInv, Held
<1>11. QED
  BY <1>1, <1>10 DEF BatchInv

LEMMA NextBatch == BatchInv /\ [Batch!Next]_Batch!vars => BatchInv'
<1>. SUFFICES ASSUME BatchInv, [Batch!Next]_Batch!vars PROVE BatchInv'
  OBVIOUS
<1>1. queue \in Seq(Items) /\ Len(queue) \in Nat /\ MaxBatchSize \in Nat /\ Len(queue) < MaxBatchSize
  BY LenProperties, StandaloneAssumption DEF BatchInv, Held
<1>2. Len(<<>>) = 0 /\ 0 < MaxBatchSize
  BY StandaloneAssumption
<1>3. ASSUME NEW i \in Items, Batch!Add(i)
      PROVE  BatchInv'
  <2>. DEFINE q == Append(queue, i)
  <2>1. promise[i] = "none" /\ promise' = [promise EXCEPT ![i] = "pending"]
    BY <1>3 DEF Batch!Add
  <2>2. Held(q, batches, promise')
    BY <2>1, PushHolds DEF BatchInv
  <2>3. Len(q) = Len(queue) + 1
    BY <1>1, AppendElements
  <2>. HIDE DEF q
  <2>4. CASE Len(q) >= MaxBatchSize
    <3>1. Batch!Splice(q) /\ timer' = FALSE /\ timeout' = FALSE
      BY <1>3, <2>4 DEF Batch!Add, Batch!Flush, q
    <3>2. Len(q) <= MaxBatchSize
      BY <1>1, <2>3
    <3>3. Held(queue', batches', promise') /\ queue' = <<>>
      BY <2>2, <3>1, <3>2, FlushHolds
    <3>4. QED
      BY <1>2, <3>1, <3>3 DEF BatchInv
  <2>5. CASE ~(Len(q) >= MaxBatchSize)
    <3>1. queue' = q /\ timeout' = TRUE /\ timer' = (timer \/ ~timeout) /\ UNCHANGED batches
      BY <1>3, <2>5 DEF Batch!Add, q
    <3>2. timer'
      BY <3>1, Zenon DEF BatchInv
    <3>3. timer' \in BOOLEAN
      BY <3>1, Zenon
    <3>4. Len(queue') < MaxBatchSize
      BY <1>1, <2>3, <2>5, <3>1
    <3>5. QED
      BY <2>2, <3>1, <3>2, <3>3, <3>4 DEF BatchInv
  <2>6. QED
    BY <2>4, <2>5
<1>4. CASE Batch!Timer
  <2>1. Batch!Splice(queue) /\ timer' = FALSE /\ timeout' = FALSE /\ promise' = promise
    BY <1>4 DEF Batch!Timer, Batch!Flush
  <2>2. Held(queue', batches', promise') /\ queue' = <<>>
    BY <1>1, <2>1, FlushHolds DEF BatchInv
  <2>3. QED
    BY <1>2, <2>1, <2>2 DEF BatchInv
<1>5. ASSUME NEW b \in batches, Batch!Processed(b) \/ Batch!BatchFails(b)
      PROVE  BatchInv'
  BY <1>5, SettleHolds DEF Batch!Processed, Batch!BatchFails
<1>6. CASE UNCHANGED Batch!vars
  BY <1>6 DEF Batch!vars, BatchInv, Held
<1>7. QED
  BY <1>3, <1>4, <1>5, <1>6, AloneHolds DEF Batch!Next

\* add() and flush(): every pending item is once in the queue, whose timer runs, or once in a
\* batch of at most maxBatchSize, for any number of items, additions and batches under way.
THEOREM BatchesHoldItems == Batch!Spec => []Batch!ItemsHeld
BY InitBatch, NextBatch, BatchMeans, PTL DEF Batch!Spec

-----------------------------------------------------------------------------
(***************************************************************************)
(* RequestDeduplicator.  A registered flight is live and registered under  *)
(* its own key; a live flight that is not registered was forgotten;        *)
(* whoever joined was keyed by what the cache of bodies says; and the key  *)
(* of a body that cannot be serialized is no other body's.                 *)
(***************************************************************************)
FlightsRegistered ==
  \A k \in Dedup!Keys : inflight[k] # Dedup!None =>
    inflight[k] \in flights /\ asked[inflight[k]].key = k

FlightsKnown ==
  \A c \in flights :
    /\ joined[c] = c
    /\ inflight[asked[c].key] = c \/ asked[c].key \in forgotten

JoinedKeyed ==
  \A c \in Callers : joined[c] # Dedup!None =>
    /\ asked[c].body \in Bodies /\ joined[joined[c]] # Dedup!None
    /\ asked[joined[c]].key = asked[c].key
    /\ cachedKey[asked[c].body] = asked[c].key

FallbackKeyed ==
  \A b \in Bodies : cachedKey[b] # -1 => (cachedKey[b] = Dedup!Fallback <=> b \in Circular)

DedupInv ==
  /\ Dedup!TypeOK /\ ~settledJoin
  /\ FlightsRegistered /\ FlightsKnown /\ JoinedKeyed /\ FallbackKeyed

\* What is needed of the keys.
LEMMA DedupKeys ==
  /\ MaxContent \in Nat /\ Dedup!Keys \subseteq Nat
  /\ Dedup!Contents \subseteq Dedup!Keys /\ 0 \in Dedup!Contents
  /\ Dedup!Fallback \in Dedup!Keys \ Dedup!Contents
<1>1. MaxContent \in Nat
  BY StandaloneAssumption
<1>2. QED
  BY <1>1 DEF Dedup!Keys, Dedup!Contents, Dedup!Fallback

LEMMA InitDedup == Dedup!Init => DedupInv
<1>. SUFFICES ASSUME Dedup!Init PROVE DedupInv
  OBVIOUS
<1>1. 0 \in Dedup!Keys /\ 0 \in Dedup!Contents /\ 0 \in Nat
  BY DedupKeys
<1>2. Dedup!TypeOK
  BY <1>1 DEF Dedup!Init, Dedup!TypeOK
<1>3. FlightsRegistered /\ FlightsKnown /\ JoinedKeyed /\ FallbackKeyed
  BY DEF Dedup!Init, FlightsRegistered, FlightsKnown, JoinedKeyed, FallbackKeyed
<1>4. QED
  BY <1>2, <1>3 DEF Dedup!Init, DedupInv

LEMMA KeyOfBody ==
  ASSUME content \in [Bodies -> Dedup!Contents], cachedKey \in [Bodies -> Dedup!Keys \cup {-1}],
         FallbackKeyed, NEW b \in Bodies
  PROVE  /\ Dedup!DedupKey(b) \in Dedup!Keys
         /\ cachedKey[b] \in Dedup!Keys => Dedup!DedupKey(b) = cachedKey[b]
         /\ Dedup!DedupKey(b) = Dedup!Fallback <=> b \in Circular
<1>2. \A k \in Dedup!Keys : k >= 0 /\ k # -1
  BY DedupKeys
<1>3. content[b] \in Dedup!Contents /\ cachedKey[b] \in Dedup!Keys \cup {-1}
  OBVIOUS
<1>4. CASE cachedKey[b] \in Dedup!Keys
  <2>1. Dedup!DedupKey(b) = cachedKey[b] /\ cachedKey[b] # -1
    BY <1>2, <1>4 DEF Dedup!DedupKey
  <2>2. QED
    BY <1>4, <2>1 DEF FallbackKeyed
<1>5. CASE cachedKey[b] = -1
  <2>1. ~(cachedKey[b] >= 0) /\ cachedKey[b] \notin Dedup!Keys
    BY <1>2, <1>5
  <2>2. Dedup!DedupKey(b) = IF b \in Circular THEN Dedup!Fallback ELSE content[b]
    BY <2>1 DEF Dedup!DedupKey
  <2>3. QED
    BY <1>3, <2>1, <2>2, DedupKeys
<1>6. QED
  BY <1>3, <1>4, <1>5

LEMMA DeduplicateStep ==
  ASSUME DedupInv, NEW c \in Callers, NEW b \in Bodies, Dedup!Deduplicate(c, b)
  PROVE  DedupInv'
<1> DEFINE key == Dedup!DedupKey(b)
           existing == inflight[key]
<1>1. /\ joined[c] = Dedup!None /\ c # Dedup!None
      /\ cachedKey' = [cachedKey EXCEPT ![b] = key]
      /\ asked' = [asked EXCEPT ![c] = [body |-> b, content |-> content[b], key |-> key]]
      /\ IF existing # Dedup!None
         THEN /\ joined' = [joined EXCEPT ![c] = existing]
              /\ settledJoin' = (settledJoin \/ existing \notin flights)
              /\ savedRequests' = savedRequests + 1
              /\ UNCHANGED <<inflight, flights>>
         ELSE /\ joined' = [joined EXCEPT ![c] = c]
              /\ inflight' = [inflight EXCEPT ![key] = c] /\ flights' = flights \cup {c}
              /\ UNCHANGED <<settledJoin, savedRequests>>
      /\ UNCHANGED <<content, forgotten>>
  BY StandaloneAssumption DEF Dedup!Deduplicate, Dedup!None
<1>2. /\ content \in [Bodies -> Dedup!Contents] /\ cachedKey \in [Bodies -> Dedup!Keys \cup {-1}]
      /\ inflight \in [Dedup!Keys -> Callers \cup {Dedup!None}] /\ flights \in SUBSET Callers
      /\ asked \in [Callers -> [body : Bodies \cup {Dedup!None}, content : Dedup!Contents, key : Dedup!Keys]]
      /\ joined \in [Callers -> Callers \cup {Dedup!None}] /\ settledJoin \in BOOLEAN
      /\ forgotten \in SUBSET Dedup!Keys /\ savedRequests \in Nat
  BY DEF DedupInv, Dedup!TypeOK
<1>3. /\ key \in Dedup!Keys /\ (cachedKey[b] \in Dedup!Keys => key = cachedKey[b])
      /\ key = Dedup!Fallback <=> b \in Circular
  BY <1>2, KeyOfBody DEF DedupInv
<1>. HIDE DEF key
<1>4. /\ \A x \in Callers : asked'[x] = IF x = c THEN [body |-> b, content |-> content[b], key |-> key]
                                               ELSE asked[x]
      /\ \A x \in Bodies : cachedKey'[x] = IF x = b THEN key ELSE cachedKey[x]
  BY <1>1, <1>2
<1>5. asked'[c].body = b /\ asked'[c].key = key
  BY <1>4
<1>6. c \notin flights
  BY <1>1 DEF DedupInv, FlightsKnown
<1>7. \A x \in Callers : joined[x] # Dedup!None =>
        /\ asked'[x] = asked[x] /\ cachedKey'[asked[x].body] = cachedKey[asked[x].body]
        /\ asked[x].key \in Dedup!Keys
  BY <1>1, <1>2, <1>3, <1>4 DEF DedupInv, JoinedKeyed
<1>11. FallbackKeyed'
  BY <1>3, <1>4 DEF DedupInv, FallbackKeyed
<1>8. CASE existing # Dedup!None
  <2>1. existing \in flights /\ asked[existing].key = key /\ joined[existing] = existing
        /\ existing # Dedup!None /\ existing \in Callers
    BY <1>2, <1>3, <1>8 DEF DedupInv, FlightsRegistered, FlightsKnown
  <2>2. /\ \A x \in Callers : joined'[x] = IF x = c THEN existing ELSE joined[x]
        /\ UNCHANGED <<inflight, flights, content, forgotten>> /\ savedRequests' = savedRequests + 1
        /\ settledJoin' = settledJoin
    BY <1>1, <1>2, <1>8, <2>1
  <2>3. Dedup!TypeOK'
    <3>1. /\ asked' \in [Callers -> [body : Bodies \cup {Dedup!None}, content : Dedup!Contents, key : Dedup!Keys]]
          /\ cachedKey' \in [Bodies -> Dedup!Keys \cup {-1}]
      BY <1>1, <1>2, <1>3
    <3>2. joined' \in [Callers -> Callers \cup {Dedup!None}]
      BY <1>1, <1>2, <1>8, <2>1
    <3>3. QED
      BY <1>2, <2>2, <3>1, <3>2 DEF Dedup!TypeOK, Dedup!Keys, Dedup!Contents, Dedup!Fallback
  <2>4. FlightsRegistered' /\ FlightsKnown'
    BY <1>2, <1>4, <1>6, <2>2 DEF DedupInv, FlightsRegistered, FlightsKnown, Dedup!Keys, Dedup!Contents, Dedup!Fallback
  <2>5. JoinedKeyed'
    <3>1. ASSUME NEW x \in Callers, joined'[x] # Dedup!None
          PROVE  /\ asked'[x].body \in Bodies /\ joined'[joined'[x]] # Dedup!None
                 /\ asked'[joined'[x]].key = asked'[x].key
                 /\ cachedKey'[asked'[x].body] = asked'[x].key
      <4>1. CASE x = c
        BY <1>4, <1>5, <1>7, <2>1, <2>2, <4>1
      <4>2. CASE x # c
        <5>1. joined'[x] = joined[x] /\ joined[x] # Dedup!None /\ joined[x] \in Callers
          BY <1>2, <2>2, <3>1, <4>2
        <5>2. /\ asked[x].body \in Bodies /\ joined[joined[x]] # Dedup!None
              /\ asked[joined[x]].key = asked[x].key
              /\ cachedKey[asked[x].body] = asked[x].key
          BY <5>1 DEF DedupInv, JoinedKeyed
        <5>3. joined'[joined[x]] = joined[joined[x]]
          BY <1>1, <2>2, <5>1, <5>2
        <5>4. QED
          BY <1>7, <5>1, <5>2, <5>3
      <4>3. QED
        BY <4>1, <4>2
    <3>2. QED
      BY <3>1 DEF JoinedKeyed
  <2>6. QED
    BY <1>11, <2>2, <2>3, <2>4, <2>5 DEF DedupInv
<1>9. CASE existing = Dedup!None
  <2>1. /\ \A x \in Callers : joined'[x] = IF x = c THEN c ELSE joined[x]
        /\ \A k \in Dedup!Keys : inflight'[k] = IF k = key THEN c ELSE inflight[k]
        /\ flights' = flights \cup {c} /\ UNCHANGED <<settledJoin, savedRequests, content, forgotten>>
    BY <1>1, <1>2, <1>9
  <2>2. Dedup!TypeOK'
    <3>1. /\ asked' \in [Callers -> [body : Bodies \cup {Dedup!None}, content : Dedup!Contents, key : Dedup!Keys]]
          /\ cachedKey' \in [Bodies -> Dedup!Keys \cup {-1}]
      BY <1>1, <1>2, <1>3
    <3>2. /\ joined' \in [Callers -> Callers \cup {Dedup!None}]
          /\ inflight' \in [Dedup!Keys -> Callers \cup {Dedup!None}]
      BY <1>1, <1>2, <1>9
    <3>3. QED
      BY <1>2, <2>1, <3>1, <3>2 DEF Dedup!TypeOK, Dedup!Keys, Dedup!Contents, Dedup!Fallback
  <2>3. FlightsRegistered'
    <3>1. ASSUME NEW k \in Dedup!Keys, inflight'[k] # Dedup!None
          PROVE  inflight'[k] \in flights' /\ asked'[inflight'[k]].key = k
      <4>1. CASE k = key
        BY <1>5, <2>1, <4>1
      <4>2. CASE k # key
        BY <1>2, <1>4, <1>6, <2>1, <3>1, <4>2 DEF DedupInv, FlightsRegistered
      <4>3. QED
        BY <4>1, <4>2
    <3>2. QED
      BY <3>1 DEF FlightsRegistered, Dedup!Keys, Dedup!Contents, Dedup!Fallback
  <2>4. FlightsKnown'
    <3>1. ASSUME NEW x \in flights'
          PROVE  joined'[x] = x /\ (inflight'[asked'[x].key] = x \/ asked'[x].key \in forgotten')
      <4>1. CASE x = c
        BY <1>3, <1>5, <2>1, <4>1
      <4>2. CASE x # c
        <5>1. x \in flights /\ x \in Callers /\ asked'[x] = asked[x] /\ asked[x].key \in Dedup!Keys /\ joined'[x] = x
          BY <1>2, <1>4, <2>1, <3>1, <4>2 DEF DedupInv, FlightsKnown
        <5>2. inflight[asked[x].key] = x \/ asked[x].key \in forgotten
          BY <5>1 DEF DedupInv, FlightsKnown
        <5>3. x # Dedup!None
          BY <5>1, StandaloneAssumption DEF Dedup!None
        <5>4. QED
          BY <1>9, <2>1, <5>1, <5>2, <5>3
      <4>3. QED
        BY <4>1, <4>2
    <3>2. QED
      BY <3>1 DEF FlightsKnown
  <2>5. JoinedKeyed'
    <3>1. ASSUME NEW x \in Callers, joined'[x] # Dedup!None
          PROVE  /\ asked'[x].body \in Bodies /\ joined'[joined'[x]] # Dedup!None
                 /\ asked'[joined'[x]].key = asked'[x].key
                 /\ cachedKey'[asked'[x].body] = asked'[x].key
      <4>1. CASE x = c
        BY <1>1, <1>4, <1>5, <2>1, <4>1
      <4>2. CASE x # c
        <5>1. joined'[x] = joined[x] /\ joined[x] # Dedup!None /\ joined[x] \in Callers
          BY <1>2, <2>1, <3>1, <4>2
        <5>2. /\ asked[x].body \in Bodies /\ joined[joined[x]] # Dedup!None
              /\ asked[joined[x]].key = asked[x].key
              /\ cachedKey[asked[x].body] = asked[x].key
          BY <5>1 DEF DedupInv, JoinedKeyed
        <5>3. joined'[joined[x]] = joined[joined[x]]
          BY <1>1, <2>1, <5>1, <5>2
        <5>4. QED
          BY <1>7, <5>1, <5>2, <5>3
      <4>3. QED
        BY <4>1, <4>2
    <3>2. QED
      BY <3>1 DEF JoinedKeyed
  <2>6. QED
    BY <1>11, <2>1, <2>2, <2>3, <2>4, <2>5 DEF DedupInv
<1>10. QED
  BY <1>8, <1>9

LEMMA NextDedup == DedupInv /\ [Dedup!Next]_Dedup!vars => DedupInv'
<1>. SUFFICES ASSUME DedupInv, [Dedup!Next]_Dedup!vars PROVE DedupInv'
  OBVIOUS
<1>1. /\ content \in [Bodies -> Dedup!Contents] /\ cachedKey \in [Bodies -> Dedup!Keys \cup {-1}]
      /\ inflight \in [Dedup!Keys -> Callers \cup {Dedup!None}] /\ flights \in SUBSET Callers
      /\ asked \in [Callers -> [body : Bodies \cup {Dedup!None}, content : Dedup!Contents, key : Dedup!Keys]]
      /\ joined \in [Callers -> Callers \cup {Dedup!None}] /\ settledJoin \in BOOLEAN
      /\ forgotten \in SUBSET Dedup!Keys /\ savedRequests \in Nat
  BY DEF DedupInv, Dedup!TypeOK
<1>2. ASSUME NEW c \in Callers, NEW ok \in BOOLEAN, Dedup!Settle(c, ok)
      PROVE  DedupInv'
  <2>1. /\ c \in flights /\ flights' = flights \ {c}
        /\ inflight' = [inflight EXCEPT ![asked[c].key] = Dedup!None]
        /\ UNCHANGED <<content, cachedKey, asked, joined, settledJoin, forgotten, savedRequests>>
    BY <1>2 DEF Dedup!Settle, Dedup!Released
  <2>2. asked[c].key \in Dedup!Keys
    BY <1>1
  <2>3. \A k \in Dedup!Keys : inflight'[k] = IF k = asked[c].key THEN Dedup!None ELSE inflight[k]
    BY <1>1, <2>1
  <2>4. Dedup!TypeOK' /\ JoinedKeyed' /\ FallbackKeyed'
    BY <1>1, <2>1 DEF Dedup!TypeOK, Dedup!Keys, Dedup!Contents, Dedup!Fallback, JoinedKeyed,
                      FallbackKeyed, DedupInv
  <2>5. FlightsRegistered'
    <3>1. ASSUME NEW k \in Dedup!Keys, inflight'[k] # Dedup!None
          PROVE  inflight'[k] \in flights' /\ asked'[inflight'[k]].key = k
      <4>1. k # asked[c].key /\ inflight'[k] = inflight[k] /\ inflight[k] # Dedup!None
        BY <2>3, <3>1
      <4>2. inflight[k] \in flights /\ asked[inflight[k]].key = k
        BY <4>1 DEF DedupInv, FlightsRegistered
      <4>3. QED
        BY <2>1, <4>1, <4>2
    <3>2. QED
      BY <3>1 DEF FlightsRegistered, Dedup!Keys, Dedup!Contents, Dedup!Fallback
  <2>6. FlightsKnown'
    <3>1. ASSUME NEW x \in flights, x # c
          PROVE  inflight'[asked[x].key] = x \/ asked[x].key \in forgotten
      <4>1. asked[x].key \in Dedup!Keys
        BY <1>1
      <4>2. inflight[asked[x].key] = x \/ asked[x].key \in forgotten
        BY DEF DedupInv, FlightsKnown
      <4>3. CASE inflight[asked[x].key] = x /\ asked[x].key = asked[c].key
        BY <2>1, <3>1, <4>3 DEF DedupInv, FlightsKnown
      <4>4. QED
        BY <2>3, <4>1, <4>2, <4>3
    <3>2. QED
      BY <2>1, <3>1 DEF FlightsKnown, DedupInv
  <2>7. QED
    BY <2>1, <2>4, <2>5, <2>6 DEF DedupInv
<1>3. ASSUME NEW keys \in SUBSET Dedup!Keys, Dedup!Forget(keys)
      PROVE  DedupInv'
  <2>1. /\ \A k \in Dedup!Keys : inflight'[k] = IF k \in keys THEN Dedup!None ELSE inflight[k]
        /\ inflight' \in [Dedup!Keys -> Callers \cup {Dedup!None}]
        /\ forgotten' = forgotten \cup {k \in keys : inflight[k] # Dedup!None}
        /\ UNCHANGED <<content, cachedKey, flights, asked, joined, settledJoin, savedRequests>>
    BY <1>1, <1>3 DEF Dedup!Forget
  <2>2. Dedup!TypeOK' /\ JoinedKeyed' /\ FallbackKeyed'
    BY <1>1, <2>1 DEF Dedup!TypeOK, Dedup!Keys, Dedup!Contents, Dedup!Fallback, JoinedKeyed,
                      FallbackKeyed, DedupInv
  <2>3. FlightsRegistered'
    BY <2>1 DEF FlightsRegistered, DedupInv, Dedup!Keys, Dedup!Contents, Dedup!Fallback
  <2>4. FlightsKnown'
    <3>1. ASSUME NEW x \in flights
          PROVE  inflight'[asked[x].key] = x \/ asked[x].key \in forgotten'
      <4>1. asked[x].key \in Dedup!Keys /\ x # Dedup!None
        BY <1>1, StandaloneAssumption DEF Dedup!None
      <4>2. inflight[asked[x].key] = x \/ asked[x].key \in forgotten
        BY DEF DedupInv, FlightsKnown
      <4>3. QED
        BY <2>1, <4>1, <4>2
    <3>2. QED
      BY <2>1, <3>1 DEF FlightsKnown, DedupInv
  <2>5. QED
    BY <2>1, <2>2, <2>3, <2>4 DEF DedupInv
<1>4. ASSUME NEW b \in Bodies, Dedup!ChangeBody(b)
      PROVE  DedupInv'
  <2>1. /\ content[b] < MaxContent /\ content' = [content EXCEPT ![b] = @ + 1]
        /\ UNCHANGED <<cachedKey, inflight, flights, asked, joined, settledJoin, forgotten, savedRequests>>
    BY <1>4 DEF Dedup!ChangeBody
  <2>2. content' \in [Bodies -> Dedup!Contents]
    <3>1. content[b] \in 0 .. MaxContent /\ MaxContent \in Nat
      BY <1>1, DedupKeys DEF Dedup!Contents
    <3>2. content[b] + 1 \in Dedup!Contents
      BY <2>1, <3>1 DEF Dedup!Contents
    <3>3. QED
      BY <1>1, <2>1, <3>2
  <2>3. QED
    BY <1>1, <2>1, <2>2 DEF DedupInv, Dedup!TypeOK, Dedup!Keys, Dedup!Contents, Dedup!Fallback, FlightsRegistered, FlightsKnown, JoinedKeyed, FallbackKeyed
<1>5. CASE UNCHANGED Dedup!vars
  BY <1>5 DEF Dedup!vars, DedupInv, Dedup!TypeOK, Dedup!Keys, Dedup!Contents, Dedup!Fallback, FlightsRegistered, FlightsKnown, JoinedKeyed, FallbackKeyed
<1>6. QED
  BY <1>2, <1>3, <1>4, <1>5, DeduplicateStep DEF Dedup!Next, Dedup!Evict, Dedup!Clear

LEMMA DedupShares == DedupInv => FlightsShared
<1>. SUFFICES ASSUME DedupInv PROVE Dedup!FlightsShared
  BY DEF FlightsShared
<1>1. ASSUME NEW c \in flights, NEW d \in flights, c # d, asked[c].key = asked[d].key
      PROVE  asked[c].key \in forgotten
  BY <1>1 DEF DedupInv, FlightsKnown
<1>2. ASSUME NEW c \in Callers, joined[c] # Dedup!None, asked[joined[c]].content # asked[c].content
      PROVE  \/ {asked[c].body, asked[joined[c]].body} \subseteq Circular
             \/ \E d \in {c, joined[c]} :
                  asked[d].body \notin Circular /\ cachedKey[asked[d].body] # asked[d].content
  <2>1. joined[c] \in Callers
    BY <1>2 DEF DedupInv, Dedup!TypeOK
  <2>2. /\ cachedKey[asked[c].body] = asked[c].key /\ asked[joined[c]].key = asked[c].key
        /\ cachedKey[asked[joined[c]].body] = asked[joined[c]].key
        /\ asked[c].body \in Bodies /\ asked[joined[c]].body \in Bodies
    BY <1>2, <2>1 DEF DedupInv, JoinedKeyed
  <2>3. asked[c].key # -1
    <3>1. asked[c].key \in Dedup!Keys
      BY DEF DedupInv, Dedup!TypeOK
    <3>2. QED
      BY <3>1, DedupKeys
  <2>4. asked[c].body \in Circular <=> asked[joined[c]].body \in Circular
    BY <2>2, <2>3 DEF DedupInv, FallbackKeyed
  <2>5. QED
    BY <1>2, <2>2, <2>4
<1>3. QED
  BY <1>1, <1>2 DEF DedupInv, Dedup!FlightsShared

\* deduplicate() gives nobody an outcome from before the call, keeps one flight per key,
\* and shares it only between callers who ask for the same or whose bodies, both of them,
\* cannot be serialized, with the other exceptions the property names, for any callers,
\* bodies and changes of bodies.
THEOREM FlightsAreShared == Dedup!Spec => []FlightsShared
BY InitDedup, NextDedup, DedupShares, PTL DEF Dedup!Spec

\* A step of one caller, by what becomes of it.
LEMMA CallBecomes ==
  ASSUME NEW c \in Callers, NEW state,
         Dedup!AsCall(c) # state, Dedup!AsCall(c)' = state,
         \A x \in Callers : x # c => Dedup!AsCall(x)' = Dedup!AsCall(x)
  PROVE  Dedup!Shared!Become(c, state)
<1>. DEFINE callOf == [x \in Callers |-> Dedup!AsCall(x)]
<1>1. callOf[c] # state /\ callOf' = [callOf EXCEPT ![c] = state]
  OBVIOUS
<1>2. QED
  BY <1>1 DEF Dedup!Shared!Become

LEMMA DeduplicateShares ==
  ASSUME DedupInv, NEW c \in Callers, NEW b \in Bodies, Dedup!Deduplicate(c, b)
  PROVE  Dedup!Shared!Next
<1>. DEFINE callOf == [x \in Callers |-> Dedup!AsCall(x)]
            keyOf == [x \in Callers |-> IF joined[x] = Dedup!None THEN -1 ELSE asked[x].key]
            leader == [x \in Callers |-> IF joined[x] = x THEN Dedup!None ELSE joined[x]]
<1>1. /\ cachedKey \in [Bodies -> Dedup!Keys \cup {-1}] /\ content \in [Bodies -> Dedup!Contents]
      /\ inflight \in [Dedup!Keys -> Callers \cup {Dedup!None}] /\ flights \in SUBSET Callers
      /\ asked \in [Callers -> [body : Bodies \cup {Dedup!None}, content : Dedup!Contents, key : Dedup!Keys]]
      /\ joined \in [Callers -> Callers \cup {Dedup!None}]
  BY DEF DedupInv, Dedup!TypeOK
<1>2. Dedup!DedupKey(b) \in Dedup!Keys
  BY <1>1, KeyOfBody DEF DedupInv
<1>3. PICK key \in Dedup!Keys : key = Dedup!DedupKey(b)
  BY <1>2
<1>4. PICK existing : existing = inflight[key]
  OBVIOUS
<1>5. /\ joined[c] = Dedup!None /\ c # Dedup!None
      /\ asked' = [asked EXCEPT ![c] = [body |-> b, content |-> content[b], key |-> key]]
      /\ IF existing # Dedup!None
         THEN joined' = [joined EXCEPT ![c] = existing] /\ UNCHANGED <<inflight, flights>>
         ELSE /\ joined' = [joined EXCEPT ![c] = c]
              /\ inflight' = [inflight EXCEPT ![key] = c] /\ flights' = flights \cup {c}
      /\ UNCHANGED forgotten
  BY <1>3, <1>4, StandaloneAssumption DEF Dedup!Deduplicate, Dedup!None
<1>6. /\ \A x \in Callers : asked'[x].key = IF x = c THEN key ELSE asked[x].key
      /\ c \notin flights /\ Dedup!AsCall(c) = "idle"
  BY <1>5, <1>1 DEF DedupInv, FlightsKnown, Dedup!AsCall
<1>7. CASE existing # Dedup!None
  <2>1. existing \in flights /\ asked[existing].key = key /\ joined[existing] = existing
        /\ existing \in Callers /\ existing # c
    BY <1>5, <1>1, <1>3, <1>4, <1>7 DEF DedupInv, FlightsRegistered, FlightsKnown
  <2>2. \A x \in Callers : joined'[x] = IF x = c THEN existing ELSE joined[x]
    BY <1>5, <1>1, <1>7
  <2>3. Dedup!AsCall(c)' = "joined" /\ \A x \in Callers : x # c => Dedup!AsCall(x)' = Dedup!AsCall(x)
    BY <1>5, <1>7, <2>1, <2>2 DEF Dedup!AsCall
  <2>4. Dedup!Shared!Become(c, "joined")
    BY <1>6, <2>3, CallBecomes
  <2>5. callOf[c] = "idle" /\ callOf[existing] = "flying" /\ keyOf[existing] = key
    BY <1>5, <1>6, <1>7, <2>1 DEF Dedup!AsCall
  <2>6. keyOf' = [keyOf EXCEPT ![c] = key] /\ leader' = [leader EXCEPT ![c] = existing]
    BY <1>6, <1>7, <2>1, <2>2
  <2>7. Dedup!Shared!Join(c, key)
    BY <1>5, <1>4, <1>7, <2>4, <2>5, <2>6 DEF Dedup!Shared!Join, Dedup!None
  <2>8. \E k \in Dedup!Keys : Dedup!Shared!Join(c, k)
    BY <1>3, <2>7
  <2>9. QED
    BY <2>8 DEF Dedup!Shared!Next
<1>8. CASE existing = Dedup!None
  <2>1. \A x \in Callers : joined'[x] = IF x = c THEN c ELSE joined[x]
    BY <1>5, <1>1, <1>8
  <2>2. Dedup!AsCall(c)' = "flying" /\ \A x \in Callers : x # c => Dedup!AsCall(x)' = Dedup!AsCall(x)
    BY <1>5, <1>8, <2>1 DEF Dedup!AsCall
  <2>3. Dedup!Shared!Become(c, "flying")
    BY <1>6, <2>2, CallBecomes
  <2>4. inflight' = [x \in Dedup!Keys |-> IF x = key THEN c ELSE inflight[x]]
    BY <1>5, <1>1, <1>8
  <2>5. \A x \in Callers :
          /\ keyOf'[x] = IF x = c THEN key ELSE keyOf[x]
          /\ leader'[x] = leader[x]
    BY <1>5, <1>6, <2>1
  <2>6. keyOf' = [keyOf EXCEPT ![c] = key] /\ leader' = leader
    BY <2>5
  <2>7. callOf[c] = "idle" /\ inflight[key] = Dedup!None
    BY <1>4, <1>6, <1>8
  <2>8. Dedup!Shared!Fly(c, key)
    BY <1>5, <2>3, <2>4, <2>6, <2>7 DEF Dedup!Shared!Fly, Dedup!None
  <2>9. \E k \in Dedup!Keys : Dedup!Shared!Fly(c, k)
    BY <1>3, <2>8
  <2>10. QED
    BY <2>9 DEF Dedup!Shared!Next
<1>9. QED
  BY <1>7, <1>8

LEMMA StepShares == DedupInv /\ [Dedup!Next]_Dedup!vars => [Dedup!Shared!Next]_(Dedup!Shared!vars)
<1>. SUFFICES ASSUME DedupInv, [Dedup!Next]_Dedup!vars PROVE [Dedup!Shared!Next]_(Dedup!Shared!vars)
  OBVIOUS
<1>1. /\ inflight \in [Dedup!Keys -> Callers \cup {Dedup!None}] /\ flights \in SUBSET Callers
      /\ forgotten \in SUBSET Dedup!Keys
  BY DEF DedupInv, Dedup!TypeOK
<1>2. ASSUME NEW c \in Callers, NEW ok \in BOOLEAN, Dedup!Settle(c, ok) PROVE Dedup!Shared!Next
  <2>1. /\ c \in flights /\ flights' = flights \ {c} /\ joined[c] = c /\ c # Dedup!None
        /\ inflight' = [inflight EXCEPT ![asked[c].key] = Dedup!None]
        /\ UNCHANGED <<asked, joined, forgotten>>
    BY <1>2, StandaloneAssumption DEF Dedup!Settle, Dedup!Released, Dedup!None, DedupInv, FlightsKnown
  <2>2. /\ Dedup!AsCall(c) = "flying" /\ Dedup!AsCall(c)' = "landed"
        /\ \A x \in Callers : x # c => Dedup!AsCall(x)' = Dedup!AsCall(x)
    BY <2>1 DEF Dedup!AsCall
  <2>3. Dedup!Shared!Become(c, "landed")
    BY <2>2, CallBecomes
  <2>4. inflight' = [k \in Dedup!Keys |-> IF k = asked[c].key THEN Dedup!None ELSE inflight[k]]
    BY <1>1, <2>1
  <2>5. Dedup!Shared!Land(c, "landed")
    BY <2>1, <2>2, <2>3, <2>4 DEF Dedup!Shared!Land, Dedup!None
  <2>6. QED
    BY <2>5 DEF Dedup!Shared!Next
<1>3. ASSUME NEW keys \in SUBSET Dedup!Keys, Dedup!Forget(keys) PROVE Dedup!Shared!Next
  <2>1. /\ inflight' = [k \in Dedup!Keys |-> IF k \in keys THEN Dedup!None ELSE inflight[k]]
        /\ forgotten' = forgotten \cup {k \in keys : inflight[k] # Dedup!None}
        /\ UNCHANGED <<flights, asked, joined>>
    BY <1>3 DEF Dedup!Forget
  <2>2. Dedup!Shared!Forget(keys)
    BY <1>1, <2>1 DEF Dedup!Shared!Forget, Dedup!AsCall, Dedup!None
  <2>3. QED
    BY <2>2 DEF Dedup!Shared!Next
<1>4. ASSUME NEW b \in Bodies, Dedup!ChangeBody(b) PROVE UNCHANGED Dedup!Shared!vars
  BY <1>4 DEF Dedup!ChangeBody, Dedup!Shared!vars, Dedup!AsCall
<1>5. CASE UNCHANGED Dedup!vars
  BY <1>5 DEF Dedup!vars, Dedup!Shared!vars, Dedup!AsCall
<1>6. QED
  BY <1>2, <1>3, <1>4, <1>5, DeduplicateShares DEF Dedup!Next, Dedup!Evict, Dedup!Clear

\* deduplicate() implements OneFlightPerKey, as the client's requests do: nobody joins a
\* flight that has landed or one for another key, and a key has one flight at a time until
\* it is evicted or cleared, whatever becomes of the bodies.
THEOREM CallersShareFlights == Dedup!Spec => Dedup!ImplementsOneFlightPerKey
<1>1. Dedup!Init => Dedup!Shared!Init
  <2>. SUFFICES ASSUME Dedup!Init PROVE Dedup!Shared!Init
    OBVIOUS
  <2>1. \A c \in Callers : joined[c] = Dedup!None /\ c # Dedup!None
    BY StandaloneAssumption DEF Dedup!Init, Dedup!None
  <2>2. \A c \in Callers : Dedup!AsCall(c) = "idle"
    BY <2>1 DEF Dedup!AsCall
  <2>3. QED
    BY <2>1, <2>2 DEF Dedup!Init, Dedup!Shared!Init, Dedup!None
<1>2. QED
  BY <1>1, InitDedup, NextDedup, StepShares, PTL
     DEF Dedup!Spec, Dedup!ImplementsOneFlightPerKey, Dedup!Shared!Spec

-----------------------------------------------------------------------------
\* InfiniteQuery: unless a fetch has outlived a reset(), the pages are a run, and at most
\* one fetch in each direction, whose flag is set, will extend it.
PagesRun == \A i \in 1 .. Len(pages) - 1 : pages[i + 1] = pages[i] + 1

FetchExtends(f) ==
  /\ isFetchingNextPage \/ ~f.forward
  /\ isFetchingPreviousPage \/ f.forward
  /\ pages = <<>> => f.forward
  /\ pages # <<>> => f.page = IF f.forward THEN pages[Len(pages)] + 1 ELSE pages[1] - 1

FetchesExtend ==
  /\ \A i \in DOMAIN fetches : FetchExtends(fetches[i])
  /\ \A i, j \in DOMAIN fetches : fetches[i].forward = fetches[j].forward => i = j

PagesInv == Infinite!TypeOK /\ (~outlived => PagesRun /\ FetchesExtend)

Fetches == [page : Infinite!PageRange, forward : BOOLEAN]

LEMMA PagesTypes ==
  ASSUME PagesInv
  PROVE  /\ pages \in Seq(Infinite!PageRange) /\ fetches \in Seq(Fetches)
         /\ Len(fetches) <= MaxFetches /\ MaxFetches \in Nat
         /\ isFetching \in BOOLEAN /\ isFetchingNextPage \in BOOLEAN
         /\ isFetchingPreviousPage \in BOOLEAN /\ error \in BOOLEAN /\ outlived \in BOOLEAN
         /\ Infinite!PageRange \subseteq Int
         /\ Len(pages) \in Nat /\ (pages # <<>> => Len(pages) > 0) /\ (pages = <<>> => Len(pages) = 0)
         /\ \A i \in 1 .. Len(pages) : pages[i] \in Int
         /\ Len(fetches) \in Nat /\ DOMAIN fetches = 1 .. Len(fetches)
         /\ \A i \in DOMAIN fetches : fetches[i] \in Fetches
<1>1. /\ pages \in Seq(Infinite!PageRange) /\ fetches \in Seq(Fetches)
      /\ Len(fetches) <= MaxFetches
      /\ isFetching \in BOOLEAN /\ isFetchingNextPage \in BOOLEAN
      /\ isFetchingPreviousPage \in BOOLEAN /\ error \in BOOLEAN /\ outlived \in BOOLEAN
  BY DEF PagesInv, Infinite!TypeOK, Fetches
<1>2. Infinite!PageRange \subseteq Int /\ MaxFetches \in Nat
  BY StandaloneAssumption DEF Infinite!PageRange
<1>3. Len(pages) \in Nat /\ (pages # <<>> => Len(pages) > 0) /\ (pages = <<>> => Len(pages) = 0)
  BY <1>1, EmptySeq, LenProperties
<1>4. \A i \in 1 .. Len(pages) : pages[i] \in Int
  BY <1>1, <1>2, ElementOfSeq
<1>5. Len(fetches) \in Nat /\ DOMAIN fetches = 1 .. Len(fetches)
  BY <1>1, LenProperties
<1>6. \A i \in DOMAIN fetches : fetches[i] \in Fetches
  BY <1>1, <1>5, ElementOfSeq
<1>7. QED
  BY <1>1, <1>2, <1>3, <1>4, <1>5, <1>6

LEMMA InitPages == Infinite!Init => PagesInv
<1>. SUFFICES ASSUME Infinite!Init PROVE PagesInv
  OBVIOUS
<1>1. /\ pages = <<>> /\ fetches = <<>> /\ error = FALSE /\ outlived = FALSE /\ isFetching = FALSE
      /\ isFetchingNextPage = FALSE /\ isFetchingPreviousPage = FALSE
  BY DEF Infinite!Init
<1>2. Len(pages) = 0 /\ Len(fetches) = 0 /\ DOMAIN fetches = {}
  BY <1>1
<1>3. pages \in Seq(Infinite!PageRange) /\ fetches \in Seq(Fetches)
  BY <1>1
<1>4. 0 <= MaxFetches
  BY StandaloneAssumption
<1>5. Infinite!TypeOK
  BY <1>1, <1>2, <1>3, <1>4 DEF Infinite!TypeOK, Fetches
<1>6. PagesRun /\ FetchesExtend
  BY <1>2 DEF PagesRun, FetchesExtend
<1>7. QED
  BY <1>5, <1>6 DEF PagesInv

\* A fetch that joins the others extends the pages.
LEMMA FetchPages ==
  ASSUME PagesInv, NEW p, NEW fwd \in BOOLEAN, Infinite!Fetch(p, fwd),
         isFetchingNextPage' = (isFetchingNextPage \/ fwd),
         isFetchingPreviousPage' = (isFetchingPreviousPage \/ ~fwd),
         fwd => ~isFetchingNextPage, ~fwd => ~isFetchingPreviousPage,
         pages = <<>> => fwd,
         pages # <<>> => p = IF fwd THEN pages[Len(pages)] + 1 ELSE pages[1] - 1
  PROVE  PagesInv'
<1>. DEFINE f == [page |-> p, forward |-> fwd]
<1>1. /\ p \in Infinite!PageRange /\ Len(fetches) < MaxFetches
      /\ fetches' = Append(fetches, f)
      /\ isFetching' = TRUE /\ error' = FALSE /\ pages' = pages /\ outlived' = outlived
  BY DEF Infinite!Fetch
<1>2. f \in Fetches /\ f.page = p /\ f.forward = fwd
  BY <1>1 DEF Fetches
<1>. HIDE DEF f
<1>3. /\ pages \in Seq(Infinite!PageRange) /\ fetches \in Seq(Fetches)
      /\ MaxFetches \in Nat /\ Len(fetches) \in Nat /\ DOMAIN fetches = 1 .. Len(fetches)
      /\ isFetchingNextPage \in BOOLEAN /\ isFetchingPreviousPage \in BOOLEAN
      /\ outlived \in BOOLEAN
  BY PagesTypes
<1>4. /\ fetches' \in Seq(Fetches) /\ Len(fetches') = Len(fetches) + 1
      /\ DOMAIN fetches' = 1 .. Len(fetches) + 1
      /\ fetches'[Len(fetches) + 1] = f
      /\ \A k \in 1 .. Len(fetches) : fetches'[k] = fetches[k]
  BY <1>1, <1>2, <1>3, AppendElements
<1>5. Len(fetches') <= MaxFetches
  BY <1>1, <1>3, <1>4
<1>6. isFetchingNextPage' \in BOOLEAN /\ isFetchingPreviousPage' \in BOOLEAN
  BY <1>3
<1>7. Infinite!TypeOK'
  BY <1>1, <1>3, <1>4, <1>5, <1>6 DEF Infinite!TypeOK, Infinite!PageRange, Fetches
<1>8. ASSUME ~outlived PROVE PagesRun' /\ FetchesExtend'
  <2>1. PagesRun /\ FetchesExtend
    BY <1>8 DEF PagesInv
  <2>2. \A k \in 1 .. Len(fetches) + 1 : k \in 1 .. Len(fetches) \/ k = Len(fetches) + 1
    BY <1>3
  <2>3. \A k \in 1 .. Len(fetches) : FetchExtends(fetches[k])
    BY <1>3, <2>1 DEF FetchesExtend
  <2>4. ASSUME NEW k \in DOMAIN fetches'
        PROVE  /\ isFetchingNextPage' \/ ~fetches'[k].forward
               /\ isFetchingPreviousPage' \/ fetches'[k].forward
               /\ pages = <<>> => fetches'[k].forward
               /\ pages # <<>> => fetches'[k].page = IF fetches'[k].forward THEN pages[Len(pages)] + 1
                                                     ELSE pages[1] - 1
    <3>1. CASE k \in 1 .. Len(fetches)
      BY <1>3, <1>4, <2>3, <3>1 DEF FetchExtends
    <3>2. CASE k = Len(fetches) + 1
      BY <1>2, <1>4, <3>2
    <3>3. QED
      BY <1>4, <2>2, <3>1, <3>2
  <2>5. ASSUME NEW j \in DOMAIN fetches', NEW k \in DOMAIN fetches', fetches'[j].forward = fetches'[k].forward
        PROVE  j = k
    <3>1. \A i \in 1 .. Len(fetches) : fetches[i].forward # fwd
      <4>1. \A i \in 1 .. Len(fetches) : fetches[i].forward \in BOOLEAN
        BY <1>3, PagesTypes DEF Fetches
      <4>2. QED
        BY <2>3, <4>1 DEF FetchExtends
    <3>2. \A x, y \in 1 .. Len(fetches) : fetches[x].forward = fetches[y].forward => x = y
      BY <1>3, <2>1 DEF FetchesExtend
    <3>3. CASE j \in 1 .. Len(fetches) /\ k \in 1 .. Len(fetches)
      BY <1>4, <2>5, <3>2, <3>3
    <3>4. CASE j = Len(fetches) + 1 /\ k = Len(fetches) + 1
      BY <3>4
    <3>5. CASE j = Len(fetches) + 1 /\ k \in 1 .. Len(fetches)
      BY <1>2, <1>4, <2>5, <3>1, <3>5
    <3>6. CASE j \in 1 .. Len(fetches) /\ k = Len(fetches) + 1
      BY <1>2, <1>4, <2>5, <3>1, <3>6
    <3>7. QED
      BY <1>4, <2>2, <3>3, <3>4, <3>5, <3>6
  <2>6. FetchesExtend'
    BY <1>1, <2>4, <2>5 DEF FetchesExtend, FetchExtends
  <2>7. QED
    BY <1>1, <2>1, <2>6 DEF PagesRun
<1>9. QED
  BY <1>1, <1>7, <1>8 DEF PagesInv

\* A fetch that ends leaves the others, which go the other way.
LEMMA SettlePages ==
  ASSUME PagesInv, NEW i \in DOMAIN fetches, Infinite!Settle(i)
  PROVE  /\ fetches' \in Seq(Fetches) /\ Len(fetches') <= MaxFetches
         /\ {isFetching', isFetchingNextPage', isFetchingPreviousPage'} \subseteq BOOLEAN
         /\ outlived' = outlived
         /\ ~outlived =>
              /\ \A j, k \in DOMAIN fetches' : j = k
              /\ \A k \in DOMAIN fetches' :
                   /\ \E j \in DOMAIN fetches : j # i /\ fetches'[k] = fetches[j]
                   /\ fetches'[k].forward = ~fetches[i].forward
                   /\ isFetchingNextPage' \/ ~fetches'[k].forward
                   /\ isFetchingPreviousPage' \/ fetches'[k].forward
<1>1. /\ fetches' = Infinite!RemoveAt(fetches, i) /\ isFetching' = FALSE
      /\ isFetchingNextPage' = (isFetchingNextPage /\ ~fetches[i].forward)
      /\ isFetchingPreviousPage' = (isFetchingPreviousPage /\ fetches[i].forward)
      /\ outlived' = outlived
  BY DEF Infinite!Settle
<1>2. fetches' = RemoveAt(fetches, i)
  BY <1>1 DEF Infinite!RemoveAt, RemoveAt
<1>3. /\ fetches \in Seq(Fetches) /\ Len(fetches) \in Nat /\ DOMAIN fetches = 1 .. Len(fetches)
      /\ Len(fetches) <= MaxFetches /\ MaxFetches \in Nat
      /\ isFetchingNextPage \in BOOLEAN /\ isFetchingPreviousPage \in BOOLEAN
      /\ \A j \in DOMAIN fetches : fetches[j] \in Fetches
  BY PagesTypes
<1>4. /\ fetches' \in Seq(Fetches) /\ Len(fetches') = Len(fetches) - 1
      /\ \A k \in 1 .. Len(fetches) - 1 : /\ Position(k, i) \in DOMAIN fetches \ {i}
                                          /\ fetches'[k] = fetches[Position(k, i)]
      /\ \A j, k \in 1 .. Len(fetches) - 1 : Position(j, i) = Position(k, i) => j = k
  <2>. DEFINE r == RemoveAt(fetches, i)
  <2>1. /\ r \in Seq(Fetches) /\ Len(r) = Len(fetches) - 1
        /\ \A k \in 1 .. Len(fetches) - 1 : /\ Position(k, i) \in DOMAIN fetches \ {i}
                                            /\ r[k] = fetches[Position(k, i)]
        /\ \A j, k \in 1 .. Len(fetches) - 1 : Position(j, i) = Position(k, i) => j = k
    BY <1>3, RemoveAtElements, Zenon
  <2>2. fetches' = r
    BY <1>2
  <2>. HIDE DEF r
  <2>3. QED
    BY <2>1, <2>2
<1>5. DOMAIN fetches' = 1 .. Len(fetches) - 1
  BY <1>4, LenProperties
<1>6. Len(fetches') <= MaxFetches
  BY <1>3, <1>4
<1>7. \A j \in DOMAIN fetches : fetches[j].forward \in BOOLEAN
  BY <1>3 DEF Fetches
<1>8. ASSUME ~outlived
      PROVE  /\ \A j, k \in DOMAIN fetches' : j = k
             /\ \A k \in DOMAIN fetches' :
                  /\ \E j \in DOMAIN fetches : j # i /\ fetches'[k] = fetches[j]
                  /\ fetches'[k].forward = ~fetches[i].forward
                  /\ isFetchingNextPage' \/ ~fetches'[k].forward
                  /\ isFetchingPreviousPage' \/ fetches'[k].forward
  <2>1. /\ \A j \in DOMAIN fetches : FetchExtends(fetches[j])
        /\ \A j, k \in DOMAIN fetches : fetches[j].forward = fetches[k].forward => j = k
    BY <1>8 DEF PagesInv, FetchesExtend
  <2>2. \A j \in DOMAIN fetches : j # i => fetches[j].forward = ~fetches[i].forward
    BY <1>7, <2>1
  <2>3. \A j, k \in DOMAIN fetches : j # i /\ k # i => j = k
    BY <2>1, <2>2
  <2>4. \A j, k \in DOMAIN fetches' : j = k
    BY <1>4, <1>5, <2>3
  <2>5. ASSUME NEW k \in DOMAIN fetches'
        PROVE  \E j \in DOMAIN fetches :
                 /\ j # i /\ fetches'[k] = fetches[j]
                 /\ fetches'[k].forward = ~fetches[i].forward
                 /\ isFetchingNextPage' \/ ~fetches'[k].forward
                 /\ isFetchingPreviousPage' \/ fetches'[k].forward
    <3>. DEFINE j == Position(k, i)
    <3>1. j \in DOMAIN fetches /\ j # i /\ fetches'[k] = fetches[j]
      BY <1>4, <1>5
    <3>. HIDE DEF j
    <3>2. /\ fetches[j].forward = ~fetches[i].forward
          /\ isFetchingNextPage \/ ~fetches[j].forward
          /\ isFetchingPreviousPage \/ fetches[j].forward
      BY <2>1, <2>2, <3>1 DEF FetchExtends
    <3>3. fetches[i].forward \in BOOLEAN
      BY <1>7
    <3>4. /\ isFetchingNextPage' \/ ~fetches[j].forward
          /\ isFetchingPreviousPage' \/ fetches[j].forward
      BY <1>1, <3>2, <3>3
    <3>5. QED
      BY <3>1, <3>2, <3>4
  <2>6. QED
    BY <2>4, <2>5
<1>9. {isFetching', isFetchingNextPage', isFetchingPreviousPage'} \subseteq BOOLEAN
  BY <1>1, <1>3
<1>10. QED
  BY <1>1, <1>4, <1>6, <1>8, <1>9

\* A page that arrives extends the run, and what is under way extends it on the other side.
LEMMA ArrivedPages ==
  ASSUME PagesInv, NEW i \in DOMAIN fetches, Infinite!Arrived(i)
  PROVE  PagesInv'
<1>. DEFINE f == fetches[i]
            n == Len(pages)
<1>1. /\ pages' = IF f.forward THEN Append(pages, f.page) ELSE <<f.page>> \o pages
      /\ Infinite!Settle(i) /\ error' = error
  BY DEF Infinite!Arrived
<1>2. f \in Fetches /\ f.page \in Infinite!PageRange /\ f.forward \in BOOLEAN
  BY PagesTypes DEF Fetches
<1>3. /\ pages \in Seq(Infinite!PageRange) /\ n \in Nat /\ (pages # <<>> => n > 0)
      /\ (pages = <<>> => n = 0) /\ Infinite!PageRange \subseteq Int /\ error \in BOOLEAN
      /\ outlived \in BOOLEAN
  BY PagesTypes
<1>4. /\ fetches' \in Seq(Fetches) /\ Len(fetches') <= MaxFetches
      /\ {isFetching', isFetchingNextPage', isFetchingPreviousPage'} \subseteq BOOLEAN
      /\ outlived' = outlived
      /\ ~outlived =>
           /\ \A j, k \in DOMAIN fetches' : j = k
           /\ \A k \in DOMAIN fetches' :
                /\ \E j \in DOMAIN fetches : j # i /\ fetches'[k] = fetches[j]
                /\ fetches'[k].forward = ~f.forward
                /\ isFetchingNextPage' \/ ~fetches'[k].forward
                /\ isFetchingPreviousPage' \/ fetches'[k].forward
  BY <1>1, SettlePages
<1>. HIDE DEF f, n
<1>5. ASSUME f.forward
      PROVE  /\ pages' \in Seq(Infinite!PageRange) /\ Len(pages') = n + 1
             /\ pages'[n + 1] = f.page /\ \A k \in 1 .. n : pages'[k] = pages[k]
  BY <1>1, <1>2, <1>3, <1>5, AppendElements DEF n
<1>6. ASSUME ~f.forward
      PROVE  /\ pages' \in Seq(Infinite!PageRange) /\ Len(pages') = n + 1
             /\ pages'[1] = f.page /\ \A k \in 2 .. n + 1 : pages'[k] = pages[k - 1]
  BY <1>1, <1>2, <1>3, <1>6, InFrontElements DEF n
<1>7. pages' \in Seq(Infinite!PageRange) /\ Len(pages') = n + 1
  BY <1>5, <1>6
<1>8. Infinite!TypeOK'
  BY <1>1, <1>3, <1>4, <1>7 DEF Infinite!TypeOK, Infinite!PageRange, Fetches
<1>9. pages' # <<>>
  BY <1>3, <1>7
<1>10. ASSUME ~outlived PROVE PagesRun' /\ FetchesExtend'
  <2>1. /\ \A k \in 1 .. n - 1 : pages[k + 1] = pages[k] + 1
        /\ \A k \in DOMAIN fetches : FetchExtends(fetches[k])
        /\ \A j, k \in DOMAIN fetches : fetches[j].forward = fetches[k].forward => j = k
    BY <1>10 DEF PagesInv, PagesRun, FetchesExtend, n
  <2>2. /\ pages = <<>> => f.forward
        /\ pages # <<>> => f.page = IF f.forward THEN pages[n] + 1 ELSE pages[1] - 1
    BY <2>1 DEF FetchExtends, f, n
  <2>3. \A k \in 1 .. n : pages[k] \in Int
    BY PagesTypes DEF n
  <2>4. PagesRun'
    <3>1. CASE f.forward
      <4>. SUFFICES ASSUME NEW k \in 1 .. n PROVE pages'[k + 1] = pages'[k] + 1
        BY <1>3, <1>7 DEF PagesRun
      <4>1. CASE k = n
        <5>1. pages # <<>>
          BY <1>3
        <5>2. QED
          BY <1>5, <2>2, <3>1, <4>1, <5>1
      <4>2. CASE k # n
        <5>1. k \in 1 .. n - 1 /\ k + 1 \in 1 .. n
          BY <1>3, <4>2
        <5>2. QED
          BY <1>5, <2>1, <3>1, <5>1
      <4>3. QED
        BY <4>1, <4>2
    <3>2. CASE ~f.forward
      <4>. SUFFICES ASSUME NEW k \in 1 .. n PROVE pages'[k + 1] = pages'[k] + 1
        BY <1>3, <1>7 DEF PagesRun
      <4>1. k + 1 \in 2 .. n + 1 /\ (k + 1) - 1 = k
        BY <1>3
      <4>2. pages'[k + 1] = pages[k]
        BY <1>6, <3>2, <4>1
      <4>3. CASE k = 1
        BY <1>6, <2>2, <2>3, <3>2, <4>2, <4>3
      <4>4. CASE k # 1
        <5>1. k \in 2 .. n + 1 /\ k - 1 \in 1 .. n - 1 /\ (k - 1) + 1 = k
          BY <1>3, <4>4
        <5>2. pages'[k] = pages[k - 1]
          BY <1>6, <3>2, <5>1
        <5>3. QED
          BY <2>1, <4>2, <5>1, <5>2
      <4>5. QED
        BY <4>3, <4>4
    <3>3. QED
      BY <3>1, <3>2
  <2>5. ASSUME NEW k \in DOMAIN fetches'
        PROVE  fetches'[k].page = IF fetches'[k].forward THEN pages'[Len(pages')] + 1 ELSE pages'[1] - 1
    <3>1. PICK j \in DOMAIN fetches : j # i /\ fetches'[k] = fetches[j]
      BY <1>4, <1>10
    <3>2. fetches[j].forward = ~f.forward /\ FetchExtends(fetches[j])
      BY <1>4, <1>10, <2>1, <3>1
    <3>3. CASE f.forward
      <4>1. pages # <<>> /\ fetches[j].page = pages[1] - 1
        BY <3>2, <3>3 DEF FetchExtends
      <4>2. 1 \in 1 .. n
        BY <1>3, <4>1
      <4>3. pages'[1] = pages[1]
        BY <1>5, <3>3, <4>2
      <4>4. QED
        BY <3>1, <3>2, <3>3, <4>1, <4>3
    <3>4. CASE ~f.forward
      <4>1. pages # <<>> /\ fetches[j].page = pages[n] + 1
        BY <2>2, <3>2, <3>4 DEF FetchExtends, n
      <4>2. n + 1 \in 2 .. n + 1 /\ (n + 1) - 1 = n
        BY <1>3, <4>1
      <4>3. pages'[n + 1] = pages[n]
        BY <1>6, <3>4, <4>2
      <4>4. QED
        BY <1>7, <3>1, <3>2, <3>4, <4>1, <4>3
    <3>5. QED
      BY <1>2, <3>3, <3>4
  <2>6. FetchesExtend'
    BY <1>4, <1>9, <1>10, <2>5 DEF FetchesExtend, FetchExtends
  <2>7. QED
    BY <2>4, <2>6
<1>11. QED
  BY <1>4, <1>8, <1>10 DEF PagesInv

LEMMA NextPages == PagesInv /\ [Infinite!Next]_Infinite!vars => PagesInv'
<1>. SUFFICES ASSUME PagesInv, [Infinite!Next]_Infinite!vars PROVE PagesInv'
  OBVIOUS
<1>1. ASSUME Infinite!FetchNextPage PROVE PagesInv'
  <2>. DEFINE p == IF pages = <<>> THEN InitialPage ELSE Infinite!Last(pages) + 1
  <2>1. /\ ~isFetchingNextPage /\ isFetchingNextPage' = TRUE
        /\ isFetchingPreviousPage' = isFetchingPreviousPage /\ Infinite!Fetch(p, TRUE)
    BY <1>1 DEF Infinite!FetchNextPage
  <2>2. pages # <<>> => p = pages[Len(pages)] + 1
    BY DEF Infinite!Last
  <2>. HIDE DEF p
  <2>3. isFetchingPreviousPage \in BOOLEAN
    BY PagesTypes
  <2>4. /\ isFetchingNextPage' = (isFetchingNextPage \/ TRUE)
        /\ isFetchingPreviousPage' = (isFetchingPreviousPage \/ ~TRUE)
        /\ TRUE \in BOOLEAN
    BY <2>1, <2>3
  <2>5. QED
    BY <2>1, <2>2, <2>4, FetchPages
<1>2. ASSUME Infinite!FetchPreviousPage PROVE PagesInv'
  <2>. DEFINE p == Head(pages) - 1
  <2>1. /\ ~isFetchingPreviousPage /\ isFetchingPreviousPage' = TRUE /\ pages # <<>>
        /\ isFetchingNextPage' = isFetchingNextPage /\ Infinite!Fetch(p, FALSE)
    BY <1>2 DEF Infinite!FetchPreviousPage
  <2>2. p = pages[1] - 1
    OBVIOUS
  <2>. HIDE DEF p
  <2>3. isFetchingNextPage \in BOOLEAN
    BY PagesTypes
  <2>4. /\ isFetchingNextPage' = (isFetchingNextPage \/ FALSE)
        /\ isFetchingPreviousPage' = (isFetchingPreviousPage \/ ~FALSE)
        /\ FALSE \in BOOLEAN
    BY <2>1, <2>3
  <2>5. QED
    BY <2>1, <2>2, <2>4, FetchPages
<1>3. ASSUME Infinite!Reset PROVE PagesInv'
  <2>1. /\ pages' = <<>> /\ error' = FALSE /\ isFetching' = FALSE /\ isFetchingNextPage' = FALSE
        /\ isFetchingPreviousPage' = FALSE /\ outlived' = (fetches # <<>>) /\ fetches' = fetches
    BY <1>3 DEF Infinite!Reset
  <2>2. fetches \in Seq(Fetches) /\ Len(fetches) <= MaxFetches
    BY PagesTypes
  <2>3. pages' \in Seq(Infinite!PageRange) /\ Len(pages') = 0
    BY <2>1
  <2>4. {isFetching', isFetchingNextPage', isFetchingPreviousPage', error', outlived'} \subseteq BOOLEAN
    BY <2>1
  <2>5. Infinite!TypeOK'
    BY <2>1, <2>2, <2>3, <2>4 DEF Infinite!TypeOK, Infinite!PageRange, Fetches
  <2>6. ASSUME ~outlived' PROVE PagesRun' /\ FetchesExtend'
    <3>1. fetches' = <<>>
      BY <2>1, <2>6
    <3>2. DOMAIN fetches' = {}
      BY <3>1
    <3>3. QED
      BY <2>3, <3>2 DEF PagesRun, FetchesExtend
  <2>7. QED
    BY <2>5, <2>6 DEF PagesInv
<1>4. ASSUME NEW i \in DOMAIN fetches, Infinite!Failed(i) PROVE PagesInv'
  <2>1. Infinite!Settle(i) /\ error' \in BOOLEAN /\ pages' = pages
    <3>1. error \in BOOLEAN
      BY DEF PagesInv, Infinite!TypeOK
    <3>2. QED
      BY <1>4, <3>1 DEF Infinite!Failed
  <2>2. /\ fetches' \in Seq(Fetches) /\ Len(fetches') <= MaxFetches
        /\ {isFetching', isFetchingNextPage', isFetchingPreviousPage'} \subseteq BOOLEAN
        /\ outlived' = outlived
        /\ ~outlived =>
             /\ \A j, k \in DOMAIN fetches' : j = k
             /\ \A k \in DOMAIN fetches' :
                  /\ \E j \in DOMAIN fetches : j # i /\ fetches'[k] = fetches[j]
                  /\ fetches'[k].forward = ~fetches[i].forward
                  /\ isFetchingNextPage' \/ ~fetches'[k].forward
                  /\ isFetchingPreviousPage' \/ fetches'[k].forward
    BY <2>1, SettlePages
  <2>3. pages \in Seq(Infinite!PageRange) /\ outlived \in BOOLEAN
    BY PagesTypes
  <2>4. Infinite!TypeOK'
    BY <2>1, <2>2, <2>3 DEF Infinite!TypeOK, Infinite!PageRange, Fetches
  <2>5. ASSUME ~outlived PROVE PagesRun' /\ FetchesExtend'
    <3>1. PagesRun /\ \A j \in DOMAIN fetches : FetchExtends(fetches[j])
      BY <2>5 DEF PagesInv, FetchesExtend
    <3>2. ASSUME NEW k \in DOMAIN fetches'
          PROVE  /\ pages = <<>> => fetches'[k].forward
                 /\ pages # <<>> => fetches'[k].page = IF fetches'[k].forward THEN pages[Len(pages)] + 1
                                                       ELSE pages[1] - 1
      BY <2>2, <2>5, <3>1 DEF FetchExtends
    <3>3. FetchesExtend'
      BY <2>1, <2>2, <2>5, <3>2 DEF FetchesExtend, FetchExtends
    <3>4. QED
      BY <2>1, <3>1, <3>3 DEF PagesRun
  <2>6. QED
    BY <2>2, <2>4, <2>5 DEF PagesInv
<1>5. CASE UNCHANGED Infinite!vars
  BY <1>5 DEF Infinite!vars, Infinite!flags, PagesInv, Infinite!TypeOK, Infinite!PageRange, PagesRun, FetchesExtend, FetchExtends
<1>6. QED
  BY <1>1, <1>2, <1>3, <1>4, <1>5, ArrivedPages DEF Infinite!Next

\* The pages of an infinite query are a run without gaps or repetitions, whichever fetches
\* overlap, unless one has outlived a reset(): for any range of pages and any initial page.
THEOREM PagesStayContiguous == Infinite!Spec => []PagesContiguous
<1>1. ASSUME PagesInv, ~outlived
      PROVE  /\ \A i \in 1 .. Len(pages) - 1 : pages[i + 1] = pages[i] + 1
             /\ \A i \in DOMAIN fetches :
                  \/ pages = <<>>
                  \/ fetches[i].page = IF fetches[i].forward THEN Infinite!Last(pages) + 1
                                       ELSE Head(pages) - 1
  <2>1. PagesRun /\ \A i \in DOMAIN fetches : FetchExtends(fetches[i])
    BY <1>1 DEF PagesInv, FetchesExtend
  <2>2. Infinite!Last(pages) = pages[Len(pages)] /\ Head(pages) = pages[1]
    BY DEF Infinite!Last
  <2>3. QED
    BY <2>1, <2>2 DEF PagesRun, FetchExtends
<1>2. PagesInv => PagesContiguous
  BY <1>1 DEF PagesContiguous, Infinite!PagesContiguous
<1>3. QED
  BY <1>2, InitPages, NextPages, PTL DEF Infinite!Spec

-----------------------------------------------------------------------------
\* ResumableUploader: the chunks sent so far are the ones under way, the ones stored, those
\* that were overtaken, and, while the loop has not heard of it, the one that decides the
\* race.  From the moment a chunk has left, there is room for one: with chunks sent one
\* after the other, none is left that could be overtaken.
UploadCounts ==
  /\ next <= chunks /\ active \subseteq 0 .. next - 1 /\ stored \subseteq 0 .. next - 1
  /\ overtaken \subseteq 0 .. next - 1
  /\ IsFiniteSet(active) /\ Cardinality(active) <= Parallel
  /\ winner # Uploader!None => Cardinality(active) < Parallel
  /\ Parallel = 1 => overtaken = {}

SentOrStored ==
  /\ upload = "none" => /\ next = 0 /\ active = {} /\ stored = {} /\ overtaken = {}
                        /\ winner = Uploader!None
  /\ upload = "running" => 0 .. next - 1 \subseteq active \cup stored \cup overtaken \cup {winner}
  /\ race = "fulfilled" => winner \in stored
  /\ upload = "resolved" => next = chunks /\ active = {} /\ stored \cup overtaken = 0 .. chunks - 1

UploadInv == Uploader!TypeOK /\ UploadCounts /\ SentOrStored

\* The cardinality that the instance speaks of is that of FiniteSets.
LEMMA SameCardinality == \A S : Uploader!Cardinality(S) = Cardinality(S)
BY DEF Uploader!Cardinality, Cardinality

LEMMA InitUpload == Uploader!Init => UploadInv
<1>. SUFFICES ASSUME Uploader!Init PROVE UploadInv
  OBVIOUS
<1>1. chunks \in 0 .. MaxChunks /\ MaxChunks \in Nat /\ Parallel \in Nat
  BY StandaloneAssumption DEF Uploader!Init
<1>2. Uploader!TypeOK
  BY <1>1 DEF Uploader!Init, Uploader!TypeOK
<1>3. IsFiniteSet(active) /\ Cardinality(active) = 0
  BY FS_EmptySet DEF Uploader!Init
<1>4. UploadCounts /\ SentOrStored
  BY <1>1, <1>3 DEF Uploader!Init, UploadCounts, SentOrStored
<1>5. QED
  BY <1>2, <1>4 DEF UploadInv

LEMMA NextChunks ==
  ASSUME NEW m \in Nat, NEW n \in Nat, m <= n
  PROVE  /\ 0 .. n - 1 = (0 .. m - 1) \cup (m .. n - 1)
         /\ IsFiniteSet(m .. n - 1) /\ Cardinality(m .. n - 1) = n - m
<1>1. 0 .. n - 1 = (0 .. m - 1) \cup (m .. n - 1)
  OBVIOUS
<1>2. m > n - 1 => n - m = 0
  OBVIOUS
<1>3. (n - 1) - m + 1 = n - m
  OBVIOUS
<1>4. /\ IsFiniteSet(m .. n - 1)
      /\ Cardinality(m .. n - 1) = IF m > n - 1 THEN 0 ELSE (n - 1) - m + 1
  <2>1. m \in Int /\ n - 1 \in Int
    OBVIOUS
  <2>2. QED
    BY <2>1, FS_Interval
<1>5. QED
  BY <1>1, <1>2, <1>3, <1>4

\* The loop sends the chunks that follow the last one sent, and no more than there is room
\* for.
LEMMA ProceedCounts ==
  ASSUME UploadInv, Uploader!Proceed
  PROVE  /\ next' \in next .. chunks
         /\ active' = active \cup next .. next' - 1
         /\ active' \subseteq 0 .. next' - 1
         /\ IsFiniteSet(active') /\ Cardinality(active') <= Parallel
         /\ upload' = IF next' = chunks /\ active' = {} THEN "resolved" ELSE "running"
<1>. DEFINE free == Parallel - Cardinality(active)
            more == next .. next' - 1
<1>1. /\ chunks \in Nat /\ next \in Nat /\ next <= chunks /\ Parallel \in Nat
      /\ active \subseteq 0 .. next - 1
  BY StandaloneAssumption DEF UploadInv, Uploader!TypeOK, UploadCounts
<1>2. IsFiniteSet(active) /\ Cardinality(active) <= Parallel /\ Cardinality(active) \in Nat
  BY FS_CardinalityType DEF UploadInv, UploadCounts
<1>3. free \in Nat /\ free = Parallel - Cardinality(active)
  BY <1>1, <1>2
<1>4. /\ next' = IF chunks - next < free THEN chunks ELSE next + free
      /\ active' = active \cup more
      /\ upload' = IF next' = chunks /\ active' = {} THEN "resolved" ELSE "running"
  BY SameCardinality DEF Uploader!Proceed, Uploader!Finished
<1>5. next' \in next .. chunks /\ next' \in Nat /\ next' - next <= free
  <2>. HIDE DEF free
  <2>1. QED
    BY <1>1, <1>3, <1>4
<1>6. IsFiniteSet(more) /\ Cardinality(more) = next' - next
  <2>1. next \in Nat /\ next' \in Nat /\ next <= next'
    BY <1>1, <1>5
  <2>. HIDE DEF free
  <2>2. QED
    BY <2>1, NextChunks
<1>7. active' \subseteq 0 .. next' - 1
  <2>1. next \in Nat /\ next' \in Nat /\ next <= next'
    BY <1>1, <1>5
  <2>2. 0 .. next' - 1 = (0 .. next - 1) \cup more
    BY <2>1, NextChunks
  <2>. HIDE DEF more
  <2>3. QED
    BY <1>1, <1>4, <2>2
<1>8. IsFiniteSet(active') /\ Cardinality(active') <= Parallel
  <2>1. /\ IsFiniteSet(active \cup more)
        /\ Cardinality(active \cup more)
             = Cardinality(active) + Cardinality(more) - Cardinality(active \cap more)
    BY <1>2, <1>6, FS_Union
  <2>2. Cardinality(active \cap more) \in Nat
    BY <1>2, FS_Intersection, FS_CardinalityType
  <2>3. Cardinality(active) + Cardinality(more) - Cardinality(active \cap more) <= Parallel
    <3>. HIDE DEF free, more
    <3>1. QED
      BY <1>1, <1>2, <1>3, <1>5, <1>6, <2>2
  <2>4. QED
    BY <1>4, <2>1, <2>3
<1>9. QED
  BY <1>4, <1>5, <1>7, <1>8

\* upload(), and a race that a stored chunk has won, go on with the loop.
LEMMA ProceedKeeps ==
  ASSUME UploadInv, Uploader!Proceed, 0 .. next - 1 \subseteq active \cup stored \cup overtaken,
         UNCHANGED <<chunks, stored, aborted, overtaken>>
  PROVE  UploadInv'
<1>1. /\ next' \in next .. chunks /\ active' = active \cup next .. next' - 1
      /\ active' \subseteq 0 .. next' - 1
      /\ IsFiniteSet(active') /\ Cardinality(active') <= Parallel
      /\ upload' = IF next' = chunks /\ active' = {} THEN "resolved" ELSE "running"
  BY ProceedCounts
<1>2. /\ chunks \in 0 .. MaxChunks /\ next \in 0 .. MaxChunks /\ MaxChunks \in Nat
      /\ stored \subseteq 0 .. next - 1 /\ overtaken \subseteq 0 .. next - 1
      /\ aborted \in SUBSET (0 .. MaxChunks - 1)
  BY StandaloneAssumption DEF UploadInv, UploadCounts, Uploader!TypeOK, Uploader!Chunks
<1>3. winner' = Uploader!None /\ race' = "pending"
  BY DEF Uploader!Proceed
<1>. next' \in Nat /\ next <= next' /\ next' <= chunks /\ next' <= MaxChunks
  BY <1>1, <1>2
<1>9. next \in Nat
  BY <1>2
<1>10. 0 .. next' - 1 = (0 .. next - 1) \cup (next .. next' - 1)
  BY <1>9, NextChunks
<1>4. /\ stored' \subseteq 0 .. next' - 1 /\ overtaken' \subseteq 0 .. next' - 1
      /\ 0 .. next' - 1 \subseteq active' \cup stored' \cup overtaken'
  BY <1>1, <1>2, <1>10
<1>11. 0 .. MaxChunks - 1 = (0 .. next' - 1) \cup (next' .. MaxChunks - 1)
  BY <1>2, NextChunks
<1>5. Uploader!TypeOK'
  <2>1. /\ active' \subseteq 0 .. MaxChunks - 1 /\ stored' \subseteq 0 .. MaxChunks - 1
        /\ overtaken' \subseteq 0 .. MaxChunks - 1
    BY <1>1, <1>4, <1>11
  <2>2. next' \in 0 .. MaxChunks /\ upload' \in {"running", "resolved"}
    BY <1>1, <1>2
  <2>3. QED
    BY <1>2, <1>3, <2>1, <2>2 DEF Uploader!TypeOK, Uploader!Chunks
<1>6. UploadCounts'
  <2>1. Parallel = 1 => overtaken' = {}
    BY DEF UploadInv, UploadCounts
  <2>2. QED
    BY <1>1, <1>3, <1>4, <2>1 DEF UploadCounts
<1>7. SentOrStored'
  <2>1. active' = {} => stored' \cup overtaken' = 0 .. next' - 1
    BY <1>4
  <2>2. QED
    BY <1>1, <1>3, <1>4, <2>1 DEF SentOrStored
<1>8. QED
  BY <1>5, <1>6, <1>7 DEF UploadInv

\* A chunk leaves active: there is room for another, and the first to leave has won.
LEMMA LeaveCounts ==
  ASSUME UploadInv, NEW c \in active, Uploader!Leave(c), next' = next, chunks' = chunks,
         upload' = upload
  PROVE  /\ next' <= chunks' /\ active' \subseteq 0 .. next' - 1
         /\ IsFiniteSet(active') /\ Cardinality(active') < Parallel
         /\ winner # Uploader!None => Parallel # 1
         /\ c \in 0 .. next - 1 /\ c \in 0 .. MaxChunks - 1 /\ upload \in {"running", "rejected"}
<1>1. /\ IsFiniteSet(active) /\ Cardinality(active) <= Parallel /\ Parallel \in Nat
      /\ winner # Uploader!None => Cardinality(active) < Parallel
  BY StandaloneAssumption DEF UploadInv, UploadCounts
<1>2. active' = active \ {c}
  BY DEF Uploader!Leave
<1>3. IsFiniteSet(active') /\ Cardinality(active') = Cardinality(active) - 1
  BY <1>1, <1>2, FS_RemoveElement
<1>4. Cardinality(active) \in Nat /\ Cardinality(active') \in Nat
  BY <1>1, <1>3, FS_CardinalityType
<1>5. Cardinality(active') < Parallel
  BY <1>1, <1>3, <1>4
<1>6. winner # Uploader!None => Parallel # 1
  BY <1>1, <1>3, <1>4
<1>7. /\ next <= chunks /\ c \in 0 .. next - 1 /\ c \in 0 .. MaxChunks - 1
      /\ active \subseteq 0 .. next - 1
  BY DEF UploadInv, UploadCounts, Uploader!TypeOK, Uploader!Chunks
<1>8. upload \in {"running", "rejected"}
  BY DEF UploadInv, SentOrStored, Uploader!TypeOK
<1>9. QED
  BY <1>2, <1>3, <1>5, <1>6, <1>7, <1>8

LEMMA NextUpload == UploadInv /\ [Uploader!Next]_Uploader!vars => UploadInv'
<1>. SUFFICES ASSUME UploadInv, [Uploader!Next]_Uploader!vars PROVE UploadInv'
  OBVIOUS
<1>. USE DEF Uploader!Chunks
<1>1. ASSUME Uploader!Upload PROVE UploadInv'
  <2>1. 0 .. next - 1 = {}
    BY <1>1 DEF Uploader!Upload, UploadInv, SentOrStored
  <2>2. Uploader!Proceed /\ UNCHANGED <<chunks, stored, aborted, overtaken>>
    BY <1>1 DEF Uploader!Upload
  <2>3. QED
    BY <2>1, <2>2, ProceedKeeps
<1>2. ASSUME Uploader!LoopGoesOn PROVE UploadInv'
  <2>1. 0 .. next - 1 \subseteq active \cup stored \cup overtaken
    BY <1>2 DEF Uploader!LoopGoesOn, UploadInv, SentOrStored
  <2>2. Uploader!Proceed /\ UNCHANGED <<chunks, stored, aborted, overtaken>>
    BY <1>2 DEF Uploader!LoopGoesOn
  <2>3. QED
    BY <2>1, <2>2, ProceedKeeps
<1>3. ASSUME Uploader!Abort PROVE UploadInv'
  BY <1>3 DEF Uploader!Abort, UploadInv, Uploader!TypeOK, UploadCounts, SentOrStored
<1>4. ASSUME Uploader!LoopThrows PROVE UploadInv'
  BY <1>4 DEF Uploader!LoopThrows, UploadInv, Uploader!TypeOK, UploadCounts, SentOrStored
<1>5. ASSUME Uploader!RaceSettles PROVE UploadInv'
  BY <1>5 DEF Uploader!RaceSettles, UploadInv, Uploader!TypeOK, UploadCounts, SentOrStored
<1>6. ASSUME NEW c \in active, Uploader!ChunkStored(c) PROVE UploadInv'
  <2>1. /\ stored' = stored \cup {c} /\ Uploader!Leave(c)
        /\ UNCHANGED <<chunks, upload, next, race, aborted, overtaken>>
    BY <1>6 DEF Uploader!ChunkStored
  <2>2. /\ next' <= chunks' /\ active' \subseteq 0 .. next' - 1
        /\ IsFiniteSet(active') /\ Cardinality(active') < Parallel
        /\ c \in 0 .. next - 1 /\ c \in 0 .. MaxChunks - 1 /\ upload \in {"running", "rejected"}
    BY <2>1, LeaveCounts
  <2>3. /\ active' = active \ {c} /\ winner' \in {c, winner}
        /\ winner' = IF winner = Uploader!None THEN c ELSE winner
    BY <2>1 DEF Uploader!Leave
  <2>4. Uploader!TypeOK'
    BY <2>1, <2>2, <2>3 DEF UploadInv, Uploader!TypeOK
  <2>5. UploadCounts'
    <3>1. Parallel \in Nat /\ Cardinality(active') \in Nat
      BY <2>2, StandaloneAssumption, FS_CardinalityType
    <3>2. Cardinality(active') <= Parallel
      BY <2>2, <3>1
    <3>3. QED
      BY <2>1, <2>2, <3>2 DEF UploadInv, UploadCounts
  <2>6. SentOrStored'
    BY <2>1, <2>2, <2>3 DEF UploadInv, SentOrStored, Uploader!None
  <2>7. QED
    BY <2>4, <2>5, <2>6 DEF UploadInv
<1>7. ASSUME NEW c \in active, Uploader!ChunkFails(c) PROVE UploadInv'
  <2>1. /\ Uploader!Leave(c) /\ aborted' = aborted \ {c}
        /\ overtaken' = IF winner = Uploader!None THEN overtaken ELSE overtaken \cup {c}
        /\ UNCHANGED <<chunks, upload, next, race, stored>>
    BY <1>7 DEF Uploader!ChunkFails
  <2>2. /\ next' <= chunks' /\ active' \subseteq 0 .. next' - 1
        /\ IsFiniteSet(active') /\ Cardinality(active') < Parallel
        /\ winner # Uploader!None => Parallel # 1
        /\ c \in 0 .. next - 1 /\ c \in 0 .. MaxChunks - 1 /\ upload \in {"running", "rejected"}
    BY <2>1, LeaveCounts
  <2>3. /\ active' = active \ {c}
        /\ winner' = IF winner = Uploader!None THEN c ELSE winner
    BY <2>1 DEF Uploader!Leave
  <2>4. Uploader!TypeOK'
    BY <2>1, <2>2, <2>3 DEF UploadInv, Uploader!TypeOK
  <2>5. UploadCounts'
    <3>1. Parallel \in Nat /\ Cardinality(active') \in Nat
      BY <2>2, StandaloneAssumption, FS_CardinalityType
    <3>2. Cardinality(active') <= Parallel
      BY <2>2, <3>1
    <3>3. QED
      BY <2>1, <2>2, <3>2 DEF UploadInv, UploadCounts
  <2>6. SentOrStored'
    <3>1. winner \notin stored \/ winner # Uploader!None
      BY DEF UploadInv, UploadCounts, Uploader!None
    <3>2. QED
      BY <2>1, <2>2, <2>3, <3>1 DEF UploadInv, SentOrStored, Uploader!None
  <2>7. QED
    BY <2>4, <2>5, <2>6 DEF UploadInv
<1>8. CASE UNCHANGED Uploader!vars
  BY <1>8 DEF Uploader!vars, UploadInv, Uploader!TypeOK, UploadCounts, SentOrStored
<1>9. QED
  BY <1>1, <1>2, <1>3, <1>4, <1>5, <1>6, <1>7, <1>8 DEF Uploader!Next

\* ResumableUploader.upload() resolves only when every chunk is stored or has failed in the
\* ticks between another's success and the loop's next iteration, which none can unless
\* they are sent side by side; at most options.parallel are sent at once, for files of any
\* size.
THEOREM UploadsAreStored == Uploader!Spec => []ResolvedMeansStored
<1>1. UploadInv => ResolvedMeansStored
  BY SameCardinality DEF UploadInv, UploadCounts, SentOrStored, ResolvedMeansStored, Uploader!ResolvedMeansStored
<1>2. QED
  BY <1>1, InitUpload, NextUpload, PTL DEF Uploader!Spec

-----------------------------------------------------------------------------
\* MockAdapter: no two handlers have an id in common, and a one-time handler that has
\* answered a request is gone and has answered no other.
HandlersApart ==
  /\ \A i, j \in DOMAIN handlers : handlers[i].id = handlers[j].id => i = j
  /\ \A i \in DOMAIN handlers :
       handlers[i].id <= registered /\ (handlers[i].once <=> handlers[i].id \in oneTime)
  /\ \A id \in oneTime : id <= registered

AnsweredApart ==
  \A r \in Requests :
    /\ answeredBy[r] <= registered
    /\ answeredBy[r] \in oneTime =>
         /\ \A i \in DOMAIN handlers : handlers[i].id # answeredBy[r]
         /\ \A s \in Requests : answeredBy[s] = answeredBy[r] => s = r

\* NetworkRecorder: the records are requests sent and answered while it recorded, among
\* them all of the recording that goes on.
RecordsApart ==
  /\ \A i, j \in DOMAIN records : records[i] = records[j] => i = j
  /\ \A i \in DOMAIN records : stage[records[i]] = "replied" /\ records[i] \in tagged

RecordsComplete ==
  \A r \in Requests : isRecording /\ begun[r] = recording /\ stage[r] = "replied" =>
    \E i \in DOMAIN records : records[i] = r

TaggedRecording ==
  /\ isRecording => recording > 0
  /\ \A r \in Requests : begun[r] <= recording /\ (begun[r] = 0 <=> r \notin tagged)

AdapterInv == HandlersApart /\ AnsweredApart
RecorderInv == RecordsApart /\ RecordsComplete /\ TaggedRecording
DoublesInv == Doubles!TypeOK /\ AdapterInv /\ RecorderInv

LEMMA DoublesTypes ==
  ASSUME DoublesInv
  PROVE  /\ handlers \in Seq(Doubles!Handlers) /\ history \in Seq(Requests)
         /\ stage \in [Requests -> {"new", "delayed", "handled", "replied", "rejected"}]
         /\ answeredBy \in [Requests -> 0 .. MaxHandlers]
         /\ registered \in 0 .. MaxHandlers /\ oneTime \in SUBSET (1 .. MaxHandlers)
         /\ isRecording \in BOOLEAN /\ tagged \in SUBSET Requests /\ records \in Seq(Requests)
         /\ recording \in 0 .. MaxRecordings /\ begun \in [Requests -> 0 .. MaxRecordings]
         /\ MaxHandlers \in Nat /\ MaxRecordings \in Nat
         /\ Len(handlers) \in Nat /\ DOMAIN handlers = 1 .. Len(handlers)
         /\ \A i \in DOMAIN handlers : handlers[i] \in Doubles!Handlers
         /\ Len(records) \in Nat /\ DOMAIN records = 1 .. Len(records)
         /\ \A i \in DOMAIN records : records[i] \in Requests
<1>1. /\ handlers \in Seq(Doubles!Handlers) /\ history \in Seq(Requests)
      /\ stage \in [Requests -> {"new", "delayed", "handled", "replied", "rejected"}]
      /\ answeredBy \in [Requests -> 0 .. MaxHandlers]
      /\ registered \in 0 .. MaxHandlers /\ oneTime \in SUBSET (1 .. MaxHandlers)
      /\ isRecording \in BOOLEAN /\ tagged \in SUBSET Requests /\ records \in Seq(Requests)
      /\ recording \in 0 .. MaxRecordings /\ begun \in [Requests -> 0 .. MaxRecordings]
  BY DEF DoublesInv, Doubles!TypeOK
<1>2. MaxHandlers \in Nat /\ MaxRecordings \in Nat
  BY StandaloneAssumption
<1>3. /\ Len(handlers) \in Nat /\ DOMAIN handlers = 1 .. Len(handlers)
      /\ Len(records) \in Nat /\ DOMAIN records = 1 .. Len(records)
  BY <1>1, LenProperties
<1>4. \A i \in DOMAIN handlers : handlers[i] \in Doubles!Handlers
  BY <1>1, <1>3, ElementOfSeq
<1>5. \A i \in DOMAIN records : records[i] \in Requests
  BY <1>1, <1>3, ElementOfSeq
<1>6. QED
  BY <1>1, <1>2, <1>3, <1>4, <1>5

LEMMA InitDoubles == Doubles!Init => DoublesInv
<1>. SUFFICES ASSUME Doubles!Init PROVE DoublesInv
  OBVIOUS
<1>1. MaxHandlers \in Nat /\ MaxRecordings \in Nat
  BY StandaloneAssumption
<1>2. /\ handlers = <<>> /\ history = <<>> /\ registered = 0 /\ oneTime = {}
      /\ stage = [r \in Requests |-> "new"] /\ answeredBy = [r \in Requests |-> 0]
      /\ isRecording = FALSE /\ tagged = {} /\ records = <<>>
      /\ recording = 0 /\ begun = [r \in Requests |-> 0]
  BY DEF Doubles!Init
<1>3. 0 \in 0 .. MaxHandlers /\ 0 \in 0 .. MaxRecordings
  BY <1>1
<1>4. handlers \in Seq(Doubles!Handlers) /\ history \in Seq(Requests) /\ records \in Seq(Requests)
  BY <1>2
<1>5. Doubles!TypeOK
  BY <1>2, <1>3, <1>4 DEF Doubles!TypeOK
<1>6. DOMAIN handlers = {} /\ DOMAIN records = {}
  BY <1>2
<1>7. \A r \in Requests : answeredBy[r] = 0 /\ begun[r] = 0
  BY <1>2
<1>8. HandlersApart /\ AnsweredApart
  BY <1>2, <1>6, <1>7 DEF HandlersApart, AnsweredApart
<1>9. RecordsApart /\ RecordsComplete /\ TaggedRecording
  BY <1>2, <1>6, <1>7 DEF RecordsApart, RecordsComplete, TaggedRecording
<1>10. QED
  BY <1>5, <1>8, <1>9 DEF DoublesInv, AdapterInv, RecorderInv

\* on() registers a handler with a new id.
LEMMA OnDoubles ==
  ASSUME DoublesInv, NEW once \in BOOLEAN, NEW fails \in BOOLEAN, Doubles!On(once, fails)
  PROVE  DoublesInv'
<1>. DEFINE h == [id |-> registered + 1, once |-> once, fails |-> fails]
            n == Len(handlers)
<1>1. /\ registered < MaxHandlers /\ registered' = registered + 1
      /\ handlers' = Append(handlers, h)
      /\ oneTime' = (IF once THEN oneTime \cup {registered'} ELSE oneTime)
      /\ UNCHANGED <<history, stage, answeredBy>>
      /\ UNCHANGED <<isRecording, tagged, records, recording, begun>>
  BY DEF Doubles!On, Doubles!recorderVars
<1>2. /\ handlers \in Seq(Doubles!Handlers) /\ n \in Nat /\ DOMAIN handlers = 1 .. n
      /\ registered \in 0 .. MaxHandlers /\ MaxHandlers \in Nat
      /\ oneTime \in SUBSET (1 .. MaxHandlers)
      /\ answeredBy \in [Requests -> 0 .. MaxHandlers]
      /\ \A i \in DOMAIN handlers : handlers[i] \in Doubles!Handlers
  BY DoublesTypes
<1>3. registered + 1 \in 1 .. MaxHandlers
  BY <1>1, <1>2
<1>4. h \in Doubles!Handlers /\ h.id = registered + 1 /\ h.once = once
  BY <1>3 DEF Doubles!Handlers
<1>. HIDE DEF h, n
<1>5. /\ handlers' \in Seq(Doubles!Handlers) /\ DOMAIN handlers' = 1 .. n + 1
      /\ handlers'[n + 1] = h /\ \A k \in 1 .. n : handlers'[k] = handlers[k]
  BY <1>1, <1>2, <1>4, AppendElements DEF n
<1>6. oneTime' \in SUBSET (1 .. MaxHandlers) /\ registered' \in 0 .. MaxHandlers
  BY <1>1, <1>2, <1>3
<1>7. Doubles!TypeOK'
  BY <1>1, <1>5, <1>6 DEF DoublesInv, Doubles!TypeOK, Doubles!Handlers
<1>8. \A k \in 1 .. n + 1 : k \in 1 .. n \/ k = n + 1
  BY <1>2
<1>9. \A k \in 1 .. n : handlers[k].id \in 1 .. MaxHandlers /\ handlers[k].id <= registered /\ handlers[k].id # registered + 1
  <2>1. \A k \in 1 .. n : handlers[k].id \in 1 .. MaxHandlers /\ handlers[k].id <= registered
    BY <1>2 DEF DoublesInv, AdapterInv, HandlersApart, Doubles!Handlers
  <2>2. QED
    BY <1>2, <2>1
<1>10. HandlersApart'
  <2>1. ASSUME NEW i \in 1 .. n + 1, NEW j \in 1 .. n + 1, handlers'[i].id = handlers'[j].id
        PROVE  i = j
    <3>1. \A x, y \in 1 .. n : handlers[x].id = handlers[y].id => x = y
      BY <1>2 DEF DoublesInv, AdapterInv, HandlersApart
    <3>2. CASE i \in 1 .. n /\ j \in 1 .. n
      BY <1>5, <2>1, <3>1, <3>2
    <3>3. CASE i = n + 1 /\ j \in 1 .. n
      BY <1>4, <1>5, <1>9, <2>1, <3>3
    <3>4. CASE i \in 1 .. n /\ j = n + 1
      BY <1>4, <1>5, <1>9, <2>1, <3>4
    <3>5. QED
      BY <1>8, <3>2, <3>3, <3>4
  <2>2. ASSUME NEW i \in 1 .. n + 1
        PROVE  /\ handlers'[i].id <= registered'
               /\ handlers'[i].once <=> handlers'[i].id \in oneTime'
    <3>1. CASE i \in 1 .. n
      <4>1. handlers[i].once <=> handlers[i].id \in oneTime
        BY <1>2, <3>1 DEF DoublesInv, AdapterInv, HandlersApart
      <4>2. handlers[i].id \in oneTime' <=> handlers[i].id \in oneTime
        BY <1>1, <1>9, <3>1
      <4>3. handlers[i].id <= registered'
        BY <1>1, <1>2, <1>9, <3>1
      <4>4. QED
        BY <1>5, <3>1, <4>1, <4>2, <4>3
    <3>2. CASE i = n + 1
      <4>1. registered + 1 \notin oneTime
        BY <1>2 DEF DoublesInv, AdapterInv, HandlersApart
      <4>2. once <=> registered + 1 \in oneTime'
        BY <1>1, <4>1
      <4>3. QED
        BY <1>1, <1>2, <1>4, <1>5, <3>2, <4>2
    <3>3. QED
      BY <1>8, <3>1, <3>2
  <2>3. \A id \in oneTime' : id <= registered'
    BY <1>1, <1>2 DEF DoublesInv, AdapterInv, HandlersApart
  <2>4. QED
    BY <1>5, <2>1, <2>2, <2>3 DEF HandlersApart
<1>11. AnsweredApart'
  <2>. SUFFICES ASSUME NEW r \in Requests
                PROVE  /\ answeredBy[r] <= registered'
                       /\ answeredBy[r] \in oneTime' =>
                            /\ \A i \in DOMAIN handlers' : handlers'[i].id # answeredBy[r]
                            /\ \A s \in Requests : answeredBy[s] = answeredBy[r] => s = r
    BY <1>1 DEF AnsweredApart
  <2>1. answeredBy[r] <= registered /\ answeredBy[r] \in 0 .. MaxHandlers
    BY <1>2 DEF DoublesInv, AdapterInv, AnsweredApart
  <2>2. answeredBy[r] <= registered' /\ answeredBy[r] # registered + 1
    BY <1>1, <1>2, <2>1
  <2>3. ASSUME answeredBy[r] \in oneTime'
        PROVE  /\ \A i \in DOMAIN handlers' : handlers'[i].id # answeredBy[r]
               /\ \A s \in Requests : answeredBy[s] = answeredBy[r] => s = r
    <3>1. answeredBy[r] \in oneTime
      BY <1>1, <2>2, <2>3
    <3>2. /\ \A i \in DOMAIN handlers : handlers[i].id # answeredBy[r]
          /\ \A s \in Requests : answeredBy[s] = answeredBy[r] => s = r
      BY <3>1 DEF DoublesInv, AdapterInv, AnsweredApart
    <3>3. QED
      BY <1>2, <1>4, <1>5, <1>8, <2>2, <3>2
  <2>4. QED
    BY <2>2, <2>3
<1>12. RecorderInv'
  BY <1>1 DEF DoublesInv, RecorderInv, RecordsApart, RecordsComplete, TaggedRecording
<1>13. QED
  BY <1>7, <1>10, <1>11, <1>12 DEF DoublesInv, AdapterInv

\* The handler that answers is gone if it answers once.
LEMMA HandleDoubles ==
  ASSUME DoublesInv, NEW r \in Requests, Doubles!Handle(r), UNCHANGED <<registered, oneTime>>
  PROVE  /\ handlers' \in Seq(Doubles!Handlers)
         /\ answeredBy' \in [Requests -> 0 .. MaxHandlers]
         /\ \E s \in {"rejected", "handled"} : stage' = [stage EXCEPT ![r] = s]
         /\ AdapterInv'
<1>1. /\ handlers \in Seq(Doubles!Handlers) /\ DOMAIN handlers = 1 .. Len(handlers)
      /\ answeredBy \in [Requests -> 0 .. MaxHandlers] /\ Len(handlers) \in Nat
      /\ registered' = registered /\ oneTime' = oneTime
      /\ \A i \in DOMAIN handlers : handlers[i] \in Doubles!Handlers
      /\ MaxHandlers \in Nat
  BY DoublesTypes
<1>2. CASE handlers = <<>>
  <2>1. /\ handlers' = handlers /\ answeredBy' = answeredBy
        /\ stage' = [stage EXCEPT ![r] = "rejected"]
    BY <1>2 DEF Doubles!Handle
  <2>2. AdapterInv'
    BY <1>1, <2>1 DEF DoublesInv, AdapterInv, HandlersApart, AnsweredApart
  <2>3. QED
    BY <1>1, <2>1, <2>2
<1>3. CASE handlers # <<>>
  <2>. DEFINE h == handlers[1]
  <2>1. 1 \in DOMAIN handlers
    BY <1>1, <1>3, EmptySeq
  <2>2. /\ handlers' = (IF h.once THEN Doubles!RemoveAt(handlers, 1) ELSE handlers)
        /\ answeredBy' = [answeredBy EXCEPT ![r] = Head(handlers).id]
        /\ stage' = [stage EXCEPT ![r] = IF Head(handlers).fails THEN "rejected" ELSE "handled"]
    BY <1>3 DEF Doubles!Handle, Doubles!Removed
  <2>3. Head(handlers) = h /\ h \in Doubles!Handlers /\ h.id \in 1 .. MaxHandlers /\ h.once \in BOOLEAN
    BY <1>1, <1>3, <2>1 DEF Doubles!Handlers
  <2>. HIDE DEF h
  <2>4. /\ h.id <= registered /\ (h.once <=> h.id \in oneTime)
        /\ \A i \in DOMAIN handlers : handlers[i].id = h.id => i = 1
    BY <2>1 DEF DoublesInv, AdapterInv, HandlersApart, h
  <2>5. /\ answeredBy' \in [Requests -> 0 .. MaxHandlers] /\ answeredBy'[r] = h.id
        /\ \A s \in Requests : s # r => answeredBy'[s] = answeredBy[s]
    BY <1>1, <2>2, <2>3
  \* Where the handlers that are left were before.
  <2>6. \E was \in [DOMAIN handlers' -> DOMAIN handlers] :
          /\ handlers' \in Seq(Doubles!Handlers)
          /\ \A k \in DOMAIN handlers' : handlers'[k] = handlers[was[k]] /\ (h.once => was[k] # 1)
          /\ \A j, k \in DOMAIN handlers' : was[j] = was[k] => j = k
    <3>1. CASE h.once
      <4>. DEFINE q == RemoveAt(handlers, 1)
                  was == [k \in 1 .. Len(handlers) - 1 |-> Position(k, 1)]
      <4>1. /\ q \in Seq(Doubles!Handlers) /\ Len(q) = Len(handlers) - 1
            /\ \A k \in 1 .. Len(handlers) - 1 : /\ Position(k, 1) \in DOMAIN handlers \ {1}
                                                /\ q[k] = handlers[Position(k, 1)]
            /\ \A j, k \in 1 .. Len(handlers) - 1 : Position(j, 1) = Position(k, 1) => j = k
        BY <1>1, <2>1, RemoveAtElements, Zenon
      <4>2. handlers' = q
        BY <2>2, <3>1 DEF Doubles!RemoveAt, RemoveAt
      <4>. HIDE DEF q
      <4>3. DOMAIN q = 1 .. Len(handlers) - 1
        BY <4>1, LenProperties
      <4>4. /\ was \in [DOMAIN q -> DOMAIN handlers]
            /\ \A k \in DOMAIN q : q[k] = handlers[was[k]] /\ was[k] # 1
            /\ \A j, k \in DOMAIN q : was[j] = was[k] => j = k
        BY <4>1, <4>3
      <4>. HIDE DEF was
      <4>5. QED
        BY <4>1, <4>2, <4>4
    <3>2. CASE ~h.once
      <4>. DEFINE was == [k \in DOMAIN handlers |-> k]
      <4>1. handlers' = handlers
        BY <2>2, <3>2
      <4>2. /\ was \in [DOMAIN handlers -> DOMAIN handlers]
            /\ \A k \in DOMAIN handlers : was[k] = k
        OBVIOUS
      <4>. HIDE DEF was
      <4>3. QED
        BY <1>1, <3>2, <4>1, <4>2
    <3>3. QED
      BY <2>3, <3>1, <3>2
  <2>7. PICK was \in [DOMAIN handlers' -> DOMAIN handlers] :
          /\ handlers' \in Seq(Doubles!Handlers)
          /\ \A k \in DOMAIN handlers' : handlers'[k] = handlers[was[k]] /\ (h.once => was[k] # 1)
          /\ \A j, k \in DOMAIN handlers' : was[j] = was[k] => j = k
    BY <2>6
  <2>8. HandlersApart'
    BY <1>1, <2>7 DEF DoublesInv, AdapterInv, HandlersApart
  <2>9. AnsweredApart'
    <3>. SUFFICES ASSUME NEW s \in Requests
                  PROVE  /\ answeredBy'[s] <= registered
                         /\ answeredBy'[s] \in oneTime =>
                              /\ \A i \in DOMAIN handlers' : handlers'[i].id # answeredBy'[s]
                              /\ \A u \in Requests : answeredBy'[u] = answeredBy'[s] => u = s
      BY <1>1 DEF AnsweredApart
    <3>1. \A u \in Requests :
            /\ answeredBy[u] <= registered
            /\ answeredBy[u] \in oneTime =>
                 /\ \A i \in DOMAIN handlers : handlers[i].id # answeredBy[u]
                 /\ \A v \in Requests : answeredBy[v] = answeredBy[u] => v = u
      BY DEF DoublesInv, AdapterInv, AnsweredApart
    <3>2. CASE s = r
      <4>1. ASSUME h.id \in oneTime
            PROVE  /\ \A i \in DOMAIN handlers' : handlers'[i].id # h.id
                   /\ \A u \in Requests : u # r => answeredBy[u] # h.id
        <5>1. \A i \in DOMAIN handlers' : handlers'[i].id # h.id
          BY <2>4, <2>7, <4>1
        <5>2. \A u \in Requests : answeredBy[u] # h.id
          BY <2>1, <3>1, <4>1 DEF h
        <5>3. QED
          BY <5>1, <5>2
      <4>2. QED
        BY <2>4, <2>5, <3>2, <4>1
    <3>3. CASE s # r
      <4>1. answeredBy'[s] = answeredBy[s] /\ answeredBy[s] <= registered
        BY <2>5, <3>1, <3>3
      <4>2. ASSUME answeredBy[s] \in oneTime
            PROVE  /\ \A i \in DOMAIN handlers' : handlers'[i].id # answeredBy[s]
                   /\ \A u \in Requests : answeredBy'[u] = answeredBy[s] => u = s
        <5>1. /\ \A i \in DOMAIN handlers : handlers[i].id # answeredBy[s]
              /\ \A v \in Requests : answeredBy[v] = answeredBy[s] => v = s
          BY <3>1, <4>2
        <5>2. \A i \in DOMAIN handlers' : handlers'[i].id # answeredBy[s]
          BY <2>7, <5>1
        <5>3. h.id # answeredBy[s]
          BY <2>1, <5>1 DEF h
        <5>4. QED
          BY <2>5, <5>1, <5>2, <5>3
      <4>3. QED
        BY <4>1, <4>2
    <3>4. QED
      BY <3>2, <3>3
  <2>10. \E s \in {"rejected", "handled"} : stage' = [stage EXCEPT ![r] = s]
    BY <2>2
  <2>11. QED
    BY <2>5, <2>7, <2>8, <2>9, <2>10 DEF AdapterInv
<1>4. QED
  BY <1>2, <1>3

\* A request on its way is no record yet, and no tag it gets makes it one.
LEMMA UnderwayDoubles ==
  ASSUME DoublesInv, NEW r \in Requests, stage[r] \in {"new", "delayed"},
         NEW to \in {"delayed", "handled", "rejected"}, stage' = [stage EXCEPT ![r] = to],
         \/ UNCHANGED <<tagged, begun>>
         \/ stage[r] = "new" /\ Doubles!Tag(r),
         UNCHANGED <<isRecording, records, recording>>
  PROVE  /\ RecorderInv'
         /\ stage' \in [Requests -> {"new", "delayed", "handled", "replied", "rejected"}]
         /\ tagged' \in SUBSET Requests /\ begun' \in [Requests -> 0 .. MaxRecordings]
<1>1. /\ stage \in [Requests -> {"new", "delayed", "handled", "replied", "rejected"}]
      /\ isRecording \in BOOLEAN /\ tagged \in SUBSET Requests
      /\ recording \in 0 .. MaxRecordings /\ begun \in [Requests -> 0 .. MaxRecordings]
      /\ MaxRecordings \in Nat /\ \A i \in DOMAIN records : records[i] \in Requests
  BY DoublesTypes
<1>2. /\ stage' \in [Requests -> {"new", "delayed", "handled", "replied", "rejected"}]
      /\ stage'[r] # "replied" /\ stage[r] # "replied"
      /\ \A s \in Requests : s # r => stage'[s] = stage[s]
  BY <1>1
<1>3. \/ tagged' = tagged /\ begun' = begun
      \/ isRecording /\ tagged' = tagged \cup {r} /\ begun' = [begun EXCEPT ![r] = recording]
  BY DEF Doubles!Tag
<1>4. /\ tagged' \in SUBSET Requests /\ begun' \in [Requests -> 0 .. MaxRecordings]
      /\ \A s \in Requests : s # r => begun'[s] = begun[s] /\ (s \in tagged' <=> s \in tagged)
      /\ tagged \subseteq tagged'
      /\ \/ begun'[r] = begun[r] /\ (r \in tagged' <=> r \in tagged)
         \/ isRecording /\ begun'[r] = recording /\ r \in tagged'
  BY <1>1, <1>3
<1>5. RecordsApart'
  BY <1>1, <1>2, <1>4 DEF DoublesInv, RecorderInv, RecordsApart
<1>6. RecordsComplete'
  BY <1>2, <1>4 DEF DoublesInv, RecorderInv, RecordsComplete
<1>7. TaggedRecording'
  <2>1. /\ isRecording => recording > 0
        /\ \A s \in Requests : begun[s] <= recording /\ (begun[s] = 0 <=> s \notin tagged)
    BY DEF DoublesInv, RecorderInv, TaggedRecording
  <2>2. ASSUME NEW s \in Requests PROVE begun'[s] <= recording /\ (begun'[s] = 0 <=> s \notin tagged')
    <3>1. CASE begun'[s] = begun[s] /\ (s \in tagged' <=> s \in tagged)
      BY <2>1, <3>1
    <3>2. CASE isRecording /\ begun'[s] = recording /\ s \in tagged'
      <4>1. recording > 0 /\ recording # 0 /\ recording <= recording
        BY <1>1, <2>1, <3>2
      <4>2. QED
        BY <3>2, <4>1
    <3>3. QED
      BY <1>4, <3>1, <3>2
  <2>3. QED
    BY <2>1, <2>2 DEF TaggedRecording
<1>8. QED
  BY <1>2, <1>4, <1>5, <1>6, <1>7 DEF RecorderInv

LEMMA SendDoubles ==
  ASSUME DoublesInv, NEW r \in Requests, Doubles!Send(r) PROVE DoublesInv'
<1>1. /\ stage[r] = "new" /\ history' = Append(history, r) /\ Doubles!Tag(r)
      /\ \/ /\ stage' = [stage EXCEPT ![r] = "delayed"]
            /\ handlers' = handlers /\ answeredBy' = answeredBy
         \/ Doubles!Handle(r)
      /\ UNCHANGED <<registered, oneTime, isRecording, records, recording>>
  BY DEF Doubles!Send
<1>2. /\ handlers' \in Seq(Doubles!Handlers)
      /\ answeredBy' \in [Requests -> 0 .. MaxHandlers]
      /\ \E s \in {"delayed", "rejected", "handled"} : stage' = [stage EXCEPT ![r] = s]
      /\ AdapterInv'
  <2>1. CASE Doubles!Handle(r)
    BY <1>1, <2>1, HandleDoubles
  <2>2. CASE /\ stage' = [stage EXCEPT ![r] = "delayed"]
             /\ handlers' = handlers /\ answeredBy' = answeredBy
    <3>1. AdapterInv'
      BY <1>1, <2>2 DEF DoublesInv, AdapterInv, HandlersApart, AnsweredApart
    <3>2. QED
      BY <2>2, <3>1, DoublesTypes
  <2>3. QED
    BY <1>1, <2>1, <2>2
<1>3. /\ RecorderInv'
      /\ stage' \in [Requests -> {"new", "delayed", "handled", "replied", "rejected"}]
      /\ tagged' \in SUBSET Requests /\ begun' \in [Requests -> 0 .. MaxRecordings]
  BY <1>1, <1>2, UnderwayDoubles
<1>4. history' \in Seq(Requests)
  BY <1>1, AppendElements, DoublesTypes
<1>5. Doubles!TypeOK'
  BY <1>1, <1>2, <1>3, <1>4 DEF DoublesInv, Doubles!TypeOK, Doubles!Handlers
<1>6. QED
  BY <1>2, <1>3, <1>5 DEF DoublesInv

LEMMA DelayEndsDoubles ==
  ASSUME DoublesInv, NEW r \in Requests, Doubles!DelayEnds(r) PROVE DoublesInv'
<1>1. /\ stage[r] = "delayed" /\ Doubles!Handle(r)
      /\ UNCHANGED <<history, registered, oneTime>>
      /\ UNCHANGED <<isRecording, tagged, records, recording, begun>>
  BY DEF Doubles!DelayEnds, Doubles!recorderVars
<1>2. /\ handlers' \in Seq(Doubles!Handlers)
      /\ answeredBy' \in [Requests -> 0 .. MaxHandlers]
      /\ \E s \in {"rejected", "handled"} : stage' = [stage EXCEPT ![r] = s]
      /\ AdapterInv'
  BY <1>1, HandleDoubles
<1>3. /\ RecorderInv'
      /\ stage' \in [Requests -> {"new", "delayed", "handled", "replied", "rejected"}]
  BY <1>1, <1>2, UnderwayDoubles
<1>4. Doubles!TypeOK'
  BY <1>1, <1>2, <1>3 DEF DoublesInv, Doubles!TypeOK, Doubles!Handlers
<1>5. QED
  BY <1>2, <1>3, <1>4 DEF DoublesInv

\* An answer becomes a record if the recorder has tagged the request and still records.
LEMMA ReplyDoubles ==
  ASSUME DoublesInv, NEW r \in Requests, Doubles!Reply(r) PROVE DoublesInv'
<1>. DEFINE n == Len(records)
<1>1. /\ stage[r] = "handled" /\ stage' = [stage EXCEPT ![r] = "replied"]
      /\ records' = (IF isRecording /\ r \in tagged THEN Append(records, r) ELSE records)
      /\ UNCHANGED <<handlers, history, answeredBy, registered, oneTime, isRecording, tagged,
                     recording, begun>>
  BY DEF Doubles!Reply, Doubles!Captures
<1>2. /\ stage \in [Requests -> {"new", "delayed", "handled", "replied", "rejected"}]
      /\ records \in Seq(Requests) /\ n \in Nat /\ DOMAIN records = 1 .. n
      /\ \A i \in DOMAIN records : records[i] \in Requests
      /\ isRecording \in BOOLEAN
  BY DoublesTypes
<1>3. /\ stage' \in [Requests -> {"new", "delayed", "handled", "replied", "rejected"}]
      /\ stage'[r] = "replied" /\ \A s \in Requests : s # r => stage'[s] = stage[s]
  BY <1>1, <1>2
<1>4. AdapterInv' /\ TaggedRecording'
  BY <1>1 DEF DoublesInv, AdapterInv, HandlersApart, AnsweredApart, RecorderInv, TaggedRecording
<1>5. /\ \A i, j \in DOMAIN records : records[i] = records[j] => i = j
      /\ \A i \in DOMAIN records : /\ stage[records[i]] = "replied" /\ records[i] \in tagged
                                   /\ records[i] # r
  BY <1>1 DEF DoublesInv, RecorderInv, RecordsApart
<1>6. \A s \in Requests : isRecording /\ begun[s] = recording /\ stage[s] = "replied" =>
        \E i \in DOMAIN records : records[i] = s
  BY DEF DoublesInv, RecorderInv, RecordsComplete
<1>7. isRecording /\ begun[r] = recording => r \in tagged
  <2>1. isRecording => recording # 0
    BY DoublesTypes DEF DoublesInv, RecorderInv, TaggedRecording
  <2>2. QED
    BY <2>1 DEF DoublesInv, RecorderInv, TaggedRecording
<1>8. CASE isRecording /\ r \in tagged
  <2>1. /\ records' \in Seq(Requests) /\ DOMAIN records' = 1 .. n + 1
        /\ records'[n + 1] = r /\ \A k \in 1 .. n : records'[k] = records[k]
    BY <1>1, <1>2, <1>8, AppendElements
  <2>. HIDE DEF n
  <2>2. \A k \in 1 .. n + 1 : k \in 1 .. n \/ k = n + 1
    BY <1>2
  <2>3. \A k \in 1 .. n : k \in 1 .. n + 1
    BY <1>2
  <2>7. n + 1 \in 1 .. n + 1
    BY <1>2
  <2>4. RecordsApart'
    BY <1>1, <1>2, <1>3, <1>5, <1>8, <2>1, <2>2 DEF RecordsApart
  <2>5. RecordsComplete'
    <3>1. ASSUME NEW s \in Requests, isRecording /\ begun[s] = recording /\ stage'[s] = "replied"
          PROVE  \E i \in DOMAIN records' : records'[i] = s
      <4>1. CASE s = r
        BY <2>1, <2>7, <4>1
      <4>2. CASE s # r
        BY <1>2, <1>3, <1>6, <2>1, <2>3, <3>1, <4>2
      <4>3. QED
        BY <4>1, <4>2
    <3>2. QED
      BY <1>1, <3>1 DEF RecordsComplete
  <2>6. Doubles!TypeOK'
    BY <1>1, <1>3, <2>1 DEF DoublesInv, Doubles!TypeOK, Doubles!Handlers
  <2>8. QED
    BY <1>4, <2>4, <2>5, <2>6 DEF DoublesInv, RecorderInv
<1>9. CASE ~(isRecording /\ r \in tagged)
  <2>1. records' = records
    BY <1>1, <1>9
  <2>2. RecordsApart'
    BY <1>1, <1>2, <1>3, <1>5, <2>1 DEF RecordsApart
  <2>3. RecordsComplete'
    BY <1>1, <1>3, <1>6, <1>7, <1>9, <2>1 DEF RecordsComplete
  <2>4. Doubles!TypeOK'
    BY <1>1, <1>3, <2>1 DEF DoublesInv, Doubles!TypeOK, Doubles!Handlers
  <2>5. QED
    BY <1>4, <2>2, <2>3, <2>4 DEF DoublesInv, RecorderInv
<1>10. QED
  BY <1>8, <1>9

\* start() and clear() begin a recording that no request has been sent in.
LEMMA RecorderStarts ==
  ASSUME DoublesInv, recording < MaxRecordings, recording' = recording + 1, records' = <<>>,
         isRecording' \in {isRecording, TRUE}, UNCHANGED <<tagged, begun>>,
         UNCHANGED <<handlers, history, stage, answeredBy, registered, oneTime>>
  PROVE  DoublesInv'
<1>1. /\ recording \in 0 .. MaxRecordings /\ begun \in [Requests -> 0 .. MaxRecordings]
      /\ MaxRecordings \in Nat /\ isRecording \in BOOLEAN
  BY DoublesTypes
<1>2. recording' \in 0 .. MaxRecordings /\ recording' > 0
  BY <1>1
<1>3. records' \in Seq(Requests) /\ DOMAIN records' = {}
  OBVIOUS
<1>4. \A s \in Requests : /\ begun[s] <= recording' /\ begun[s] # recording'
                          /\ (begun[s] = 0 <=> s \notin tagged)
  <2>1. \A s \in Requests : begun[s] <= recording /\ (begun[s] = 0 <=> s \notin tagged)
    BY DEF DoublesInv, RecorderInv, TaggedRecording
  <2>2. \A s \in Requests : begun[s] \in 0 .. MaxRecordings
    BY <1>1
  <2>3. \A s \in Requests : begun[s] <= recording' /\ begun[s] # recording'
    BY <1>1, <2>1, <2>2
  <2>4. QED
    BY <2>1, <2>3
<1>5. RecorderInv'
  BY <1>2, <1>3, <1>4 DEF RecorderInv, RecordsApart, RecordsComplete, TaggedRecording
<1>6. AdapterInv'
  BY DEF DoublesInv, AdapterInv, HandlersApart, AnsweredApart
<1>7. Doubles!TypeOK'
  BY <1>1, <1>2, <1>3 DEF DoublesInv, Doubles!TypeOK, Doubles!Handlers
<1>8. QED
  BY <1>5, <1>6, <1>7 DEF DoublesInv

LEMMA NextDoubles == DoublesInv /\ [Doubles!Next]_Doubles!vars => DoublesInv'
<1>. SUFFICES ASSUME DoublesInv, [Doubles!Next]_Doubles!vars PROVE DoublesInv'
  OBVIOUS
<1>1. ASSUME Doubles!Reset PROVE DoublesInv'
  <2>1. /\ handlers' = <<>> /\ history' = <<>>
        /\ UNCHANGED <<stage, answeredBy, registered, oneTime>>
        /\ UNCHANGED <<isRecording, tagged, records, recording, begun>>
    BY <1>1 DEF Doubles!Reset, Doubles!recorderVars
  <2>2. handlers' \in Seq(Doubles!Handlers) /\ history' \in Seq(Requests) /\ DOMAIN handlers' = {}
    BY <2>1
  <2>3. Doubles!TypeOK'
    BY <2>1, <2>2 DEF DoublesInv, Doubles!TypeOK, Doubles!Handlers
  <2>4. AdapterInv' /\ RecorderInv'
    BY <2>1, <2>2 DEF DoublesInv, AdapterInv, HandlersApart, AnsweredApart, RecorderInv,
                      RecordsApart, RecordsComplete, TaggedRecording
  <2>5. QED
    BY <2>3, <2>4 DEF DoublesInv
<1>2. ASSUME Doubles!Start \/ Doubles!Clear PROVE DoublesInv'
  <2>1. /\ recording < MaxRecordings /\ recording' = recording + 1 /\ records' = <<>>
        /\ isRecording' \in {isRecording, TRUE} /\ UNCHANGED <<tagged, begun>>
        /\ UNCHANGED <<handlers, history, stage, answeredBy, registered, oneTime>>
    BY <1>2 DEF Doubles!Start, Doubles!Clear, Doubles!mockVars
  <2>2. QED
    BY <2>1, RecorderStarts
<1>3. ASSUME Doubles!Stop PROVE DoublesInv'
  BY <1>3 DEF Doubles!Stop, Doubles!mockVars, DoublesInv, Doubles!TypeOK, Doubles!Handlers,
              AdapterInv, HandlersApart, AnsweredApart, RecorderInv, RecordsApart,
              RecordsComplete, TaggedRecording
<1>4. CASE UNCHANGED Doubles!vars
  BY <1>4 DEF Doubles!vars, Doubles!mockVars, Doubles!recorderVars, DoublesInv, Doubles!TypeOK,
              Doubles!Handlers, AdapterInv, HandlersApart, AnsweredApart, RecorderInv,
              RecordsApart, RecordsComplete, TaggedRecording
<1>5. QED
  BY <1>1, <1>2, <1>3, <1>4, OnDoubles, SendDoubles, DelayEndsDoubles, ReplyDoubles
     DEF Doubles!Next

\* replyOnce() answers one request and the recorder records each request once, for any
\* requests, handlers and recordings that overlap.
THEOREM DoublesAnswerOnce == Doubles!Spec => []AnsweredOnceRecordedOnce
<1>1. \A S : Doubles!Cardinality(S) = Cardinality(S)
  BY DEF Doubles!Cardinality, Cardinality
<1>2. ASSUME DoublesInv PROVE AnsweredOnceRecordedOnce
  <2>1. \A r, s \in Requests : answeredBy[r] = answeredBy[s] /\ answeredBy[r] \in oneTime => r = s
    BY <1>2 DEF DoublesInv, AdapterInv, AnsweredApart
  <2>2. ASSUME NEW r \in Requests
        PROVE  LET times == Doubles!Cardinality({i \in DOMAIN records : records[i] = r})
               IN  /\ times <= 1
                   /\ begun[r] = 0 => times = 0
                   /\ isRecording /\ begun[r] = recording /\ stage[r] = "replied" => times = 1
    <3>. DEFINE places == {i \in DOMAIN records : records[i] = r}
                times == Cardinality(places)
    <3>1. \A i, j \in DOMAIN records : records[i] = records[j] => i = j
      BY <1>2 DEF DoublesInv, RecorderInv, RecordsApart
    <3>2. CASE places = {}
      <4>1. times = 0
        BY <3>2, FS_EmptySet
      <4>2. ~(isRecording /\ begun[r] = recording /\ stage[r] = "replied")
        BY <1>2, <3>2 DEF DoublesInv, RecorderInv, RecordsComplete
      <4>. HIDE DEF places, times
      <4>3. /\ times <= 1 /\ (begun[r] = 0 => times = 0)
            /\ isRecording /\ begun[r] = recording /\ stage[r] = "replied" => times = 1
        BY <4>1, <4>2
      <4>4. QED
        BY <1>1, <4>3 DEF places, times
    <3>3. ASSUME NEW i \in places
          PROVE  /\ times <= 1 /\ (begun[r] = 0 => times = 0)
                 /\ isRecording /\ begun[r] = recording /\ stage[r] = "replied" => times = 1
      <4>1. places = {i}
        BY <3>1, <3>3
      <4>2. Cardinality({i}) = 1
        BY FS_Singleton
      <4>3. begun[r] # 0
        BY <1>2, <3>3 DEF DoublesInv, RecorderInv, RecordsApart, TaggedRecording
      <4>4. times = 1
        BY <4>1, <4>2
      <4>. HIDE DEF times
      <4>5. QED
        BY <4>3, <4>4
    <3>4. QED
      BY <1>1, <3>2, <3>3
  <2>3. QED
    BY <2>1, <2>2 DEF AnsweredOnceRecordedOnce, Doubles!AnsweredOnceRecordedOnce
<1>3. QED
  BY <1>2, InitDoubles, NextDoubles, PTL DEF Doubles!Spec

-----------------------------------------------------------------------------
\* debounce(): the one timer that is set is for the last call.
DebounceInv ==
  /\ \A t \in timers : t.call = handle /\ t.call = calls /\ ~t.checked
  /\ \A t, u \in timers : t = u
  /\ timers = {} => handle = 0 /\ ran = calls

\* throttle() with a leading call: the one timer that is set is for the last call, which
\* comes when the next call may run; or the last call has run in its place, and it is too
\* early for the timer to run anything.
ThrottleInv ==
  /\ \A t \in timers :
       /\ t.call = handle /\ t.checked /\ now <= t.at /\ (~inThrottle => t.at <= now)
       /\ t.call = calls => t.at = lastRan + Limit
       /\ t.call # calls => ran = calls /\ t.at < lastRan + Limit
  /\ \A t, u \in timers : t = u
  /\ inThrottle => reopens = lastRan + Limit /\ now <= reopens
  /\ timers = {} => ran = calls

TimedInv ==
  /\ Timed!TypeOK /\ handle <= calls
  /\ ~throttled => DebounceInv
  /\ throttled /\ leading => ThrottleInv

LEMMA InitTimed == Timed!Init => TimedInv
<1>1. MaxTime \in Nat /\ Limit \in Nat /\ MaxCalls \in Nat
  BY StandaloneAssumption
<1>2. 0 \in 0 .. MaxTime /\ 0 \in 0 .. MaxTime + Limit /\ 0 \in 0 .. MaxCalls
  BY <1>1
<1>3. ASSUME Timed!Init PROVE Timed!TypeOK
  <2>1. {throttled, leading, inThrottle} \subseteq BOOLEAN
    BY <1>3 DEF Timed!Init
  <2>2. lastRan \in (0 .. MaxTime) \cup {Timed!LongAgo} /\ timers \in SUBSET Timed!Timers
    BY <1>3 DEF Timed!Init
  <2>3. now \in 0 .. MaxTime /\ reopens \in 0 .. MaxTime + Limit /\ {handle, calls, ran} \subseteq 0 .. MaxCalls
    BY <1>2, <1>3 DEF Timed!Init
  <2>4. reopens \in Timed!Times
    BY <2>3 DEF Timed!Times
  <2>5. QED
    BY <2>1, <2>2, <2>3, <2>4, Zenon DEF Timed!TypeOK
<1>4. ASSUME Timed!Init PROVE handle <= calls /\ DebounceInv /\ ThrottleInv
  <2>1. handle = 0 /\ calls = 0 /\ ran = 0 /\ timers = {} /\ ~inThrottle
    BY <1>4 DEF Timed!Init
  <2>2. QED
    BY <2>1 DEF DebounceInv, ThrottleInv
<1>5. QED
  BY <1>3, <1>4 DEF TimedInv

\* What TypeOK says of each variable.
LEMMA TimedTypes ==
  ASSUME TimedInv
  PROVE  /\ MaxTime \in Nat /\ Limit \in Nat /\ Limit > 0 /\ MaxCalls \in Nat
         /\ throttled \in BOOLEAN /\ leading \in BOOLEAN /\ inThrottle \in BOOLEAN
         /\ now \in 0 .. MaxTime /\ reopens \in 0 .. MaxTime + Limit
         /\ lastRan \in Int /\ lastRan <= MaxTime /\ lastRan + Limit \in 0 .. MaxTime + Limit
         /\ handle \in 0 .. MaxCalls /\ calls \in 0 .. MaxCalls /\ ran \in 0 .. MaxCalls
         /\ handle <= calls
         /\ \A t \in timers : /\ t.at \in 0 .. MaxTime + Limit /\ t.call \in 1 .. MaxCalls
                              /\ t.checked \in BOOLEAN
BY StandaloneAssumption DEF TimedInv, Timed!TypeOK, Timed!Times, Timed!Timers, Timed!LongAgo

\* A timer that is set is a timer.
LEMMA TimerSet ==
  ASSUME NEW time \in Timed!Times, NEW n \in 1 .. MaxCalls, NEW checked \in BOOLEAN
  PROVE  /\ Timed!At(time, n, checked) \in Timed!Timers
         /\ Timed!At(time, n, checked).at = time /\ Timed!At(time, n, checked).call = n
         /\ Timed!At(time, n, checked).checked = checked
BY DEF Timed!At, Timed!Timers

LEMMA CallTimed == TimedInv /\ Timed!Call => TimedInv'
<1>. SUFFICES ASSUME TimedInv, Timed!Call PROVE TimedInv'
  OBVIOUS
<1>1. /\ MaxTime \in Nat /\ Limit \in Nat /\ Limit > 0 /\ MaxCalls \in Nat
      /\ now \in 0 .. MaxTime /\ calls \in 0 .. MaxCalls /\ handle \in 0 .. MaxCalls
      /\ lastRan \in Int /\ lastRan <= MaxTime /\ lastRan + Limit \in 0 .. MaxTime + Limit
      /\ handle <= calls
  BY TimedTypes
<1>. DEFINE n == calls + 1
<1>2. /\ calls < MaxCalls /\ calls' = n /\ n \in 1 .. MaxCalls /\ n \in 0 .. MaxCalls
      /\ UNCHANGED <<throttled, leading, now>>
  BY <1>1 DEF Timed!Call
<1>. HIDE DEF n
<1>3. now + Limit \in Timed!Times /\ now \in Timed!Times /\ lastRan + Limit \in Timed!Times
  BY <1>1 DEF Timed!Times
<1>4. Timed!TypeOK /\ timers \subseteq Timed!Timers /\ Timed!Cleared \subseteq timers
  BY DEF TimedInv, Timed!TypeOK, Timed!Cleared
<1>5. CASE ~throttled
  <2>1. /\ ran' \in {ran, n} /\ handle' = n
        /\ timers' = Timed!Cleared \cup {Timed!At(now + Limit, n, FALSE)}
        /\ UNCHANGED <<inThrottle, reopens, lastRan>>
    BY <1>2, <1>5 DEF Timed!Call, Timed!Debounced, Timed!Run, Timed!NotRun, n
  <2>2. Timed!Cleared = {}
    BY <1>5 DEF TimedInv, DebounceInv, Timed!Cleared
  <2>. DEFINE t == Timed!At(now + Limit, n, FALSE)
  <2>3. t \in Timed!Timers /\ t.call = n /\ t.checked = FALSE
    BY <1>2, <1>3, TimerSet
  <2>. HIDE DEF t
  <2>4. timers' = {t}
    BY <2>1, <2>2 DEF t
  <2>5. Timed!TypeOK'
    BY <1>2, <1>4, <2>1, <2>3, <2>4 DEF Timed!TypeOK, Timed!Times, Timed!Timers
  <2>6. DebounceInv'
    BY <1>2, <2>1, <2>3, <2>4 DEF DebounceInv
  <2>7. handle' <= calls'
    BY <1>2, <2>1
  <2>8. QED
    BY <1>2, <1>5, <2>5, <2>6, <2>7 DEF TimedInv
<1>6. CASE throttled /\ ~inThrottle /\ leading
  <2>1. /\ ran' = n /\ lastRan' = now /\ inThrottle' = TRUE /\ reopens' = now + Limit
        /\ timers' = timers /\ handle' = handle
    BY <1>2, <1>6 DEF Timed!Call, Timed!Throttled, Timed!Run, Timed!Reopening, n
  <2>2. Timed!TypeOK'
    BY <1>2, <1>3, <1>4, <2>1 DEF Timed!TypeOK, Timed!Times, Timed!Timers
  <2>3. ThrottleInv'
    <3>1. ASSUME NEW t \in timers
          PROVE  /\ t.call = handle /\ t.checked /\ now <= t.at /\ t.at <= now
                 /\ t.call # n /\ t.at < now + Limit
      <4>1. t.call = handle /\ t.checked /\ now <= t.at /\ t.at <= now
        BY <1>6 DEF TimedInv, ThrottleInv
      <4>2. t.at \in Int
        BY <1>1, TimedTypes
      <4>3. QED
        BY <1>1, <4>1, <4>2 DEF n
    <3>2. \A t, u \in timers : t = u
      BY <1>6 DEF TimedInv, ThrottleInv
    <3>3. now <= now + Limit
      BY <1>1
    <3>4. QED
      BY <1>2, <2>1, <3>1, <3>2, <3>3 DEF ThrottleInv
  <2>4. handle' <= calls'
    BY <1>1, <1>2, <2>1 DEF n
  <2>5. QED
    BY <1>2, <1>6, <2>2, <2>3, <2>4 DEF TimedInv
<1>7. CASE throttled /\ inThrottle
  <2>. DEFINE time == IF lastRan + Limit > now THEN lastRan + Limit ELSE now
              t == Timed!At(time, n, TRUE)
  <2>1. /\ ran' = ran /\ handle' = n /\ timers' = Timed!Cleared \cup {t}
        /\ UNCHANGED <<inThrottle, reopens, lastRan>>
    BY <1>2, <1>7 DEF Timed!Call, Timed!Throttled, Timed!NotRun, n
  <2>2. time \in Timed!Times /\ now <= time
    BY <1>1, <1>3
  <2>. HIDE DEF time
  <2>3. t \in Timed!Timers /\ t.at = time /\ t.call = n /\ t.checked
    BY <1>2, <2>2, TimerSet
  <2>. HIDE DEF t
  <2>4. Timed!TypeOK'
    BY <1>2, <1>4, <2>1, <2>3 DEF Timed!TypeOK, Timed!Times, Timed!Timers
  <2>5. leading => ThrottleInv'
    <3>. SUFFICES ASSUME leading PROVE ThrottleInv'
      OBVIOUS
    <3>1. Timed!Cleared = {}
      BY <1>7 DEF TimedInv, ThrottleInv, Timed!Cleared
    <3>2. timers' = {t}
      BY <2>1, <3>1
    <3>3. reopens = lastRan + Limit /\ now <= reopens
      BY <1>7 DEF TimedInv, ThrottleInv
    <3>4. time = lastRan + Limit
      BY <1>1, <3>3 DEF time
    <3>5. QED
      BY <1>2, <1>7, <2>1, <2>2, <2>3, <3>2, <3>3, <3>4 DEF ThrottleInv
  <2>6. handle' <= calls'
    BY <1>2, <2>1
  <2>7. QED
    BY <1>2, <1>7, <2>4, <2>5, <2>6 DEF TimedInv
<1>8. CASE throttled /\ ~inThrottle /\ ~leading
  <2>. DEFINE t == Timed!At(now + Limit, n, FALSE)
  <2>1. /\ ran' = ran /\ handle' = n /\ timers' = timers \cup {t} /\ lastRan' = lastRan
        /\ inThrottle' = TRUE /\ reopens' = now + Limit
    BY <1>2, <1>8 DEF Timed!Call, Timed!Throttled, Timed!Reopening, Timed!NotRun, n
  <2>2. t \in Timed!Timers
    BY <1>2, <1>3, TimerSet
  <2>. HIDE DEF t
  <2>3. Timed!TypeOK'
    BY <1>2, <1>3, <1>4, <2>1, <2>2 DEF Timed!TypeOK, Timed!Times, Timed!Timers
  <2>4. handle' <= calls'
    BY <1>2, <2>1
  <2>5. QED
    BY <1>2, <1>8, <2>3, <2>4 DEF TimedInv
<1>9. QED
  BY <1>5, <1>6, <1>7, <1>8

LEMMA FireTimed == ASSUME TimedInv, NEW t \in timers, Timed!Fire(t) PROVE TimedInv'
<1>1. /\ Limit \in Nat /\ now \in 0 .. MaxTime /\ lastRan \in Int /\ t.at \in Int
      /\ t.call \in 1 .. MaxCalls /\ MaxTime \in Nat /\ MaxCalls \in Nat
  BY TimedTypes
<1>2. /\ t.at = now /\ (inThrottle => reopens > now) /\ timers' = timers \ {t}
      /\ handle' = (IF throttled THEN handle ELSE 0)
      /\ UNCHANGED <<throttled, leading, now, inThrottle, reopens, calls>>
      /\ \/ t.checked /\ now - lastRan < Limit /\ ran' = ran /\ lastRan' = lastRan
         \/ /\ ~(t.checked /\ now - lastRan < Limit)
            /\ ran' = t.call /\ lastRan' = IF throttled THEN now ELSE lastRan
  BY DEF Timed!Fire, Timed!Run, Timed!NotRun
<1>3. Timed!TypeOK /\ handle <= calls /\ handle \in 0 .. MaxCalls /\ calls \in 0 .. MaxCalls
  BY TimedTypes DEF TimedInv
<1>4. ran' \in 0 .. MaxCalls /\ lastRan' \in (0 .. MaxTime) \cup {Timed!LongAgo}
  BY <1>1, <1>2, <1>3 DEF Timed!TypeOK
<1>5. handle' \in 0 .. MaxCalls /\ handle' <= calls
  BY <1>1, <1>2, <1>3
<1>6. Timed!TypeOK'
  BY <1>2, <1>3, <1>4, <1>5 DEF Timed!TypeOK, Timed!Times, Timed!Timers
<1>7. ~throttled => DebounceInv'
  BY <1>2 DEF TimedInv, DebounceInv
<1>8. ASSUME throttled, leading PROVE ThrottleInv'
  <2>1. timers' = {}
    BY <1>2, <1>8 DEF TimedInv, ThrottleInv
  <2>2. /\ inThrottle => reopens = lastRan + Limit /\ now <= reopens
        /\ t.checked
        /\ t.call = calls => t.at = lastRan + Limit
        /\ t.call # calls => ran = calls /\ t.at < lastRan + Limit
    BY <1>8 DEF TimedInv, ThrottleInv
  <2>3. CASE t.call = calls
    <3>1. ~inThrottle /\ ~(now - lastRan < Limit)
      BY <1>1, <1>2, <2>2, <2>3
    <3>2. QED
      BY <1>2, <2>1, <2>3, <3>1 DEF ThrottleInv
  <2>4. CASE t.call # calls
    <3>1. now - lastRan < Limit /\ ran = calls
      BY <1>1, <1>2, <2>2, <2>4
    <3>2. ran' = ran /\ lastRan' = lastRan
      BY <1>2, <2>2, <3>1
    <3>3. QED
      BY <1>2, <2>1, <2>2, <3>1, <3>2 DEF ThrottleInv
  <2>5. QED
    BY <2>3, <2>4
<1>9. QED
  BY <1>2, <1>5, <1>6, <1>7, <1>8 DEF TimedInv

LEMMA ReopenTimed == TimedInv /\ Timed!Reopen => TimedInv'
<1>. SUFFICES ASSUME TimedInv, Timed!Reopen PROVE TimedInv'
  OBVIOUS
<1>1. /\ inThrottle /\ reopens = now /\ inThrottle' = FALSE
      /\ UNCHANGED <<throttled, leading, now, timers, handle, reopens, lastRan, calls, ran>>
  BY DEF Timed!Reopen
<1>2. Timed!TypeOK' /\ handle' <= calls'
  BY <1>1 DEF TimedInv, Timed!TypeOK, Timed!Times, Timed!Timers
<1>3. ~throttled => DebounceInv'
  BY <1>1 DEF TimedInv, DebounceInv
<1>4. ASSUME throttled, leading PROVE ThrottleInv'
  <2>1. ASSUME NEW t \in timers PROVE t.at <= now
    <3>1. /\ t.call = calls => t.at = lastRan + Limit
          /\ t.call # calls => t.at < lastRan + Limit
          /\ lastRan + Limit = now
      BY <1>1, <1>4 DEF TimedInv, ThrottleInv
    <3>2. t.at \in Int /\ now \in Int
      BY TimedTypes
    <3>3. QED
      BY <3>1, <3>2
  <2>2. QED
    BY <1>1, <1>4, <2>1 DEF TimedInv, ThrottleInv
<1>5. QED
  BY <1>1, <1>2, <1>3, <1>4 DEF TimedInv

LEMMA TickTimed == TimedInv /\ Timed!Tick => TimedInv'
<1>. SUFFICES ASSUME TimedInv, Timed!Tick PROVE TimedInv'
  OBVIOUS
<1>1. /\ now < MaxTime /\ now' = now + 1 /\ (\A t \in timers : t.at > now)
      /\ (inThrottle => reopens > now)
      /\ UNCHANGED <<throttled, leading, timers, handle, inThrottle, reopens, lastRan, calls, ran>>
  BY DEF Timed!Tick
<1>2. now \in 0 .. MaxTime /\ MaxTime \in Nat /\ reopens \in Int
  BY TimedTypes
<1>3. Timed!TypeOK' /\ handle' <= calls'
  <2>1. now' \in 0 .. MaxTime
    BY <1>1, <1>2
  <2>2. QED
    BY <1>1, <2>1 DEF TimedInv, Timed!TypeOK, Timed!Times, Timed!Timers
<1>4. ~throttled => DebounceInv'
  BY <1>1 DEF TimedInv, DebounceInv
<1>5. ASSUME throttled, leading PROVE ThrottleInv'
  <2>1. ASSUME NEW t \in timers PROVE inThrottle /\ now' <= t.at
    <3>1. t.at > now /\ (~inThrottle => t.at <= now)
      BY <1>1, <1>5 DEF TimedInv, ThrottleInv
    <3>2. t.at \in Int
      BY TimedTypes
    <3>3. QED
      BY <1>1, <1>2, <3>1, <3>2
  <2>2. inThrottle => now' <= reopens
    BY <1>1, <1>2
  <2>3. QED
    BY <1>1, <1>5, <2>1, <2>2 DEF TimedInv, ThrottleInv
<1>6. QED
  BY <1>1, <1>3, <1>4, <1>5 DEF TimedInv

LEMMA NextTimed == TimedInv /\ [Timed!Next]_Timed!vars => TimedInv'
<1>1. ASSUME TimedInv, UNCHANGED Timed!vars PROVE TimedInv'
  BY <1>1 DEF Timed!vars, TimedInv, Timed!TypeOK, Timed!Times, Timed!Timers, DebounceInv, ThrottleInv
<1>2. QED
  BY <1>1, CallTimed, FireTimed, ReopenTimed, TickTimed DEF Timed!Next

\* debounce(), and throttle() with a leading call, run the function for the last call, for
\* any calls and at any times.
THEOREM LastCallsRun == Timed!Spec => []LastCallRuns
<1>1. TimedInv => LastCallRuns
  BY DEF TimedInv, DebounceInv, ThrottleInv, LastCallRuns, Timed!LastCallRuns, Timed!TypeOK
<1>2. QED
  BY <1>1, InitTimed, NextTimed, PTL DEF Timed!Spec

-----------------------------------------------------------------------------
\* RequestHeaders: what the helpers do to each header.
LEMMA SpreadHeaders ==
  ASSUME NEW under \in Built!Headers, NEW over \in Built!Headers
  PROVE  /\ Built!Spread(under, over) \in Built!Headers
         /\ \A name \in Built!Names : Built!Spread(under, over)[name] = IF over[name] # 0 THEN over[name] ELSE under[name]
BY DEF Built!Spread, Built!Headers, Built!None

LEMMA SetHeader ==
  ASSUME NEW h \in Built!Headers, NEW name \in Built!Names, NEW value \in Nat
  PROVE  /\ [h EXCEPT ![name] = value] \in Built!Headers
         /\ [h EXCEPT ![name] = value][name] = value
         /\ \A other \in Built!Names : other # name => [h EXCEPT ![name] = value][other] = h[other]
BY DEF Built!Headers

LEMMA EmptyHeaders ==
  Built!Empty \in Built!Headers /\ \A name \in Built!Names : Built!Empty[name] = 0
BY DEF Built!Empty, Built!Headers, Built!None

LEMMA HeaderNames ==
  /\ Built!Spellings = {"X-Custom", "x-custom", "Content-Type", "content-type"}
  /\ {"X-API-Version", "Cookie", "x-request-id", "traceparent", "baggage"} \subseteq Built!Names
  /\ Built!Spellings \subseteq Built!Names
  /\ \A name \in Built!Spellings :
       name \notin {"X-API-Version", "Cookie", "x-request-id", "traceparent", "baggage"}
BY DEF Built!Names, Built!Spellings

\* _serializeBody() sets the type of the body, and nothing else.
LEMMA SerializedHeaders ==
  ASSUME NEW h \in Built!Headers, NEW form \in BOOLEAN
  PROVE  /\ Built!Serialized(h, form) \in Built!Headers
         /\ Built!Serialized(h, form)["Content-Type"] =
              IF form THEN 0 ELSE IF h["Content-Type"] = 0 THEN 8 ELSE h["Content-Type"]
         /\ \A name \in Built!Names : name # "Content-Type" => Built!Serialized(h, form)[name] = h[name]
<1>. DEFINE value == IF form THEN Built!None ELSE IF h["Content-Type"] = Built!None THEN Built!Json ELSE h["Content-Type"]
<1>1. Built!Serialized(h, form) = [h EXCEPT !["Content-Type"] = value]
  BY DEF Built!Serialized, Built!Headers
<1>2. value \in Nat /\ value = IF form THEN 0 ELSE IF h["Content-Type"] = 0 THEN 8 ELSE h["Content-Type"]
  BY HeaderNames DEF Built!None, Built!Json, Built!Headers
<1>. HIDE DEF value
<1>. DEFINE r == [h EXCEPT !["Content-Type"] = value]
<1>3. /\ r \in Built!Headers /\ r["Content-Type"] = value
      /\ \A name \in Built!Names : name # "Content-Type" => r[name] = h[name]
  BY <1>2, HeaderNames, SetHeader
<1>. HIDE DEF r
<1>4. QED
  BY <1>1, <1>2, <1>3 DEF r

\* request() sets the version of the client, and nothing else.
LEMMA VersionedHeaders ==
  ASSUME NEW client \in Built!Configs, NEW h \in Built!Headers
  PROVE  /\ Built!Versioned(client, h) \in Built!Headers
         /\ client.version > 0 /\ client.style = "header" =>
              Built!Versioned(client, h)["X-API-Version"] = client.version
         /\ \A name \in Built!Names : name # "X-API-Version" => Built!Versioned(client, h)[name] = h[name]
<1>1. client.version \in Nat
  BY DEF Built!Configs
<1>2. QED
  BY <1>1, HeaderNames, SetHeader DEF Built!Versioned

\* The interceptors keep what others have set, give the request an id and a trace if it has
\* none, and touch nothing else but Cookie and baggage.
LEMMA InterceptedHeaders ==
  ASSUME NEW h \in Built!Headers, NEW kinds \in SUBSET Built!Kinds, NEW id \in Nat
  PROVE  /\ Built!Intercepted(h, kinds, id) \in Built!Headers
         /\ \A name \in Built!Spellings \cup {"X-API-Version"} : Built!Intercepted(h, kinds, id)[name] = h[name]
         /\ Built!Intercepted(h, kinds, id)["x-request-id"] =
              IF "trace" \in kinds /\ h["x-request-id"] = 0 THEN id ELSE h["x-request-id"]
         /\ Built!Intercepted(h, kinds, id)["traceparent"] =
              IF "otel" \in kinds /\ h["traceparent"] = 0 THEN id ELSE h["traceparent"]
<1>. DEFINE a == IF "ssr" \in kinds THEN Built!Forwarded(h) ELSE h
            b == IF "trace" \in kinds THEN Built!Traced(a, id) ELSE a
            d == IF "otel" \in kinds THEN Built!WithSpan(b, id) ELSE b
<1>1. Built!Intercepted(h, kinds, id) = d
  BY DEF Built!Intercepted
<1>2. a \in Built!Headers /\ \A name \in Built!Names : name # "Cookie" => a[name] = h[name]
  <2>. DEFINE page == [Built!Empty EXCEPT !["Cookie"] = Built!CookieOfPage]
  <2>1. page \in Built!Headers /\ \A name \in Built!Names : name # "Cookie" => page[name] = 0
    BY EmptyHeaders, HeaderNames, SetHeader DEF Built!CookieOfPage
  <2>. HIDE DEF page
  <2>2. /\ Built!Spread(page, h) \in Built!Headers
        /\ \A name \in Built!Names : name # "Cookie" => Built!Spread(page, h)[name] = h[name]
    BY <2>1, SpreadHeaders
  <2>3. Built!Forwarded(h) = Built!Spread(page, h)
    BY DEF Built!Forwarded, page
  <2>4. QED
    BY <2>2, <2>3
<1>. HIDE DEF a
<1>3. /\ b \in Built!Headers /\ \A name \in Built!Names : name # "x-request-id" => b[name] = a[name]
      /\ b["x-request-id"] = IF "trace" \in kinds /\ a["x-request-id"] = 0 THEN id ELSE a["x-request-id"]
  <2>. DEFINE value == IF a["x-request-id"] = Built!None THEN id ELSE a["x-request-id"]
  <2>1. value \in Nat /\ value = IF a["x-request-id"] = 0 THEN id ELSE a["x-request-id"]
    BY <1>2, HeaderNames DEF Built!Headers, Built!None
  <2>2. Built!Traced(a, id) = [a EXCEPT !["x-request-id"] = value]
    BY <1>2 DEF Built!Traced, Built!Headers
  <2>. HIDE DEF value
  <2>. DEFINE r == [a EXCEPT !["x-request-id"] = value]
  <2>3. /\ r \in Built!Headers /\ r["x-request-id"] = value
        /\ \A name \in Built!Names : name # "x-request-id" => r[name] = a[name]
    BY <1>2, <2>1, HeaderNames, SetHeader
  <2>4. b = IF "trace" \in kinds THEN r ELSE a
    BY <2>2 DEF b
  <2>. HIDE DEF r, b
  <2>5. QED
    BY <1>2, <2>1, <2>3, <2>4
<1>. HIDE DEF b
<1>4. /\ d \in Built!Headers /\ \A name \in Built!Names : name \notin {"traceparent", "baggage"} => d[name] = b[name]
      /\ d["traceparent"] = IF "otel" \in kinds /\ b["traceparent"] = 0 THEN id ELSE b["traceparent"]
  <2>. DEFINE value == IF b["traceparent"] = Built!None THEN id ELSE b["traceparent"]
              first == [b EXCEPT !["traceparent"] = value]
              more == [first EXCEPT !["baggage"] = b["baggage"] + 1]
  <2>1. value \in Nat /\ value = IF b["traceparent"] = 0 THEN id ELSE b["traceparent"]
    BY <1>3, HeaderNames DEF Built!Headers, Built!None
  <2>2. b["baggage"] + 1 \in Nat
    BY <1>3, HeaderNames DEF Built!Headers
  <2>3. Built!WithSpan(b, id) = more
    BY <1>3 DEF Built!WithSpan, Built!Headers, Built!Names
  <2>. HIDE DEF value
  <2>4. /\ first \in Built!Headers /\ first["traceparent"] = value
        /\ \A name \in Built!Names : name # "traceparent" => first[name] = b[name]
    BY <1>3, <2>1, HeaderNames, SetHeader
  <2>. HIDE DEF first
  <2>5. /\ more \in Built!Headers /\ \A name \in Built!Names : name # "baggage" => more[name] = first[name]
    BY <2>2, <2>4, HeaderNames, SetHeader
  <2>. HIDE DEF more
  <2>6. QED
    BY <1>3, <2>1, <2>3, <2>4, <2>5, HeaderNames
<1>. HIDE DEF d
<1>5. QED
  BY <1>1, <1>2, <1>3, <1>4, HeaderNames

-----------------------------------------------------------------------------
\* The headers objects of the builder, of the clients and of the options exist and hold no
\* trace; a client's are what the builder's were; the options hold what the caller has put
\* there, but for the version.
Verbs == {"request", "get", "form", "json"}

Sends == [client : 1 .. MaxClients, first : 1 .. MaxRequests, verb : Verbs, given : Built!Headers,
          headers : Built!Headers, segments : Nat]

BuiltTypes ==
  /\ heap \in Seq(Built!Headers) /\ config \in Built!Configs /\ clients \in Seq(Built!Configs)
  /\ options \in 0 .. Len(heap) /\ built \in Seq(Built!Headers) /\ own \in Built!Headers
  /\ sent \in Seq(Sends) /\ changes \in 0 .. MaxChanges

HeadersKept ==
  /\ config.headers <= Len(heap)
  /\ \A c \in DOMAIN clients : clients[c].headers <= Len(heap)
  /\ \A k \in DOMAIN heap : heap[k]["x-request-id"] = 0 /\ heap[k]["traceparent"] = 0
  /\ \A name \in Built!Names : name # "X-API-Version" => Built!Normalized(options)[name] = own[name]

ClientsBuilt ==
  /\ Len(clients) <= MaxClients /\ Len(built) = Len(clients)
  /\ \A c \in DOMAIN clients : built[c] = Built!Normalized(clients[c].headers)

\* What the caller has set, and, of a body, its type.
Given(verb, given) ==
  IF verb \in {"json", "form"} THEN Built!Serialized(given, verb = "form") ELSE given

\* A request that was sent has the headers of the caller, else of the client as it was
\* built, the version of the client, and a trace of its own if the client traces.
SentRight(s) ==
  /\ s.client \in DOMAIN clients
  /\ \A name \in Built!Spellings :
       s.headers[name] = Built!Spread(built[s.client], Given(s.verb, s.given))[name]
  /\ Built!Version(s.client) # Built!None => s.headers["X-API-Version"] = Built!Version(s.client)
  /\ s.headers["x-request-id"] = IF "trace" \in clients[s.client].interceptors THEN s.first ELSE 0
  /\ s.headers["traceparent"] = IF "otel" \in clients[s.client].interceptors THEN s.first ELSE 0

AllSentRight == \A i \in DOMAIN sent : SentRight(sent[i])

BuiltInv == BuiltTypes /\ HeadersKept /\ ClientsBuilt /\ AllSentRight

LEMMA BuiltFacts ==
  ASSUME BuiltInv
  PROVE  /\ MaxClients \in Nat /\ MaxRequests \in Nat
         /\ Len(heap) \in Nat /\ DOMAIN heap = 1 .. Len(heap)
         /\ \A k \in DOMAIN heap : heap[k] \in Built!Headers
         /\ Len(clients) \in Nat /\ DOMAIN clients = 1 .. Len(clients)
         /\ \A c \in DOMAIN clients : clients[c] \in Built!Configs /\ c \in 1 .. MaxClients
         /\ DOMAIN built = DOMAIN clients /\ \A c \in DOMAIN clients : built[c] \in Built!Headers
         /\ Len(sent) \in Nat /\ DOMAIN sent = 1 .. Len(sent)
         /\ \A i \in DOMAIN sent : sent[i] \in Sends
<1>1. MaxClients \in Nat /\ MaxRequests \in Nat
  BY StandaloneAssumption
<1>2. Len(heap) \in Nat /\ DOMAIN heap = 1 .. Len(heap) /\ \A k \in DOMAIN heap : heap[k] \in Built!Headers
  <2>1. heap \in Seq(Built!Headers)
    BY DEF BuiltInv, BuiltTypes
  <2>2. QED
    BY <2>1, LenProperties, ElementOfSeq
<1>3. /\ Len(clients) \in Nat /\ DOMAIN clients = 1 .. Len(clients)
      /\ \A c \in DOMAIN clients : clients[c] \in Built!Configs
  <2>1. clients \in Seq(Built!Configs)
    BY DEF BuiltInv, BuiltTypes
  <2>2. QED
    BY <2>1, LenProperties, ElementOfSeq
<1>4. \A c \in DOMAIN clients : c \in 1 .. MaxClients
  BY <1>1, <1>3 DEF BuiltInv, ClientsBuilt
<1>5. DOMAIN built = DOMAIN clients /\ \A c \in DOMAIN clients : built[c] \in Built!Headers
  <2>1. built \in Seq(Built!Headers) /\ Len(built) = Len(clients)
    BY DEF BuiltInv, BuiltTypes, ClientsBuilt
  <2>2. DOMAIN built = 1 .. Len(built) /\ \A c \in 1 .. Len(built) : built[c] \in Built!Headers
    BY <2>1, LenProperties, ElementOfSeq
  <2>3. QED
    BY <1>3, <2>1, <2>2
<1>6. Len(sent) \in Nat /\ DOMAIN sent = 1 .. Len(sent) /\ \A i \in DOMAIN sent : sent[i] \in Sends
  <2>1. sent \in Seq(Sends)
    BY DEF BuiltInv, BuiltTypes
  <2>2. QED
    BY <2>1, LenProperties, ElementOfSeq
<1>7. QED
  BY <1>1, <1>2, <1>3, <1>4, <1>5, <1>6

\* What a reference to an object of the heap stands for: headers without a trace.
LEMMA NormalizedHeaders ==
  ASSUME BuiltInv, NEW ref \in 0 .. Len(heap)
  PROVE  /\ Built!Normalized(ref) \in Built!Headers
         /\ Built!Normalized(ref)["x-request-id"] = 0 /\ Built!Normalized(ref)["traceparent"] = 0
<1>1. CASE ref = 0
  BY <1>1, EmptyHeaders, HeaderNames DEF Built!Normalized, Built!None
<1>2. CASE ref # 0
  <2>1. ref \in DOMAIN heap /\ heap[ref] \in Built!Headers
    BY <1>2, BuiltFacts
  <2>2. Built!Normalized(ref) = heap[ref]
    BY <1>2 DEF Built!Normalized, Built!None
  <2>3. QED
    BY <2>1, <2>2 DEF BuiltInv, HeadersKept
<1>3. QED
  BY <1>1, <1>2

\* A new object leaves the others as they are.
LEMMA KeptHeaders ==
  ASSUME BuiltInv, NEW h \in Built!Headers, Built!Kept(h)
  PROVE  /\ heap' \in Seq(Built!Headers) /\ Len(heap') = Len(heap) + 1
         /\ DOMAIN heap' = 1 .. Len(heap) + 1 /\ heap'[Len(heap) + 1] = h
         /\ \A k \in DOMAIN heap : heap'[k] = heap[k]
         /\ \A ref \in 0 .. Len(heap) : (IF ref = 0 THEN Built!Empty ELSE heap'[ref]) = Built!Normalized(ref)
<1>1. heap \in Seq(Built!Headers) /\ Len(heap) \in Nat /\ DOMAIN heap = 1 .. Len(heap)
  BY BuiltFacts DEF BuiltInv, BuiltTypes
<1>2. heap' = Append(heap, h)
  BY DEF Built!Kept
<1>3. /\ heap' \in Seq(Built!Headers) /\ Len(heap') = Len(heap) + 1
      /\ DOMAIN heap' = 1 .. Len(heap) + 1 /\ heap'[Len(heap) + 1] = h
      /\ \A k \in 1 .. Len(heap) : heap'[k] = heap[k]
  BY <1>1, <1>2, AppendElements
<1>4. ASSUME NEW ref \in 0 .. Len(heap)
      PROVE  (IF ref = 0 THEN Built!Empty ELSE heap'[ref]) = Built!Normalized(ref)
  <2>1. ref # 0 => heap'[ref] = heap[ref]
    BY <1>1, <1>3
  <2>2. QED
    BY <2>1 DEF Built!Normalized, Built!None
<1>5. QED
  BY <1>1, <1>3, <1>4

LEMMA InitBuilt == Built!Init => BuiltInv
<1>. SUFFICES ASSUME Built!Init PROVE BuiltInv
  OBVIOUS
<1>1. /\ heap = <<>> /\ clients = <<>> /\ options = 0 /\ sent = <<>> /\ built = <<>>
      /\ own = Built!Empty /\ changes = 0
      /\ config = [headers |-> 0, version |-> 0, style |-> "header", interceptors |-> {}]
  BY DEF Built!Init, Built!None
<1>2. /\ Len(heap) = 0 /\ DOMAIN heap = {} /\ DOMAIN clients = {} /\ DOMAIN sent = {}
      /\ Len(clients) = 0 /\ Len(built) = 0 /\ DOMAIN built = {}
  BY <1>1
<1>3. config \in Built!Configs /\ config.headers = 0
  BY <1>1 DEF Built!Configs
<1>4. /\ heap \in Seq(Built!Headers) /\ clients \in Seq(Built!Configs)
      /\ built \in Seq(Built!Headers) /\ sent \in Seq(Sends)
  BY <1>1
<1>5. options \in 0 .. Len(heap) /\ own \in Built!Headers /\ changes \in 0 .. MaxChanges
  <2>1. MaxChanges \in Nat
    BY StandaloneAssumption
  <2>2. QED
    BY <1>1, <1>2, <2>1, EmptyHeaders
<1>6. BuiltTypes
  BY <1>3, <1>4, <1>5 DEF BuiltTypes
<1>7. Built!Normalized(options) = own
  BY <1>1 DEF Built!Normalized, Built!None
<1>8. 0 <= MaxClients
  BY StandaloneAssumption
<1>9. HeadersKept /\ ClientsBuilt /\ AllSentRight
  BY <1>2, <1>3, <1>7, <1>8 DEF HeadersKept, ClientsBuilt, AllSentRight
<1>10. QED
  BY <1>6, <1>9 DEF BuiltInv

\* _executeRequest() sends what is right if it is given what is right.
LEMMA SendIsRight ==
  ASSUME BuiltInv, NEW c \in DOMAIN clients, NEW verb \in Verbs, NEW first \in 1 .. MaxRequests,
         NEW given \in Built!Headers, NEW segments \in Nat, NEW headers \in Built!Headers,
         Built!Send(c, verb, first, given, segments, headers), clients' = clients, built' = built,
         \A name \in Built!Spellings :
           Built!Spread(built[c], headers)[name] = Built!Spread(built[c], Given(verb, given))[name],
         \/ /\ first = Len(sent) + 1
            /\ headers["x-request-id"] = 0 /\ headers["traceparent"] = 0
         \/ /\ headers["x-request-id"] = IF "trace" \in clients[c].interceptors THEN first ELSE 0
            /\ headers["traceparent"] = IF "otel" \in clients[c].interceptors THEN first ELSE 0
  PROVE  sent' \in Seq(Sends) /\ AllSentRight'
<1>. DEFINE client == clients[c]
            base == built[c]
            v == Built!Versioned(client, headers)
            m == Built!Spread(base, v)
            h == Built!Intercepted(m, client.interceptors, Len(sent) + 1)
            s == [client |-> c, verb |-> verb, first |-> first, given |-> given,
                  segments |-> segments + Built!Segments(client), headers |-> h]
<1>1. /\ client \in Built!Configs /\ base \in Built!Headers /\ c \in 1 .. MaxClients
      /\ Len(sent) \in Nat /\ DOMAIN sent = 1 .. Len(sent)
      /\ client.headers \in 0 .. Len(heap) /\ client.interceptors \in SUBSET Built!Kinds
      /\ client.version \in Nat
  BY BuiltFacts DEF BuiltInv, HeadersKept, Built!Configs
<1>2. base = Built!Normalized(client.headers)
  BY DEF BuiltInv, ClientsBuilt
<1>3. sent' = Append(sent, s)
  BY <1>2 DEF Built!Send, Built!Merged, Built!CachedBaseHeaders
<1>4. base["x-request-id"] = 0 /\ base["traceparent"] = 0
  BY <1>1, <1>2, NormalizedHeaders
<1>. HIDE DEF client, base
<1>5. /\ v \in Built!Headers
      /\ client.version > 0 /\ client.style = "header" => v["X-API-Version"] = client.version
      /\ \A name \in Built!Names : name # "X-API-Version" => v[name] = headers[name]
  BY <1>1, VersionedHeaders
<1>. HIDE DEF v
<1>6. m \in Built!Headers /\ \A name \in Built!Names : m[name] = IF v[name] # 0 THEN v[name] ELSE base[name]
  BY <1>1, <1>5, SpreadHeaders
<1>. HIDE DEF m
<1>7. /\ h \in Built!Headers
      /\ \A name \in Built!Spellings \cup {"X-API-Version"} : h[name] = m[name]
      /\ h["x-request-id"] = IF "trace" \in client.interceptors /\ m["x-request-id"] = 0 THEN Len(sent) + 1
                             ELSE m["x-request-id"]
      /\ h["traceparent"] = IF "otel" \in client.interceptors /\ m["traceparent"] = 0 THEN Len(sent) + 1
                            ELSE m["traceparent"]
  <2>. DEFINE id == Len(sent) + 1
              kinds == client.interceptors
              r == Built!Intercepted(m, kinds, id)
  <2>1. id \in Nat /\ kinds \in SUBSET Built!Kinds /\ m \in Built!Headers
    BY <1>1, <1>6
  <2>. HIDE DEF id, kinds
  <2>2. /\ r \in Built!Headers
        /\ \A name \in Built!Spellings \cup {"X-API-Version"} : r[name] = m[name]
        /\ r["x-request-id"] =
             IF "trace" \in kinds /\ m["x-request-id"] = 0 THEN id ELSE m["x-request-id"]
        /\ r["traceparent"] =
             IF "otel" \in kinds /\ m["traceparent"] = 0 THEN id ELSE m["traceparent"]
    BY <2>1, InterceptedHeaders
  <2>3. h = r
    BY DEF id, kinds
  <2>. HIDE DEF r, h
  <2>4. QED
    BY <2>2, <2>3 DEF id, kinds
<1>. HIDE DEF h
<1>8. Built!Segments(client) \in Nat
  BY DEF Built!Segments
<1>9. /\ s \in Sends /\ s.client = c /\ s.verb = verb /\ s.first = first /\ s.given = given
      /\ s.headers = h
  BY <1>1, <1>7, <1>8 DEF Sends
<1>. HIDE DEF s
<1>10. sent \in Seq(Sends)
  BY DEF BuiltInv, BuiltTypes
<1>11. /\ sent' \in Seq(Sends) /\ DOMAIN sent' = 1 .. Len(sent) + 1 /\ sent'[Len(sent) + 1] = s
       /\ \A i \in 1 .. Len(sent) : sent'[i] = sent[i]
  BY <1>3, <1>9, <1>10, AppendElements
<1>12. \A name \in Built!Spellings : h[name] = Built!Spread(base, Given(verb, given))[name]
  <2>1. ASSUME NEW name \in Built!Spellings PROVE h[name] = Built!Spread(base, headers)[name]
    <3>1. name \in Built!Names /\ name # "X-API-Version"
      BY HeaderNames
    <3>2. Built!Spread(base, headers)[name] = IF headers[name] # 0 THEN headers[name] ELSE base[name]
      BY <1>1, <3>1, SpreadHeaders
    <3>3. QED
      BY <1>5, <1>6, <1>7, <3>1, <3>2
  <2>2. QED
    BY <2>1 DEF base
<1>13. Built!Version(c) # Built!None => h["X-API-Version"] = Built!Version(c)
  <2>1. Built!Version(c) = IF client.style = "header" THEN client.version ELSE 0
    BY DEF Built!Version, Built!None, client
  <2>2. ASSUME client.style = "header", client.version # 0 PROVE h["X-API-Version"] = client.version
    <3>1. client.version > 0
      BY <1>1, <2>2
    <3>2. QED
      BY <1>5, <1>6, <1>7, <2>2, <3>1, HeaderNames
  <2>3. QED
    BY <2>1, <2>2 DEF Built!None
<1>14. /\ h["x-request-id"] = IF "trace" \in client.interceptors THEN first ELSE 0
       /\ h["traceparent"] = IF "otel" \in client.interceptors THEN first ELSE 0
  <2>1. m["x-request-id"] = headers["x-request-id"] /\ m["traceparent"] = headers["traceparent"]
    <3>1. /\ "x-request-id" \in Built!Names /\ "traceparent" \in Built!Names
          /\ headers["x-request-id"] \in Nat /\ headers["traceparent"] \in Nat
      BY HeaderNames DEF Built!Headers
    <3>2. v["x-request-id"] = headers["x-request-id"] /\ v["traceparent"] = headers["traceparent"]
      BY <1>5, <3>1
    <3>3. QED
      BY <1>4, <1>6, <3>1, <3>2
  <2>2. first # 0
    OBVIOUS
  <2>3. CASE /\ first = Len(sent) + 1
             /\ headers["x-request-id"] = 0 /\ headers["traceparent"] = 0
    BY <1>7, <2>1, <2>3
  <2>4. CASE /\ headers["x-request-id"] = IF "trace" \in client.interceptors THEN first ELSE 0
             /\ headers["traceparent"] = IF "otel" \in client.interceptors THEN first ELSE 0
    BY <1>7, <2>1, <2>2, <2>4
  <2>5. QED
    BY <2>3, <2>4 DEF client
<1>15. ASSUME NEW i \in DOMAIN sent'
       PROVE  /\ sent'[i].client \in DOMAIN clients
              /\ \A name \in Built!Spellings :
                   sent'[i].headers[name] =
                     Built!Spread(built[sent'[i].client], Given(sent'[i].verb, sent'[i].given))[name]
              /\ Built!Version(sent'[i].client) # Built!None =>
                   sent'[i].headers["X-API-Version"] = Built!Version(sent'[i].client)
              /\ sent'[i].headers["x-request-id"] =
                   IF "trace" \in clients[sent'[i].client].interceptors THEN sent'[i].first ELSE 0
              /\ sent'[i].headers["traceparent"] =
                   IF "otel" \in clients[sent'[i].client].interceptors THEN sent'[i].first ELSE 0
  <2>1. i \in 1 .. Len(sent) \/ i = Len(sent) + 1
    BY <1>1, <1>11
  <2>2. CASE i \in 1 .. Len(sent)
    <3>1. sent'[i] = sent[i] /\ SentRight(sent[i])
      BY <1>1, <1>11, <2>2 DEF BuiltInv, AllSentRight
    <3>2. QED
      BY <3>1 DEF SentRight
  <2>3. CASE i = Len(sent) + 1
    <3>1. sent'[i] = s
      BY <1>11, <2>3
    <3>2. QED
      BY <1>9, <1>12, <1>13, <1>14, <3>1 DEF client, base
  <2>4. QED
    BY <2>1, <2>2, <2>3
<1>16. AllSentRight'
  BY <1>15 DEF AllSentRight, SentRight, Built!Version, Given, Built!Spread, Built!Serialized,
               Built!Spellings
<1>17. QED
  BY <1>11, <1>16

\* An object that is added to the heap changes no other, and becomes the builder's, the
\* options', or nobody's.
LEMMA HeapGrows ==
  ASSUME BuiltInv, NEW h \in Built!Headers, Built!Kept(h), h["x-request-id"] = 0, h["traceparent"] = 0,
         clients' = clients, built' = built,
         config'.headers = config.headers \/ config'.headers = Len(heap) + 1,
         \/ options' = options /\ own' = own
         \/ /\ options' = Len(heap) + 1
            /\ \A name \in Built!Names : name # "X-API-Version" => h[name] = own'[name]
  PROVE  HeadersKept' /\ ClientsBuilt' /\ options' \in 0 .. Len(heap')
<1>1. /\ heap' \in Seq(Built!Headers) /\ Len(heap') = Len(heap) + 1
      /\ DOMAIN heap' = 1 .. Len(heap) + 1 /\ heap'[Len(heap) + 1] = h
      /\ \A k \in DOMAIN heap : heap'[k] = heap[k]
      /\ \A ref \in 0 .. Len(heap) : (IF ref = 0 THEN Built!Empty ELSE heap'[ref]) = Built!Normalized(ref)
  BY KeptHeaders
<1>2. /\ Len(heap) \in Nat /\ DOMAIN heap = 1 .. Len(heap)
      /\ \A c \in DOMAIN clients : clients[c] \in Built!Configs
      /\ options \in 0 .. Len(heap) /\ config \in Built!Configs
  BY BuiltFacts DEF BuiltInv, BuiltTypes
<1>3. /\ config.headers <= Len(heap) /\ config.headers \in Nat
      /\ \A c \in DOMAIN clients : clients[c].headers <= Len(heap) /\ clients[c].headers \in Nat
      /\ \A k \in DOMAIN heap : heap[k]["x-request-id"] = 0 /\ heap[k]["traceparent"] = 0
  BY <1>2 DEF BuiltInv, HeadersKept, Built!Configs
<1>4. config'.headers <= Len(heap')
  BY <1>1, <1>2, <1>3
<1>5. \A c \in DOMAIN clients : clients[c].headers <= Len(heap')
  BY <1>1, <1>2, <1>3
<1>6. ASSUME NEW k \in DOMAIN heap' PROVE heap'[k]["x-request-id"] = 0 /\ heap'[k]["traceparent"] = 0
  <2>1. k \in DOMAIN heap \/ k = Len(heap) + 1
    BY <1>1, <1>2
  <2>2. QED
    BY <1>1, <1>3, <2>1
<1>7. /\ options' \in 0 .. Len(heap')
      /\ \A name \in Built!Names : name # "X-API-Version" =>
           (IF options' = 0 THEN Built!Empty ELSE heap'[options'])[name] = own'[name]
  <2>1. CASE options' = options /\ own' = own
    <3>1. \A name \in Built!Names : name # "X-API-Version" => Built!Normalized(options)[name] = own[name]
      BY DEF BuiltInv, HeadersKept
    <3>2. options \in 0 .. Len(heap')
      BY <1>1, <1>2
    <3>3. QED
      BY <1>1, <1>2, <2>1, <3>1, <3>2
  <2>2. CASE /\ options' = Len(heap) + 1
             /\ \A name \in Built!Names : name # "X-API-Version" => h[name] = own'[name]
    <3>1. options' # 0 /\ options' \in 0 .. Len(heap')
      BY <1>1, <1>2, <2>2
    <3>2. QED
      BY <1>1, <2>2, <3>1
  <2>3. QED
    BY <2>1, <2>2
<1>8. HeadersKept'
  BY <1>4, <1>5, <1>6, <1>7 DEF HeadersKept, Built!Normalized, Built!None
<1>9. ASSUME NEW c \in DOMAIN clients
      PROVE  built[c] = IF clients[c].headers = 0 THEN Built!Empty ELSE heap'[clients[c].headers]
  <2>1. built[c] = Built!Normalized(clients[c].headers) /\ clients[c].headers \in 0 .. Len(heap)
    BY <1>2, <1>3 DEF BuiltInv, ClientsBuilt
  <2>2. QED
    BY <1>1, <2>1
<1>10. ClientsBuilt'
  BY <1>9 DEF BuiltInv, ClientsBuilt, Built!Normalized, Built!None
<1>11. QED
  BY <1>7, <1>8, <1>10

\* Nothing that was sent changes while the clients stay.
LEMMA SentStays ==
  ASSUME BuiltInv, sent' = sent, clients' = clients, built' = built PROVE AllSentRight'
BY DEF BuiltInv, AllSentRight, SentRight, Built!Version, Given, Built!Spread, Built!Serialized

LEMMA OptionHeaders ==
  ASSUME BuiltInv
  PROVE  /\ Built!Normalized(options) \in Built!Headers /\ own \in Built!Headers
         /\ Built!Normalized(options)["x-request-id"] = 0
         /\ Built!Normalized(options)["traceparent"] = 0
         /\ \A name \in Built!Spellings : Built!Normalized(options)[name] = own[name]
<1>1. options \in 0 .. Len(heap) /\ own \in Built!Headers
  BY DEF BuiltInv, BuiltTypes
<1>2. \A name \in Built!Spellings : name \in Built!Names /\ name # "X-API-Version"
  BY HeaderNames
<1>3. QED
  BY <1>1, <1>2, NormalizedHeaders DEF BuiltInv, HeadersKept

LEMMA SameSpread ==
  ASSUME NEW base \in Built!Headers, NEW one \in Built!Headers, NEW other \in Built!Headers,
         \A name \in Built!Spellings : one[name] = other[name]
  PROVE  \A name \in Built!Spellings :
           Built!Spread(base, one)[name] = Built!Spread(base, other)[name]
BY HeaderNames, SpreadHeaders

\* request() and get() send what is in the options.
LEMMA RequestSends ==
  ASSUME BuiltInv, NEW c \in DOMAIN clients, NEW verb \in {"request", "get"}, Len(sent) < MaxRequests,
         Built!Send(c, verb, Len(sent) + 1, own, 0, Built!Normalized(options)),
         clients' = clients, built' = built
  PROVE  sent' \in Seq(Sends) /\ AllSentRight'
<1>. DEFINE headers == Built!Normalized(options)
            first == Len(sent) + 1
<1>1. /\ headers \in Built!Headers /\ own \in Built!Headers
      /\ headers["x-request-id"] = 0 /\ headers["traceparent"] = 0
      /\ \A name \in Built!Spellings : headers[name] = own[name]
  BY OptionHeaders
<1>2. /\ Built!Send(c, verb, first, own, 0, headers) /\ first = Len(sent) + 1 /\ 0 \in Nat
      /\ first \in 1 .. MaxRequests
  BY BuiltFacts
<1>3. verb \in Verbs /\ Given(verb, own) = own
  <2>1. verb \notin {"json", "form"}
    OBVIOUS
  <2>2. Given(verb, own) = own
    BY <2>1 DEF Given
  <2>3. verb \in Verbs
    BY DEF Verbs
  <2>4. QED
    BY <2>2, <2>3
<1>4. built[c] \in Built!Headers
  BY BuiltFacts
<1>. HIDE DEF headers, first
<1>5. \A name \in Built!Spellings :
        Built!Spread(built[c], headers)[name] = Built!Spread(built[c], Given(verb, own))[name]
  BY <1>1, <1>3, <1>4, SameSpread
<1>6. QED
  BY <1>1, <1>2, <1>3, <1>5, SendIsRight

LEMMA GetBuilt == ASSUME BuiltInv, NEW c, Built!Get(c) PROVE BuiltInv'
<1>1. /\ Len(sent) < MaxRequests /\ c \in DOMAIN clients
      /\ Built!Send(c, "get", Len(sent) + 1, own, 0, Built!Normalized(options))
      /\ UNCHANGED <<heap, config, clients, options, built, own, changes>>
  BY DEF Built!Get
<1>2. sent' \in Seq(Sends) /\ AllSentRight'
  BY <1>1, RequestSends
<1>3. BuiltTypes' /\ HeadersKept' /\ ClientsBuilt'
  BY <1>1, <1>2 DEF BuiltInv, BuiltTypes, HeadersKept, ClientsBuilt, Built!Normalized
<1>4. QED
  BY <1>2, <1>3 DEF BuiltInv

LEMMA RequestBuilt == ASSUME BuiltInv, NEW c, Built!Request(c) PROVE BuiltInv'
<1>. DEFINE headers == Built!Normalized(options)
            h == Built!Versioned(clients[c], headers)
<1>1. /\ Len(sent) < MaxRequests /\ c \in DOMAIN clients
      /\ Built!Send(c, "request", Len(sent) + 1, own, 0, headers)
      /\ UNCHANGED <<config, clients, built, own, changes>>
      /\ \/ Built!Kept(h) /\ options' = Len(heap) + 1
         \/ heap' = heap /\ options' = options
  BY DEF Built!Request, Built!NewRef
<1>2. sent' \in Seq(Sends) /\ AllSentRight'
  BY <1>1, RequestSends
<1>3. CASE heap' = heap /\ options' = options
  <2>1. BuiltTypes' /\ HeadersKept' /\ ClientsBuilt'
    BY <1>1, <1>2, <1>3 DEF BuiltInv, BuiltTypes, HeadersKept, ClientsBuilt, Built!Normalized
  <2>2. QED
    BY <1>2, <2>1 DEF BuiltInv
<1>4. CASE Built!Kept(h) /\ options' = Len(heap) + 1
  <2>1. /\ headers \in Built!Headers /\ headers["x-request-id"] = 0 /\ headers["traceparent"] = 0
        /\ \A name \in Built!Names : name # "X-API-Version" => headers[name] = own[name]
    BY OptionHeaders DEF BuiltInv, HeadersKept
  <2>2. clients[c] \in Built!Configs
    BY <1>1, BuiltFacts
  <2>. HIDE DEF headers
  <2>3. /\ h \in Built!Headers
        /\ \A name \in Built!Names : name # "X-API-Version" => h[name] = headers[name]
    BY <2>1, <2>2, VersionedHeaders
  <2>. HIDE DEF h
  <2>4. h["x-request-id"] = 0 /\ h["traceparent"] = 0
    BY <2>1, <2>3, HeaderNames
  <2>5. \A name \in Built!Names : name # "X-API-Version" => h[name] = own'[name]
    BY <1>1, <2>1, <2>3
  <2>6. config'.headers = config.headers /\ Built!Kept(h)
    BY <1>1, <1>4
  <2>7. HeadersKept' /\ ClientsBuilt' /\ options' \in 0 .. Len(heap')
    BY <1>1, <1>4, <2>3, <2>4, <2>5, <2>6, HeapGrows
  <2>8. heap' \in Seq(Built!Headers)
    BY <2>3, <2>6, KeptHeaders
  <2>9. BuiltTypes'
    BY <1>1, <1>2, <2>7, <2>8 DEF BuiltInv, BuiltTypes
  <2>10. QED
    BY <1>2, <2>7, <2>9 DEF BuiltInv
<1>5. QED
  BY <1>1, <1>3, <1>4

LEMMA PostBuilt == ASSUME BuiltInv, NEW c, NEW form \in BOOLEAN, Built!Post(c, form) PROVE BuiltInv'
<1>. DEFINE options_ == Built!Normalized(options)
            headers == Built!Serialized(options_, form)
            verb == IF form THEN "form" ELSE "json"
            first == Len(sent) + 1
            given == Given(verb, own)
<1>1. /\ Len(sent) < MaxRequests /\ c \in DOMAIN clients
      /\ Built!Send(c, verb, first, own, 0, headers)
      /\ UNCHANGED <<heap, config, clients, options, built, own, changes>>
  BY DEF Built!Post
<1>2. /\ options_ \in Built!Headers /\ own \in Built!Headers
      /\ options_["x-request-id"] = 0 /\ options_["traceparent"] = 0
      /\ \A name \in Built!Spellings : options_[name] = own[name]
  BY OptionHeaders
<1>3. verb \in Verbs /\ given = Built!Serialized(own, form)
  <2>1. "form" \in Verbs /\ "json" \in Verbs
    BY DEF Verbs
  <2>2. CASE form
    <3>1. verb = "form" /\ form = TRUE
      BY <2>2
    <3>. HIDE DEF verb
    <3>2. given = Built!Serialized(own, TRUE)
      BY <3>1 DEF Given
    <3>3. QED
      BY <2>1, <3>1, <3>2
  <2>3. CASE ~form
    <3>1. verb = "json" /\ form = FALSE
      BY <2>3
    <3>. HIDE DEF verb
    <3>2. given = Built!Serialized(own, FALSE)
      BY <3>1 DEF Given
    <3>3. QED
      BY <2>1, <3>1, <3>2
  <2>4. QED
    BY <2>2, <2>3
<1>4. first = Len(sent) + 1 /\ 0 \in Nat /\ first \in 1 .. MaxRequests
  BY <1>1, BuiltFacts
<1>. HIDE DEF options_, verb, first
<1>5. /\ headers \in Built!Headers
      /\ headers["x-request-id"] = 0 /\ headers["traceparent"] = 0
      /\ \A name \in Built!Spellings \ {"Content-Type"} : headers[name] = options_[name]
      /\ headers["Content-Type"] =
           IF form THEN 0 ELSE IF options_["Content-Type"] = 0 THEN 8 ELSE options_["Content-Type"]
  <2>1. /\ headers \in Built!Headers
        /\ headers["Content-Type"] =
             IF form THEN 0 ELSE IF options_["Content-Type"] = 0 THEN 8 ELSE options_["Content-Type"]
        /\ \A name \in Built!Names : name # "Content-Type" => headers[name] = options_[name]
    BY <1>2, SerializedHeaders
  <2>. HIDE DEF headers
  <2>2. QED
    BY <1>2, <2>1, HeaderNames
<1>6. /\ given \in Built!Headers
      /\ \A name \in Built!Spellings \ {"Content-Type"} : given[name] = own[name]
      /\ given["Content-Type"] = IF form THEN 0 ELSE IF own["Content-Type"] = 0 THEN 8 ELSE own["Content-Type"]
  <2>. DEFINE r == Built!Serialized(own, form)
  <2>1. /\ r \in Built!Headers
        /\ r["Content-Type"] =
             IF form THEN 0 ELSE IF own["Content-Type"] = 0 THEN 8 ELSE own["Content-Type"]
        /\ \A name \in Built!Names : name # "Content-Type" => r[name] = own[name]
    BY <1>2, SerializedHeaders
  <2>2. given = r
    BY <1>3
  <2>. HIDE DEF r, given
  <2>3. QED
    BY <2>1, <2>2, HeaderNames
<1>. HIDE DEF headers
<1>7. \A name \in Built!Spellings : headers[name] = given[name]
  <2>. HIDE DEF given
  <2>1. QED
    BY <1>2, <1>5, <1>6
<1>8. built[c] \in Built!Headers
  BY <1>1, BuiltFacts
<1>9. \A name \in Built!Spellings :
        Built!Spread(built[c], headers)[name] = Built!Spread(built[c], given)[name]
  <2>. HIDE DEF given
  <2>1. QED
    BY <1>5, <1>6, <1>7, <1>8, SameSpread
<1>10. sent' \in Seq(Sends) /\ AllSentRight'
  BY <1>1, <1>2, <1>3, <1>4, <1>5, <1>9, SendIsRight
<1>11. BuiltTypes' /\ HeadersKept' /\ ClientsBuilt'
  BY <1>1, <1>10 DEF BuiltInv, BuiltTypes, HeadersKept, ClientsBuilt, Built!Normalized
<1>12. QED
  BY <1>10, <1>11 DEF BuiltInv

\* A resend has the headers the request had, and its trace.
LEMMA ResendBuilt == ASSUME BuiltInv, NEW i, Built!Resend(i) PROVE BuiltInv'
<1>. DEFINE s == sent[i]
            c == s.client
            headers == s.headers
            given == Given(s.verb, s.given)
<1>1. /\ Len(sent) < MaxRequests /\ i \in DOMAIN sent
      /\ Built!Send(c, s.verb, s.first, s.given, s.segments, headers)
      /\ UNCHANGED <<heap, config, clients, options, built, own, changes>>
  BY DEF Built!Resend
<1>2. s \in Sends
  BY <1>1, BuiltFacts
<1>3. /\ s.verb \in Verbs /\ s.first \in 1 .. MaxRequests /\ s.given \in Built!Headers
      /\ s.segments \in Nat /\ headers \in Built!Headers
  BY <1>2 DEF Sends
<1>4. /\ c \in DOMAIN clients
      /\ \A name \in Built!Spellings : headers[name] = Built!Spread(built[c], given)[name]
      /\ headers["x-request-id"] = IF "trace" \in clients[c].interceptors THEN s.first ELSE 0
      /\ headers["traceparent"] = IF "otel" \in clients[c].interceptors THEN s.first ELSE 0
  BY <1>1 DEF BuiltInv, AllSentRight, SentRight
<1>5. built[c] \in Built!Headers
  BY <1>4, BuiltFacts
<1>6. given \in Built!Headers
  BY <1>3, SerializedHeaders DEF Given
<1>7. \A name \in Built!Spellings :
        Built!Spread(built[c], headers)[name] = Built!Spread(built[c], given)[name]
  <2>. HIDE DEF given, headers, c
  <2>1. ASSUME NEW name \in Built!Spellings
        PROVE  Built!Spread(built[c], headers)[name] = Built!Spread(built[c], given)[name]
    <3>1. name \in Built!Names
      BY HeaderNames
    <3>2. /\ Built!Spread(built[c], headers)[name] = IF headers[name] # 0 THEN headers[name] ELSE built[c][name]
          /\ Built!Spread(built[c], given)[name] = IF given[name] # 0 THEN given[name] ELSE built[c][name]
      BY <1>3, <1>5, <1>6, <3>1, SpreadHeaders
    <3>3. QED
      BY <1>4, <3>2
  <2>2. QED
    BY <2>1
<1>8. sent' \in Seq(Sends) /\ AllSentRight'
  <2>. HIDE DEF headers, c, s
  <2>1. QED
    BY <1>1, <1>3, <1>4, <1>7, SendIsRight DEF given
<1>9. BuiltTypes' /\ HeadersKept' /\ ClientsBuilt'
  BY <1>1, <1>8 DEF BuiltInv, BuiltTypes, HeadersKept, ClientsBuilt, Built!Normalized
<1>10. QED
  BY <1>8, <1>9 DEF BuiltInv

LEMMA ChangeCounts == BuiltInv /\ Built!Change => changes' \in 0 .. MaxChanges
<1>1. MaxChanges \in Nat
  BY StandaloneAssumption
<1>2. QED
  BY <1>1 DEF Built!Change, BuiltInv, BuiltTypes

\* The builder's methods, build() and new options.
LEMMA WithHeaderBuilt ==
  ASSUME BuiltInv, NEW name \in {"X-Custom", "Content-Type"}, NEW value \in Nat,
         Built!WithHeader(name, value)
  PROVE  BuiltInv'
<1>. DEFINE before == Built!Normalized(config.headers)
            h == [before EXCEPT ![name] = value]
            ref == Len(heap) + 1
<1>1. /\ Built!Kept(h) /\ config' = [config EXCEPT !.headers = ref] /\ Built!Change
      /\ UNCHANGED <<clients, options, sent, built, own>>
  BY DEF Built!WithHeader, Built!NewRef
<1>2. config \in Built!Configs /\ config.headers \in 0 .. Len(heap) /\ Len(heap) \in Nat
  BY BuiltFacts DEF BuiltInv, BuiltTypes, HeadersKept, Built!Configs
<1>3. before \in Built!Headers /\ before["x-request-id"] = 0 /\ before["traceparent"] = 0
  BY <1>2, NormalizedHeaders
<1>4. ref \in Nat /\ ref = Len(heap) + 1
  BY <1>2
<1>5. name \in Built!Names /\ name # "x-request-id" /\ name # "traceparent"
  BY HeaderNames
<1>. HIDE DEF before, ref
<1>6. h \in Built!Headers /\ \A other \in Built!Names : other # name => h[other] = before[other]
  BY <1>3, <1>5, SetHeader
<1>. HIDE DEF h
<1>7. h["x-request-id"] = 0 /\ h["traceparent"] = 0
  BY <1>3, <1>5, <1>6, HeaderNames
<1>8. config' \in Built!Configs /\ config'.headers = ref
  BY <1>1, <1>2, <1>4 DEF Built!Configs
<1>9. HeadersKept' /\ ClientsBuilt' /\ options' \in 0 .. Len(heap')
  BY <1>1, <1>4, <1>6, <1>7, <1>8, HeapGrows
<1>10. AllSentRight'
  BY <1>1, SentStays
<1>11. heap' \in Seq(Built!Headers)
  BY <1>1, <1>6, KeptHeaders
<1>12. BuiltTypes'
  BY <1>1, <1>8, <1>9, <1>11, ChangeCounts DEF BuiltInv, BuiltTypes
<1>13. QED
  BY <1>9, <1>10, <1>12 DEF BuiltInv

LEMMA SingleHeader ==
  ASSUME NEW name \in Built!Spellings, NEW value \in Nat, NEW instance \in BOOLEAN
  PROVE  /\ Built!Single(name, value, instance) \in Built!Headers
         /\ \A other \in Built!Names : other \notin Built!Spellings =>
              Built!Single(name, value, instance)[other] = 0
<1>1. PICK listed \in Built!Spellings : Built!Single(name, value, instance) = [Built!Empty EXCEPT ![listed] = value]
  BY HeaderNames DEF Built!Single
<1>. DEFINE r == [Built!Empty EXCEPT ![listed] = value]
<1>2. /\ Built!Empty \in Built!Headers /\ listed \in Built!Names
      /\ \A other \in Built!Names : Built!Empty[other] = 0
  BY EmptyHeaders, HeaderNames
<1>3. /\ r \in Built!Headers
      /\ \A other \in Built!Names : other # listed => r[other] = Built!Empty[other]
  BY <1>2, SetHeader
<1>4. Built!Single(name, value, instance) = r
  BY <1>1
<1>. HIDE DEF r
<1>5. QED
  BY <1>2, <1>3, <1>4

LEMMA MakeOptionsBuilt ==
  ASSUME BuiltInv, NEW name \in Built!Spellings, NEW value \in Nat, NEW instance \in BOOLEAN,
         Built!MakeOptions(name, value, instance)
  PROVE  BuiltInv'
<1>. DEFINE h == Built!Single(name, value, instance)
<1>1. /\ own' = h /\ Built!Kept(h) /\ options' = Len(heap) + 1 /\ Built!Change
      /\ UNCHANGED <<config, clients, sent, built>>
  BY DEF Built!MakeOptions, Built!NewRef, Built!Kept
<1>3. h \in Built!Headers /\ \A other \in Built!Names : other \notin Built!Spellings => h[other] = 0
  BY SingleHeader
<1>. HIDE DEF h
<1>4. h["x-request-id"] = 0 /\ h["traceparent"] = 0
  BY <1>3, HeaderNames
<1>5. config'.headers = config.headers /\ \A other \in Built!Names : other # "X-API-Version" => h[other] = own'[other]
  BY <1>1
<1>6. HeadersKept' /\ ClientsBuilt' /\ options' \in 0 .. Len(heap')
  BY <1>1, <1>3, <1>4, <1>5, HeapGrows
<1>7. AllSentRight'
  BY <1>1, SentStays
<1>8. heap' \in Seq(Built!Headers)
  BY <1>1, <1>3, KeptHeaders
<1>9. BuiltTypes'
  BY <1>1, <1>3, <1>6, <1>8, ChangeCounts DEF BuiltInv, BuiltTypes
<1>10. QED
  BY <1>6, <1>7, <1>9 DEF BuiltInv

LEMMA ConfigBuilt ==
  ASSUME BuiltInv, config' \in Built!Configs, config'.headers = config.headers,
         UNCHANGED <<heap, clients, options, sent, built, own>>, changes' \in 0 .. MaxChanges
  PROVE  BuiltInv'
<1>1. AllSentRight'
  BY SentStays
<1>2. BuiltTypes' /\ HeadersKept' /\ ClientsBuilt'
  BY DEF BuiltInv, BuiltTypes, HeadersKept, ClientsBuilt, Built!Normalized
<1>3. QED
  BY <1>1, <1>2 DEF BuiltInv

LEMMA BuildBuilt == ASSUME BuiltInv, Built!Build PROVE BuiltInv'
<1>. DEFINE n == Len(clients)
            base == Built!Normalized(config.headers)
<1>1. /\ n < MaxClients /\ clients' = Append(clients, config) /\ built' = Append(built, base)
      /\ UNCHANGED <<heap, config, options, sent, own, changes>>
  BY DEF Built!Build
<1>2. /\ config \in Built!Configs /\ config.headers \in 0 .. Len(heap)
      /\ n \in Nat /\ DOMAIN clients = 1 .. n /\ MaxClients \in Nat
      /\ clients \in Seq(Built!Configs) /\ built \in Seq(Built!Headers) /\ Len(built) = n
      /\ DOMAIN built = 1 .. n
  BY BuiltFacts DEF BuiltInv, BuiltTypes, HeadersKept, ClientsBuilt, Built!Configs
<1>3. base \in Built!Headers
  BY <1>2, NormalizedHeaders
<1>4. /\ clients' \in Seq(Built!Configs) /\ Len(clients') = n + 1 /\ DOMAIN clients' = 1 .. n + 1
      /\ clients'[n + 1] = config /\ \A c \in 1 .. n : clients'[c] = clients[c]
  BY <1>1, <1>2, AppendElements
<1>5. /\ built' \in Seq(Built!Headers) /\ Len(built') = n + 1
      /\ built'[n + 1] = base /\ \A c \in 1 .. n : built'[c] = built[c]
  <2>. HIDE DEF n, base
  <2>1. /\ built' \in Seq(Built!Headers) /\ Len(built') = Len(built) + 1
        /\ built'[Len(built) + 1] = base /\ \A c \in 1 .. Len(built) : built'[c] = built[c]
    BY <1>1, <1>2, <1>3, AppendElements
  <2>2. QED
    BY <1>2, <2>1
<1>. HIDE DEF n
<1>6. \A c \in 1 .. n + 1 : c \in 1 .. n \/ c = n + 1
  BY <1>2
<1>7. \A c \in 1 .. n : c \in 1 .. n + 1
  BY <1>2
<1>8. HeadersKept'
  <2>1. \A c \in DOMAIN clients' : clients'[c].headers <= Len(heap)
    BY <1>2, <1>4, <1>6 DEF BuiltInv, HeadersKept
  <2>2. QED
    BY <1>1, <2>1 DEF BuiltInv, HeadersKept, Built!Normalized
<1>9. ClientsBuilt'
  <2>1. \A c \in DOMAIN clients' : built'[c] = Built!Normalized(clients'[c].headers)
    <3>. HIDE DEF base
    <3>1. \A c \in 1 .. n : built[c] = Built!Normalized(clients[c].headers)
      BY <1>2 DEF BuiltInv, ClientsBuilt
    <3>2. QED
      BY <1>4, <1>5, <1>6, <3>1 DEF base
  <2>2. Len(clients') <= MaxClients
    BY <1>1, <1>2, <1>4
  <2>3. QED
    BY <1>1, <1>4, <1>5, <2>1, <2>2 DEF ClientsBuilt, Built!Normalized
<1>10. AllSentRight'
  <2>. HIDE DEF base
  <2>1. ASSUME NEW i \in DOMAIN sent
        PROVE  /\ sent[i].client \in DOMAIN clients'
               /\ \A name \in Built!Spellings :
                    sent[i].headers[name] =
                      Built!Spread(built'[sent[i].client], Given(sent[i].verb, sent[i].given))[name]
               /\ (IF clients'[sent[i].client].style = "header" THEN clients'[sent[i].client].version ELSE 0) # 0 =>
                    sent[i].headers["X-API-Version"] =
                      IF clients'[sent[i].client].style = "header" THEN clients'[sent[i].client].version ELSE 0
               /\ sent[i].headers["x-request-id"] =
                    IF "trace" \in clients'[sent[i].client].interceptors THEN sent[i].first ELSE 0
               /\ sent[i].headers["traceparent"] =
                    IF "otel" \in clients'[sent[i].client].interceptors THEN sent[i].first ELSE 0
    <3>1. SentRight(sent[i])
      BY DEF BuiltInv, AllSentRight
    <3>2. sent[i].client \in 1 .. n
      BY <1>2, <3>1 DEF SentRight
    <3>3. /\ sent[i].client \in DOMAIN clients'
          /\ clients'[sent[i].client] = clients[sent[i].client]
          /\ built'[sent[i].client] = built[sent[i].client]
      BY <1>4, <1>5, <1>7, <3>2
    <3>4. QED
      BY <3>1, <3>3 DEF SentRight, Built!Version, Built!None
  <2>2. sent' = sent
    BY <1>1
  <2>3. QED
    BY <2>1, <2>2 DEF AllSentRight, SentRight, Built!Version, Built!None, Given, Built!Spread, Built!Serialized
<1>11. BuiltTypes'
  BY <1>1, <1>4, <1>5 DEF BuiltInv, BuiltTypes
<1>12. QED
  BY <1>8, <1>9, <1>10, <1>11 DEF BuiltInv

LEMMA NextBuilt == BuiltInv /\ [Built!Next]_Built!vars => BuiltInv'
<1>. SUFFICES ASSUME BuiltInv, [Built!Next]_Built!vars PROVE BuiltInv'
  OBVIOUS
<1>1. config \in Built!Configs /\ Len(clients) \in Nat
  BY BuiltFacts DEF BuiltInv, BuiltTypes
<1>2. ASSUME NEW name \in {"X-Custom", "Content-Type"}, Built!WithHeader(name, changes + 1)
      PROVE  BuiltInv'
  <2>1. changes + 1 \in Nat
    BY DEF BuiltInv, BuiltTypes
  <2>2. QED
    BY <1>2, <2>1, WithHeaderBuilt
<1>3. ASSUME NEW style \in {"header", "url"}, Built!WithVersioning(Len(clients) + 1, style)
      PROVE  BuiltInv'
  <2>. DEFINE version == Len(clients) + 1
  <2>1. /\ config' = [config EXCEPT !.version = version, !.style = style]
        /\ UNCHANGED <<heap, clients, options, sent, built, own>> /\ Built!Change
    BY <1>3 DEF Built!WithVersioning
  <2>2. version \in Nat
    BY <1>1
  <2>. HIDE DEF version
  <2>3. config' \in Built!Configs /\ config'.headers = config.headers
    BY <1>1, <1>3, <2>1, <2>2 DEF Built!Configs
  <2>4. QED
    BY <2>1, <2>3, ChangeCounts, ConfigBuilt
<1>4. ASSUME NEW kinds \in {{"otel"}, {"ssr", "trace"}}, Built!AddRequestInterceptors(kinds)
      PROVE  BuiltInv'
  <2>1. /\ config' = [config EXCEPT !.interceptors = config.interceptors \cup kinds]
        /\ UNCHANGED <<heap, clients, options, sent, built, own>> /\ Built!Change
    BY <1>1, <1>4 DEF Built!AddRequestInterceptors, Built!Configs
  <2>2. config.interceptors \cup kinds \in SUBSET Built!Kinds
    BY <1>1 DEF Built!Configs, Built!Kinds
  <2>3. config' \in Built!Configs /\ config'.headers = config.headers
    BY <1>1, <2>1, <2>2 DEF Built!Configs
  <2>4. QED
    BY <2>1, <2>3, ChangeCounts, ConfigBuilt
<1>5. ASSUME NEW name \in Built!Spellings, NEW instance \in BOOLEAN,
             Built!MakeOptions(name, 5, instance)
      PROVE  BuiltInv'
  BY <1>5, MakeOptionsBuilt
<1>6. CASE UNCHANGED Built!vars
  <2>1. UNCHANGED <<heap, config, clients, options, sent, built, own>> /\ changes' \in 0 .. MaxChanges
    BY <1>6 DEF Built!vars, BuiltInv, BuiltTypes
  <2>2. QED
    BY <1>1, <2>1, ConfigBuilt
<1>7. ASSUME NEW c, NEW form \in BOOLEAN,
             Built!Request(c) \/ Built!Get(c) \/ Built!TryGet(c) \/ Built!Post(c, form) \/ Built!TryPost(c, form)
      PROVE  BuiltInv'
  BY <1>7, RequestBuilt, GetBuilt, PostBuilt DEF Built!TryGet, Built!TryPost
<1>8. QED
  BY <1>2, <1>3, <1>4, <1>5, <1>6, <1>7, BuildBuilt, ResendBuilt DEF Built!Next

\* Spelling by spelling, a client sends the caller's headers over its own as it was built,
\* with its version, whatever is built, sent and resent meanwhile, for any number of clients
\* and requests.
THEOREM RequestsKeepHeaders == Built!Spec => []SentAsConfigured
<1>1. BuiltInv => SentAsConfigured
  BY DEF BuiltInv, AllSentRight, SentRight, Given, SentAsConfigured, Built!SentAsConfigured
<1>2. QED
  BY <1>1, InitBuilt, NextBuilt, PTL DEF Built!Spec

\* The tracing interceptors give a request and its resends one trace, and different
\* requests different traces, for any interceptors of any clients.
THEOREM RequestsKeepTraces == Built!Spec => []OneTracePerRequest
<1>1. ASSUME BuiltInv PROVE OneTracePerRequest
  <2>1. ASSUME NEW i \in DOMAIN sent, NEW name \in {"x-request-id", "traceparent"}, sent[i].headers[name] # 0
        PROVE  sent[i].headers[name] = sent[i].first
    BY <1>1, <2>1 DEF BuiltInv, AllSentRight, SentRight
  <2>2. QED
    BY <2>1 DEF OneTracePerRequest, Built!OneTracePerRequest, Built!None
<1>2. QED
  BY <1>1, InitBuilt, NextBuilt, PTL DEF Built!Spec

-----------------------------------------------------------------------------
(***************************************************************************)
(* CacheManager.  Between two calls the Map is in the order of last use,   *)
(* and an invalidation that gets every entry turns that order once round:  *)
(* after n of its gets the keys that are left are in the order of the Map  *)
(* from position n + 1 on, and then from the first to the n-th.            *)
(***************************************************************************)
\* The least number principle, which stands for induction over the loops of the code.
LEMMA LeastNumber ==
  ASSUME NEW T \in SUBSET Nat, T # {}
  PROVE  \E n \in T : \A m \in T : n <= m
<1>1. PICK n \in T : \A m \in T : ~(<<m, n>> \in OpToRel(<, Nat))
  BY WFMin, NatLessThanWellFounded
<1>2. \A m \in T : ~(m < n)
  BY <1>1 DEF OpToRel
<1>3. \A m \in T : n <= m
  BY <1>2
<1>4. QED
  BY <1>3

\* The keys of s come in an order that r gives.
InOrder(s, r) == \A i, j \in DOMAIN s : i < j => <<s[i].key, s[j].key>> \in r
Irreflexive(r) == \A k : <<k, k>> \notin r

LEMMA CachedIsKey == \A s : Cache!Cached(s) = {s[i].key : i \in DOMAIN s}
BY DEF Cache!Cached

\* Map.delete() takes one entry out and keeps the order of the others.
LEMMA WithoutOne ==
  ASSUME NEW s \in Seq(Cache!Entries), NEW k
  PROVE  LET w == Cache!Without(s, k)
         IN  /\ w \in Seq(Cache!Entries)
             /\ Cache!Cached(w) \subseteq Cache!Cached(s)
             /\ Len(w) = IF k \in Cache!Cached(s) THEN Len(s) - 1 ELSE Len(s)
             /\ \A r : InOrder(s, r) => InOrder(w, r)
             /\ \A r : InOrder(s, r) /\ Irreflexive(r) => k \notin Cache!Cached(w)
<1>. DEFINE w == Cache!Without(s, k)
            n == Len(s)
<1>1. CASE k \notin Cache!Cached(s)
  BY <1>1 DEF Cache!Without
<1>2. CASE k \in Cache!Cached(s)
  <2>. DEFINE i == Cache!IndexOf(s, k)
  <2>1. i \in DOMAIN s /\ s[i].key = k
    BY <1>2 DEF Cache!IndexOf, Cache!Cached
  <2>2. w = RemoveAt(s, i)
    BY <1>2 DEF Cache!Without, Cache!RemoveAt, RemoveAt
  <2>3. n \in Nat /\ DOMAIN s = 1 .. n /\ i \in 1 .. n
    BY <2>1, LenProperties
  <2>. HIDE DEF i, w
  <2>4. /\ w \in Seq(Cache!Entries) /\ Len(w) = n - 1
        /\ \A j \in 1 .. n - 1 : Position(j, i) \in DOMAIN s \ {i} /\ w[j] = s[Position(j, i)]
    <3>. HIDE DEF n
    <3>1. /\ RemoveAt(s, i) \in Seq(Cache!Entries) /\ Len(RemoveAt(s, i)) = Len(s) - 1
          /\ \A j \in 1 .. Len(s) - 1 : /\ Position(j, i) \in DOMAIN s \ {i}
                                         /\ RemoveAt(s, i)[j] = s[Position(j, i)]
      BY <2>1, RemoveAtElements
    <3>2. QED
      BY <2>2, <3>1 DEF n
  <2>5. DOMAIN w = 1 .. n - 1
    BY <2>3, <2>4, LenProperties
  <2>. HIDE DEF n
  <2>6. Cache!Cached(w) \subseteq Cache!Cached(s)
    BY <2>4, <2>5 DEF Cache!Cached
  <2>7. ASSUME NEW r, InOrder(s, r) PROVE InOrder(w, r)
    <3>. SUFFICES ASSUME NEW a \in DOMAIN w, NEW b \in DOMAIN w, a < b
                  PROVE  <<w[a].key, w[b].key>> \in r
      BY DEF InOrder
    <3>1. Position(a, i) < Position(b, i)
      BY <2>3, <2>5 DEF Position
    <3>2. Position(a, i) \in DOMAIN s /\ Position(b, i) \in DOMAIN s
      BY <2>4, <2>5
    <3>3. w[a] = s[Position(a, i)] /\ w[b] = s[Position(b, i)]
      BY <2>4, <2>5
    <3>4. QED
      BY <2>7, <3>1, <3>2, <3>3 DEF InOrder
  <2>8. ASSUME NEW r, InOrder(s, r), Irreflexive(r) PROVE k \notin Cache!Cached(w)
    <3>. SUFFICES ASSUME NEW a \in DOMAIN w, w[a].key = k PROVE FALSE
      BY DEF Cache!Cached
    <3>1. Position(a, i) \in DOMAIN s /\ Position(a, i) # i /\ w[a] = s[Position(a, i)]
      BY <2>4, <2>5
    <3>2. Position(a, i) < i \/ i < Position(a, i)
      BY <2>3, <3>1
    <3>3. <<k, k>> \in r
      BY <2>1, <2>8, <3>1, <3>2 DEF InOrder
    <3>4. QED
      BY <2>8, <3>3 DEF Irreflexive
  <2>9. QED
    BY <1>2, <2>4, <2>6, <2>7, <2>8 DEF n, w
<1>3. QED
  BY <1>1, <1>2

\* Map.delete() and Map.set(): the order with the key of e moved to the end.
LEMMA InsertOne ==
  ASSUME NEW s \in Seq(Cache!Entries), NEW e \in Cache!Entries
  PROVE  LET w == Cache!Insert(s, e)
         IN  /\ w \in Seq(Cache!Entries)
             /\ Cache!Cached(w) \subseteq Cache!Cached(s) \cup {e.key}
             /\ Len(w) = IF e.key \in Cache!Cached(s) THEN Len(s) ELSE Len(s) + 1
             /\ \A r, q :
                  /\ InOrder(s, r) /\ Irreflexive(r)
                  /\ \A x, y \in Cache!Cached(s) \ {e.key} : <<x, y>> \in r => <<x, y>> \in q
                  /\ \A x \in Cache!Cached(s) \ {e.key} : <<x, e.key>> \in q
                  => InOrder(w, q)
<1>. DEFINE c == Cache!Without(s, e.key)
            w == Append(c, e)
            n == Len(c)
<1>1. /\ c \in Seq(Cache!Entries) /\ Cache!Cached(c) \subseteq Cache!Cached(s)
      /\ Len(c) = IF e.key \in Cache!Cached(s) THEN Len(s) - 1 ELSE Len(s)
      /\ \A r : InOrder(s, r) => InOrder(c, r)
      /\ \A r : InOrder(s, r) /\ Irreflexive(r) => e.key \notin Cache!Cached(c)
  BY WithoutOne
<1>2. Cache!Insert(s, e) = w
  BY DEF Cache!Insert
<1>. HIDE DEF c
<1>3. n \in Nat /\ DOMAIN c = 1 .. n /\ Len(s) \in Nat
  BY <1>1, LenProperties
<1>4. /\ w \in Seq(Cache!Entries) /\ Len(w) = n + 1 /\ DOMAIN w = 1 .. n + 1
      /\ w[n + 1] = e /\ \A k \in 1 .. n : w[k] = c[k]
  BY <1>1, AppendElements
<1>5. Len(w) = IF e.key \in Cache!Cached(s) THEN Len(s) ELSE Len(s) + 1
  <2>. HIDE DEF w
  <2>1. QED
    BY <1>1, <1>3, <1>4
<1>. HIDE DEF n, w
<1>6. \A j \in 1 .. n + 1 : j \in 1 .. n \/ j = n + 1
  BY <1>3
<1>7. Cache!Cached(w) \subseteq Cache!Cached(s) \cup {e.key}
  BY <1>1, <1>3, <1>4, <1>6 DEF Cache!Cached
<1>8. ASSUME NEW r, NEW q, InOrder(s, r), Irreflexive(r),
             \A x, y \in Cache!Cached(s) \ {e.key} : <<x, y>> \in r => <<x, y>> \in q,
             \A x \in Cache!Cached(s) \ {e.key} : <<x, e.key>> \in q
      PROVE  InOrder(w, q)
  <2>. SUFFICES ASSUME NEW a \in 1 .. n + 1, NEW b \in 1 .. n + 1, a < b
                PROVE  <<w[a].key, w[b].key>> \in q
    BY <1>4 DEF InOrder
  <2>1. a \in 1 .. n
    BY <1>3
  <2>2. w[a] = c[a] /\ c[a].key \in Cache!Cached(c)
    BY <1>3, <1>4, <2>1 DEF Cache!Cached
  <2>3. InOrder(c, r) /\ e.key \notin Cache!Cached(c)
    BY <1>1, <1>8
  <2>4. CASE b \in 1 .. n
    <3>1. w[b] = c[b] /\ c[b].key \in Cache!Cached(c)
      BY <1>3, <1>4, <2>4 DEF Cache!Cached
    <3>2. <<c[a].key, c[b].key>> \in r
      BY <1>3, <2>1, <2>3, <2>4 DEF InOrder
    <3>3. QED
      BY <1>1, <1>8, <2>2, <2>3, <3>1, <3>2
  <2>5. CASE b = n + 1
    BY <1>1, <1>4, <1>8, <2>2, <2>3, <2>5
  <2>6. QED
    BY <1>6, <2>4, <2>5
<1>9. QED
  BY <1>2, <1>4, <1>5, <1>7, <1>8

\* get() of a key, or not.
Look(gets, c, k) == IF gets THEN Cache!Touched(c, k) ELSE c

\* One iteration of the loop of an invalidation.
Visit(K, gets, c, k) == IF k \in K THEN Cache!Without(Look(gets, c, k), k) ELSE Look(gets, c, k)

\* What one get() does to the cache: no other key is moved, and none is lost or added.
LEMMA LookKeeps ==
  ASSUME NEW c \in Seq(Cache!Entries), NEW k, NEW gets \in BOOLEAN
  PROVE  LET t == Look(gets, c, k)
         IN  /\ t \in Seq(Cache!Entries)
             /\ Cache!Cached(t) \subseteq Cache!Cached(c)
             /\ Len(t) = Len(c)
             /\ ~gets => t = c
             /\ memory /\ gets => \A r, q :
                  /\ InOrder(c, r) /\ Irreflexive(r)
                  /\ \A x, y \in Cache!Cached(c) \ {k} : <<x, y>> \in r => <<x, y>> \in q
                  /\ \A x \in Cache!Cached(c) \ {k} : <<x, k>> \in q
                  => InOrder(t, q)
<1>1. CASE gets /\ memory /\ k \in Cache!Cached(c)
  <2>. DEFINE e == Cache!Entry(c, k)
  <2>1. e \in Cache!Entries /\ e.key = k
    <3>1. Cache!IndexOf(c, k) \in DOMAIN c /\ c[Cache!IndexOf(c, k)].key = k
      BY <1>1 DEF Cache!IndexOf, Cache!Cached
    <3>2. QED
      BY <3>1, ElementOfSeq DEF Cache!Entry
  <2>2. Look(gets, c, k) = Cache!Insert(c, e)
    BY <1>1 DEF Look, Cache!Touched
  <2>. HIDE DEF e
  <2>. DEFINE w == Cache!Insert(c, e)
  <2>3. /\ w \in Seq(Cache!Entries)
        /\ Cache!Cached(w) \subseteq Cache!Cached(c) \cup {k}
        /\ Len(w) = Len(c)
        /\ \A r, q :
             /\ InOrder(c, r) /\ Irreflexive(r)
             /\ \A x, y \in Cache!Cached(c) \ {k} : <<x, y>> \in r => <<x, y>> \in q
             /\ \A x \in Cache!Cached(c) \ {k} : <<x, k>> \in q
             => InOrder(w, q)
    BY <1>1, <2>1, InsertOne
  <2>. HIDE DEF w
  <2>4. QED
    BY <1>1, <2>2, <2>3 DEF w
<1>2. CASE ~gets \/ ~memory \/ k \notin Cache!Cached(c)
  <2>1. Look(gets, c, k) = c
    BY <1>2 DEF Look, Cache!Touched
  <2>2. ASSUME NEW r, NEW q, gets, memory, InOrder(c, r),
               \A x, y \in Cache!Cached(c) \ {k} : <<x, y>> \in r => <<x, y>> \in q
        PROVE  InOrder(c, q)
    <3>. SUFFICES ASSUME NEW a \in DOMAIN c, NEW b \in DOMAIN c, a < b
                  PROVE  <<c[a].key, c[b].key>> \in q
      BY DEF InOrder
    <3>1. c[a].key \in Cache!Cached(c) \ {k} /\ c[b].key \in Cache!Cached(c) \ {k}
      BY <1>2, <2>2 DEF Cache!Cached
    <3>2. <<c[a].key, c[b].key>> \in r
      BY <2>2 DEF InOrder
    <3>3. QED
      BY <2>2, <3>1, <3>2
  <2>3. QED
    BY <2>1, <2>2
<1>3. QED
  BY <1>1, <1>2

LEMMA VisitKeeps ==
  ASSUME NEW c \in Seq(Cache!Entries), NEW k, NEW K, NEW gets \in BOOLEAN
  PROVE  LET v == Visit(K, gets, c, k)
         IN  /\ v \in Seq(Cache!Entries)
             /\ Cache!Cached(v) \subseteq Cache!Cached(c)
             /\ Len(v) <= Len(c)
             /\ ~gets => \A r : InOrder(c, r) => InOrder(v, r)
             /\ memory /\ gets => \A r, q :
                  /\ InOrder(c, r) /\ Irreflexive(r)
                  /\ \A x, y \in Cache!Cached(c) \ {k} : <<x, y>> \in r => <<x, y>> \in q
                  /\ \A x \in Cache!Cached(c) \ {k} : <<x, k>> \in q
                  => InOrder(v, q)
<1>. DEFINE t == Look(gets, c, k)
            v == Visit(K, gets, c, k)
            w == Cache!Without(t, k)
<1>1. /\ t \in Seq(Cache!Entries)
      /\ Cache!Cached(t) \subseteq Cache!Cached(c)
      /\ Len(t) = Len(c)
      /\ ~gets => t = c
      /\ memory /\ gets => \A r, q :
           /\ InOrder(c, r) /\ Irreflexive(r)
           /\ \A x, y \in Cache!Cached(c) \ {k} : <<x, y>> \in r => <<x, y>> \in q
           /\ \A x \in Cache!Cached(c) \ {k} : <<x, k>> \in q
           => InOrder(t, q)
  BY LookKeeps
<1>2. v = IF k \in K THEN w ELSE t
  BY DEF Visit
<1>. HIDE DEF t, v
<1>3. /\ w \in Seq(Cache!Entries)
      /\ Cache!Cached(w) \subseteq Cache!Cached(t)
      /\ Len(w) = IF k \in Cache!Cached(t) THEN Len(t) - 1 ELSE Len(t)
      /\ \A r : InOrder(t, r) => InOrder(w, r)
  BY <1>1, WithoutOne
<1>. HIDE DEF w
<1>4. Len(t) \in Nat
  BY <1>1, LenProperties
<1>5. v \in {w, t}
  BY <1>2
<1>6. Len(v) <= Len(c)
  BY <1>1, <1>3, <1>4, <1>5
<1>7. v \in Seq(Cache!Entries) /\ Cache!Cached(v) \subseteq Cache!Cached(c)
  BY <1>1, <1>3, <1>5
<1>8. \A r : InOrder(t, r) => InOrder(v, r)
  BY <1>3, <1>5
<1>9. QED
  BY <1>1, <1>6, <1>7, <1>8 DEF v

\* The function that Pruned defines by recursion.
IsScan(K, gets, s) ==
  s = [n \in 0 .. Len(cache) |->
         IF n = 0 THEN cache ELSE Visit(K, gets, s[n - 1], cache[n].key)]

LEMMA PrunedIsScan ==
  ASSUME NEW K, NEW gets, NEW s, IsScan(K, gets, s)
  PROVE  \E t : IsScan(K, gets, t) /\ Cache!Pruned(K, gets) = t[Len(cache)]
<1>. DEFINE F(t) == [n \in 0 .. Len(cache) |->
                       IF n = 0 THEN cache
                       ELSE LET k == cache[n].key
                                c == IF gets THEN Cache!Touched(t[n - 1], k) ELSE t[n - 1]
                            IN  IF k \in K THEN Cache!Without(c, k) ELSE c]
            t == CHOOSE u : u = F(u)
<1>1. \A u : (u = F(u)) = IsScan(K, gets, u)
  BY DEF IsScan, Visit, Look
<1>2. Cache!Pruned(K, gets) = t[Len(cache)]
  BY DEF Cache!Pruned
<1>. HIDE DEF F
<1>3. t = F(t)
  BY <1>1
<1>4. QED
  BY <1>1, <1>2, <1>3

\* The loop has an outcome for every number of iterations.
LEMMA ScanExists ==
  ASSUME NEW K, NEW gets, Len(cache) \in Nat
  PROVE  \E s : IsScan(K, gets, s)
<1>. DEFINE N == Len(cache)
            G(s, m) == [n \in 0 .. m |->
                          IF n = 0 THEN cache ELSE Visit(K, gets, s[n - 1], cache[n].key)]
            T == {m \in Nat : \A s : s # G(s, m)}
<1>1. T = {}
  <2>. SUFFICES ASSUME T # {} PROVE FALSE
    OBVIOUS
  <2>1. PICK m \in T : \A l \in T : m <= l
    BY LeastNumber
  <2>2. m # 0
    <3>. DEFINE s == [n \in 0 .. 0 |-> cache]
    <3>1. s = G(s, 0)
      OBVIOUS
    <3>2. QED
      BY <2>1, <3>1
  <2>3. PICK s : s = G(s, m - 1)
    <3>1. m - 1 \in Nat /\ ~(m <= m - 1)
      BY <2>1, <2>2
    <3>2. m - 1 \notin T
      BY <2>1, <3>1
    <3>3. QED
      BY <3>1, <3>2
  <2>. DEFINE u == [n \in 0 .. m |-> IF n = m THEN Visit(K, gets, s[m - 1], cache[m].key) ELSE s[n]]
  <2>4. \A n \in 0 .. m : n # 0 => n - 1 \in 0 .. m - 1 /\ n - 1 \in 0 .. m /\ n - 1 # m
    BY <2>1
  <2>5. \A n \in 0 .. m : n # m => n \in 0 .. m - 1
    BY <2>1
  <2>6. \A n \in 0 .. m - 1 :
          s[n] = IF n = 0 THEN cache ELSE Visit(K, gets, s[n - 1], cache[n].key)
    BY <2>3
  <2>7. \A n \in 0 .. m :
          u[n] = IF n = 0 THEN cache ELSE Visit(K, gets, u[n - 1], cache[n].key)
    BY <2>2, <2>4, <2>5, <2>6
  <2>8. u = G(u, m)
    BY <2>7
  <2>9. QED
    BY <2>1, <2>8
<1>2. N \notin T
  BY <1>1
<1>3. QED
  BY <1>2 DEF IsScan

\* Whether the key at position p of the Map comes before that at q after n gets.
Before(p, q, n) == p # q /\ IF p > n THEN q <= n \/ p < q ELSE q <= n /\ p < q

Turned(n) == {z \in CacheKeys \X CacheKeys : \E p, q \in DOMAIN cache :
                z = <<cache[p].key, cache[q].key>> /\ Before(p, q, n)}

LEMMA TurnedOrder ==
  ASSUME NEW r, cache \in Seq(Cache!Entries), InOrder(cache, r), Irreflexive(r)
  PROVE  /\ InOrder(cache, Turned(0)) /\ \A n \in Nat : Irreflexive(Turned(n))
         /\ Turned(Len(cache)) \subseteq r
         /\ \A n \in DOMAIN cache :
              LET k == cache[n].key
              IN  /\ \A x, y \in Cache!Cached(cache) \ {k} :
                       <<x, y>> \in Turned(n - 1) => <<x, y>> \in Turned(n)
                  /\ \A x \in Cache!Cached(cache) \ {k} : <<x, k>> \in Turned(n)
<1>1. /\ Len(cache) \in Nat /\ DOMAIN cache = 1 .. Len(cache)
      /\ \A p \in DOMAIN cache : cache[p].key \in CacheKeys
  <2>1. \A e \in Cache!Entries : e.key \in CacheKeys
    BY DEF Cache!Entries
  <2>2. \A p \in DOMAIN cache : cache[p] \in Cache!Entries
    BY LenProperties, ElementOfSeq
  <2>3. QED
    BY <2>1, <2>2, LenProperties
<1>2. \A p, q \in DOMAIN cache : cache[p].key = cache[q].key => p = q
  <2>. SUFFICES ASSUME NEW p \in DOMAIN cache, NEW q \in DOMAIN cache,
                       cache[p].key = cache[q].key, p # q
                PROVE  FALSE
    OBVIOUS
  <2>1. p < q \/ q < p
    BY <1>1
  <2>2. QED
    BY <2>1 DEF InOrder, Irreflexive
<1>3. InOrder(cache, Turned(0))
  <2>. SUFFICES ASSUME NEW p \in DOMAIN cache, NEW q \in DOMAIN cache, p < q
                PROVE  <<cache[p].key, cache[q].key>> \in Turned(0)
    BY DEF InOrder
  <2>1. Before(p, q, 0)
    BY <1>1 DEF Before
  <2>2. QED
    BY <1>1, <2>1 DEF Turned
<1>4. ASSUME NEW n \in Nat PROVE Irreflexive(Turned(n))
  <2>. SUFFICES ASSUME NEW k, <<k, k>> \in Turned(n) PROVE FALSE
    BY DEF Irreflexive
  <2>1. PICK p, q \in DOMAIN cache : k = cache[p].key /\ k = cache[q].key /\ p # q
    BY DEF Turned, Before
  <2>2. QED
    BY <1>2, <2>1
<1>5. Turned(Len(cache)) \subseteq r
  <2>. SUFFICES ASSUME NEW p \in DOMAIN cache, NEW q \in DOMAIN cache, Before(p, q, Len(cache))
                PROVE  <<cache[p].key, cache[q].key>> \in r
    BY DEF Turned
  <2>1. p < q
    BY <1>1 DEF Before
  <2>2. QED
    BY <2>1 DEF InOrder
<1>6. ASSUME NEW n \in DOMAIN cache,
             NEW x \in Cache!Cached(cache) \ {cache[n].key},
             NEW y \in Cache!Cached(cache) \ {cache[n].key}, <<x, y>> \in Turned(n - 1)
      PROVE  <<x, y>> \in Turned(n)
  <2>1. PICK p, q \in DOMAIN cache :
          x = cache[p].key /\ y = cache[q].key /\ Before(p, q, n - 1)
    BY <1>6 DEF Turned
  <2>2. p # n /\ q # n
    BY <2>1
  <2>3. Before(p, q, n)
    BY <1>1, <2>1, <2>2 DEF Before
  <2>4. QED
    BY <1>1, <2>1, <2>3 DEF Turned
<1>7. ASSUME NEW n \in DOMAIN cache, NEW x \in Cache!Cached(cache) \ {cache[n].key}
      PROVE  <<x, cache[n].key>> \in Turned(n)
  <2>1. PICK p \in DOMAIN cache : x = cache[p].key
    BY DEF Cache!Cached
  <2>2. Before(p, n, n)
    BY <1>1, <2>1 DEF Before
  <2>3. QED
    BY <1>1, <2>1, <2>2 DEF Turned
<1>8. QED
  BY <1>3, <1>4, <1>5, <1>6, <1>7

\* What an invalidation leaves is in the order it was in, for any order that does not
\* repeat a key.
LEMMA PrunedKeepsOrder ==
  ASSUME cache \in Seq(Cache!Entries), NEW K, NEW gets \in BOOLEAN
  PROVE  LET c == Cache!Pruned(K, gets)
         IN  /\ c \in Seq(Cache!Entries) /\ Len(c) <= Len(cache)
             /\ memory => \A r : InOrder(cache, r) /\ Irreflexive(r) => InOrder(c, r)
<1>. DEFINE N == Len(cache)
<1>1. N \in Nat /\ DOMAIN cache = 1 .. N
  BY LenProperties
<1>2. PICK s : IsScan(K, gets, s) /\ Cache!Pruned(K, gets) = s[N]
  BY <1>1, ScanExists, PrunedIsScan
<1>3. s[0] = cache /\ \A n \in 1 .. N : s[n] = Visit(K, gets, s[n - 1], cache[n].key)
  BY <1>1, <1>2 DEF IsScan
<1>. DEFINE Order(r, n) == IF gets THEN Turned(n) ELSE r
            Good(n) == /\ s[n] \in Seq(Cache!Entries) /\ Len(s[n]) <= N
                       /\ Cache!Cached(s[n]) \subseteq Cache!Cached(cache)
                       /\ memory => \A r : InOrder(cache, r) /\ Irreflexive(r) =>
                                      InOrder(s[n], Order(r, n))
            T == {n \in 0 .. N : ~Good(n)}
<1>4. Good(0)
  BY <1>1, <1>3, TurnedOrder
<1>5. ASSUME NEW n \in 1 .. N, Good(n - 1) PROVE Good(n)
  <2>. DEFINE k == cache[n].key
              c == s[n - 1]
              v == Visit(K, gets, c, k)
  <2>1. s[n] = v
    BY <1>3
  <2>2. c \in Seq(Cache!Entries) /\ Cache!Cached(c) \subseteq Cache!Cached(cache) /\ Len(c) <= N
    BY <1>5
  <2>3. /\ v \in Seq(Cache!Entries) /\ Cache!Cached(v) \subseteq Cache!Cached(c)
        /\ Len(v) <= Len(c)
        /\ ~gets => \A r : InOrder(c, r) => InOrder(v, r)
        /\ memory /\ gets => \A r, q :
             /\ InOrder(c, r) /\ Irreflexive(r)
             /\ \A x, y \in Cache!Cached(c) \ {k} : <<x, y>> \in r => <<x, y>> \in q
             /\ \A x \in Cache!Cached(c) \ {k} : <<x, k>> \in q
             => InOrder(v, q)
    <3>. HIDE DEF k, c
    <3>1. QED
      BY <2>2, VisitKeeps
  <2>4. ASSUME NEW r, memory, InOrder(cache, r), Irreflexive(r)
        PROVE  InOrder(v, Order(r, n))
    <3>1. InOrder(c, Order(r, n - 1))
      BY <1>5, <2>4
    <3>2. CASE ~gets
      BY <2>3, <3>1, <3>2
    <3>3. CASE gets
      <4>1. /\ n \in DOMAIN cache /\ n - 1 \in Nat
            /\ \A x, y \in Cache!Cached(cache) \ {k} :
                 <<x, y>> \in Turned(n - 1) => <<x, y>> \in Turned(n)
            /\ \A x \in Cache!Cached(cache) \ {k} : <<x, k>> \in Turned(n)
            /\ Irreflexive(Turned(n - 1))
        BY <1>1, <2>4, TurnedOrder
      <4>2. InOrder(c, Turned(n - 1))
        BY <3>1, <3>3
      <4>. HIDE DEF v, c, k
      <4>3. InOrder(v, Turned(n))
        BY <2>2, <2>3, <2>4, <3>3, <4>1, <4>2
      <4>4. QED
        BY <3>3, <4>3
    <3>4. QED
      BY <3>2, <3>3
  <2>5. Len(v) \in Nat /\ Len(c) \in Nat
    BY <2>2, <2>3, LenProperties
  <2>. HIDE DEF v, c
  <2>6. Len(v) <= N
    BY <1>1, <2>2, <2>3, <2>5
  <2>7. Cache!Cached(v) \subseteq Cache!Cached(cache)
    BY <2>2, <2>3
  <2>8. QED
    BY <2>1, <2>3, <2>4, <2>6, <2>7
<1>. HIDE DEF Good
<1>6. T = {}
  <2>. SUFFICES ASSUME T # {} PROVE FALSE
    OBVIOUS
  <2>1. PICK n \in T : \A m \in T : n <= m
    <3>1. T \in SUBSET Nat
      BY <1>1
    <3>. HIDE DEF T
    <3>2. QED
      BY <3>1, LeastNumber
  <2>2. n \in 1 .. N
    BY <1>1, <1>4, <2>1
  <2>3. Good(n - 1)
    BY <1>1, <2>1, <2>2
  <2>4. QED
    BY <1>5, <2>1, <2>2, <2>3
<1>7. Good(N)
  BY <1>1, <1>6
<1>8. ASSUME NEW r, memory, InOrder(cache, r), Irreflexive(r) PROVE InOrder(s[N], r)
  <2>1. InOrder(s[N], Order(r, N))
    BY <1>7, <1>8 DEF Good
  <2>2. Order(r, N) \subseteq r
    BY <1>8, TurnedOrder
  <2>3. QED
    BY <2>1, <2>2 DEF InOrder
<1>9. QED
  BY <1>2, <1>7, <1>8 DEF Good

\* In a memory cache the order of the Map is that of last use, and it holds at most
\* MaxEntries unless it has kept the empty key.
Limited == Len(cache) <= MaxEntries \/ spared

CacheInv ==
  /\ Cache!TypeOK /\ Irreflexive(older)
  /\ memory => Limited /\ InOrder(cache, older)

LEMMA InitCache == Cache!Init => CacheInv
<1>. SUFFICES ASSUME Cache!Init PROVE CacheInv
  OBVIOUS
<1>1. <<>> \in Seq(Cache!Entries) /\ Len(<<>>) = 0 /\ DOMAIN <<>> = {}
  OBVIOUS
<1>2. Len(<<>>) <= MaxEntries
  BY <1>1, StandaloneAssumption
<1>3. QED
  BY <1>1, <1>2 DEF Cache!Init, CacheInv, Limited, Cache!TypeOK, Irreflexive, InOrder

\* Using a key puts it behind all others.
LEMMA UsedOrder ==
  ASSUME NEW k \in CacheKeys, Cache!Use(k), older \in SUBSET (CacheKeys \X CacheKeys),
         Irreflexive(older)
  PROVE  /\ older' \in SUBSET (CacheKeys \X CacheKeys) /\ Irreflexive(older')
         /\ \A x, y \in CacheKeys \ {k} : <<x, y>> \in older => <<x, y>> \in older'
         /\ \A x \in CacheKeys \ {k} : <<x, k>> \in older'
BY DEF Cache!Use, Irreflexive

\* Inserting the entry of the key that is used keeps the order.
LEMMA InsertUsed ==
  ASSUME NEW s \in Seq(Cache!Entries), NEW e \in Cache!Entries, Cache!Use(e.key),
         Cache!TypeOK, Irreflexive(older)
  PROVE  InOrder(s, older) => InOrder(Cache!Insert(s, e), older')
<1>. DEFINE k == e.key
            w == Cache!Insert(s, e)
<1>1. k \in CacheKeys
  BY DEF Cache!Entries
<1>2. /\ \A x, y \in CacheKeys \ {k} : <<x, y>> \in older => <<x, y>> \in older'
      /\ \A x \in CacheKeys \ {k} : <<x, k>> \in older'
  BY <1>1, UsedOrder DEF Cache!TypeOK
<1>3. Cache!Cached(s) \subseteq CacheKeys
  <2>1. \A d \in Cache!Entries : d.key \in CacheKeys
    BY DEF Cache!Entries
  <2>2. QED
    BY <2>1, ElementOfSeq DEF Cache!Cached
<1>4. \A r, q :
        /\ InOrder(s, r) /\ Irreflexive(r)
        /\ \A x, y \in Cache!Cached(s) \ {k} : <<x, y>> \in r => <<x, y>> \in q
        /\ \A x \in Cache!Cached(s) \ {k} : <<x, k>> \in q
        => InOrder(w, q)
  BY InsertOne
<1>. HIDE DEF w, k
<1>5. QED
  BY <1>2, <1>3, <1>4 DEF w

\* set() of a full memory cache evicts its first entry for a new key only, unless it has the
\* empty key.
LEMMA SetCache ==
  ASSUME CacheInv, NEW k \in CacheKeys, NEW tag \in BOOLEAN, Cache!Set(k, tag)
  PROVE  CacheInv'
<1>. DEFINE e == [key |-> k, fresh |-> TRUE, tagged |-> tag]
            full == Len(cache) >= MaxEntries /\ k \notin Cache!Cached(cache)
            keeps == cache[1].key = EmptyKey
            s == IF full /\ ~keeps THEN Tail(cache) ELSE cache
<1>1. e \in Cache!Entries /\ e.key = k
  BY DEF Cache!Entries
<1>2. cache \in Seq(Cache!Entries) /\ Len(cache) \in Nat /\ MaxEntries \in Nat \ {0}
  BY StandaloneAssumption, LenProperties DEF CacheInv, Cache!TypeOK
<1>3. Cache!Use(k) /\ UNCHANGED memory
  BY DEF Cache!Set
<1>. HIDE DEF e
<1>4. /\ older' \in SUBSET (CacheKeys \X CacheKeys) /\ Irreflexive(older')
      /\ memory' \in BOOLEAN
  BY <1>3, UsedOrder DEF CacheInv, Cache!TypeOK
<1>5. CASE ~memory
  <2>1. /\ cache' = Cache!Insert(cache, e) \/ cache' = cache
        /\ spared' = spared
    BY <1>5 DEF Cache!Set, Cache!SetInStorage, e
  <2>2. cache' \in Seq(Cache!Entries)
    BY <1>1, <1>2, <2>1, InsertOne
  <2>3. QED
    BY <1>3, <1>4, <1>5, <2>1, <2>2 DEF CacheInv, Cache!TypeOK
<1>6. CASE memory
  <2>1. cache' = Cache!Insert(s, e) /\ spared' = (spared \/ (full /\ keeps))
    BY <1>1, <1>6 DEF Cache!Set, Cache!SetInMemory, e
  <2>7. spared' \in BOOLEAN /\ (spared => spared') /\ (full /\ keeps => spared')
    BY <2>1, Zenon
  <2>2. /\ s \in Seq(Cache!Entries) /\ InOrder(s, older)
        /\ Len(s) = IF full /\ ~keeps THEN Len(cache) - 1 ELSE Len(cache)
    <3>1. CASE ~(full /\ ~keeps)
      BY <1>2, <1>6, <3>1 DEF CacheInv
    <3>2. CASE full /\ ~keeps
      <4>1. cache # <<>>
        BY <1>2, <3>2
      <4>2. /\ Tail(cache) \in Seq(Cache!Entries) /\ Len(Tail(cache)) = Len(cache) - 1
            /\ \A i \in 1 .. Len(Tail(cache)) : Tail(cache)[i] = cache[i + 1]
        BY <1>2, <4>1, HeadTailProperties
      <4>3. DOMAIN Tail(cache) = 1 .. Len(cache) - 1 /\ DOMAIN cache = 1 .. Len(cache)
        BY <1>2, <4>2, LenProperties
      <4>4. InOrder(Tail(cache), older)
        <5>. DEFINE t == Tail(cache)
        <5>. SUFFICES ASSUME NEW i \in DOMAIN t, NEW j \in DOMAIN t, i < j
                      PROVE  <<t[i].key, t[j].key>> \in older
          BY DEF InOrder
        <5>1. i + 1 \in DOMAIN cache /\ j + 1 \in DOMAIN cache /\ i + 1 < j + 1
          BY <1>2, <4>3
        <5>2. t[i] = cache[i + 1] /\ t[j] = cache[j + 1]
          BY <4>2, <4>3
        <5>. HIDE DEF t
        <5>3. QED
          BY <1>6, <5>1, <5>2 DEF CacheInv, InOrder
      <4>5. QED
        BY <3>2, <4>2, <4>4
    <3>3. QED
      BY <3>1, <3>2
  <2>. HIDE DEF s
  <2>3. InOrder(cache', older')
    BY <1>1, <1>3, <2>1, <2>2, InsertUsed DEF CacheInv
  <2>4. /\ cache' \in Seq(Cache!Entries)
        /\ Len(cache') = IF k \in Cache!Cached(s) THEN Len(s) ELSE Len(s) + 1
    BY <1>1, <2>1, <2>2, InsertOne
  <2>5. Limited'
    <3>1. CASE spared \/ (full /\ keeps)
      BY <2>7, <3>1, Zenon DEF Limited
    <3>2. CASE ~spared /\ ~(full /\ keeps)
      <4>1. Len(cache) <= MaxEntries
        BY <1>6, <3>2 DEF CacheInv, Limited
      <4>2. ~full /\ Len(cache) = MaxEntries => k \in Cache!Cached(s)
        BY <1>2 DEF s
      <4>3. Len(cache') <= MaxEntries
        BY <1>2, <2>2, <2>4, <3>2, <4>1, <4>2
      <4>4. QED
        BY <4>3 DEF Limited
    <3>3. QED
      BY <3>1, <3>2
  <2>6. QED
    BY <1>3, <1>4, <2>3, <2>4, <2>5, <2>7 DEF CacheInv, Cache!TypeOK
<1>7. QED
  BY <1>5, <1>6

\* A get() of what is there moves it to the end, or deletes what has expired.
LEMMA GetCache ==
  ASSUME CacheInv, NEW k \in CacheKeys, Cache!GetEntry(k) \/ Cache!Get(k)
  PROVE  CacheInv'
<1>. DEFINE e == Cache!Entry(cache, k)
<1>1. /\ k \in Cache!Cached(cache) /\ Cache!Use(k) /\ UNCHANGED <<memory, spared>>
      /\ cache' = Cache!Touched(cache, k) \/ cache' = Cache!Without(cache, k)
  BY DEF Cache!GetEntry, Cache!Get
<1>2. cache \in Seq(Cache!Entries) /\ Len(cache) \in Nat /\ MaxEntries \in Nat \ {0}
  BY StandaloneAssumption, LenProperties DEF CacheInv, Cache!TypeOK
<1>3. e \in Cache!Entries /\ e.key = k
  <2>1. Cache!IndexOf(cache, k) \in DOMAIN cache /\ cache[Cache!IndexOf(cache, k)].key = k
    BY <1>1 DEF Cache!IndexOf, Cache!Cached
  <2>2. QED
    BY <1>2, <2>1, ElementOfSeq DEF Cache!Entry
<1>4. cache' \in {Cache!Insert(cache, e), cache, Cache!Without(cache, k)}
  BY <1>1 DEF Cache!Touched
<1>5. memory => cache' \in {Cache!Insert(cache, e), Cache!Without(cache, k)}
  BY <1>1 DEF Cache!Touched
<1>. HIDE DEF e
<1>6. /\ older' \in SUBSET (CacheKeys \X CacheKeys) /\ Irreflexive(older')
      /\ memory' \in BOOLEAN
      /\ \A x, y \in CacheKeys \ {k} : <<x, y>> \in older => <<x, y>> \in older'
  BY <1>1, UsedOrder DEF CacheInv, Cache!TypeOK
<1>. DEFINE w == Cache!Without(cache, k)
            i == Cache!Insert(cache, e)
<1>7. /\ w \in Seq(Cache!Entries) /\ Len(w) = Len(cache) - 1
      /\ Cache!Cached(w) \subseteq Cache!Cached(cache)
      /\ InOrder(cache, older) => InOrder(w, older) /\ k \notin Cache!Cached(w)
  BY <1>1, <1>2, WithoutOne DEF CacheInv
<1>8. i \in Seq(Cache!Entries) /\ Len(i) = Len(cache)
  BY <1>1, <1>2, <1>3, InsertOne
<1>9. InOrder(cache, older) => InOrder(i, older')
  BY <1>1, <1>2, <1>3, InsertUsed DEF CacheInv
<1>. HIDE DEF w, i
<1>10. Cache!Cached(w) \subseteq CacheKeys
  <2>1. \A d \in Cache!Entries : d.key \in CacheKeys
    BY DEF Cache!Entries
  <2>2. QED
    BY <1>7, <2>1, ElementOfSeq DEF Cache!Cached
<1>11. InOrder(cache, older) => InOrder(w, older')
  <2>. SUFFICES ASSUME InOrder(cache, older), NEW a \in DOMAIN w, NEW b \in DOMAIN w, a < b
                PROVE  <<w[a].key, w[b].key>> \in older'
    BY DEF InOrder
  <2>1. w[a].key \in CacheKeys \ {k} /\ w[b].key \in CacheKeys \ {k}
    BY <1>7, <1>10 DEF Cache!Cached
  <2>2. <<w[a].key, w[b].key>> \in older
    BY <1>7 DEF InOrder
  <2>3. QED
    BY <1>6, <2>1, <2>2
<1>12. cache' \in Seq(Cache!Entries)
  BY <1>2, <1>4, <1>7, <1>8 DEF w, i
<1>13. memory => InOrder(cache', older') /\ Len(cache') \in {Len(cache), Len(cache) - 1}
  BY <1>5, <1>7, <1>8, <1>9, <1>11 DEF CacheInv, w, i
<1>14. memory => Limited'
  <2>1. memory /\ Len(cache) <= MaxEntries => Len(cache') <= MaxEntries
    BY <1>2, <1>13
  <2>2. QED
    BY <1>1, <2>1 DEF CacheInv, Limited
<1>15. QED
  BY <1>1, <1>6, <1>12, <1>13, <1>14 DEF CacheInv, Cache!TypeOK

\* What only takes entries out and keeps the order of the rest.
LEMMA LessCache ==
  ASSUME CacheInv, UNCHANGED <<memory, older, spared>>, cache' \in Seq(Cache!Entries),
         Len(cache') <= Len(cache), memory /\ InOrder(cache, older) => InOrder(cache', older)
  PROVE  CacheInv'
<1>1. Len(cache) \in Nat /\ Len(cache') \in Nat /\ MaxEntries \in Nat \ {0}
  BY StandaloneAssumption, LenProperties DEF CacheInv, Cache!TypeOK
<1>2. memory => Limited'
  <2>1. Len(cache) <= MaxEntries => Len(cache') <= MaxEntries
    BY <1>1
  <2>2. QED
    BY <2>1 DEF CacheInv, Limited
<1>3. QED
  BY <1>2 DEF CacheInv, Cache!TypeOK

LEMMA NextCache == CacheInv /\ [Cache!Next]_Cache!vars => CacheInv'
<1>. SUFFICES ASSUME CacheInv, [Cache!Next]_Cache!vars PROVE CacheInv'
  OBVIOUS
<1>1. cache \in Seq(Cache!Entries) /\ Len(cache) \in Nat /\ DOMAIN cache = 1 .. Len(cache)
  BY LenProperties DEF CacheInv, Cache!TypeOK
<1>2. ASSUME NEW k \in CacheKeys, Cache!GetEntry(k) \/ Cache!Get(k) PROVE CacheInv'
  BY <1>2, GetCache
<1>3. ASSUME NEW k \in CacheKeys, NEW tag \in BOOLEAN, Cache!Set(k, tag) PROVE CacheInv'
  BY <1>3, SetCache
<1>4. ASSUME NEW k \in CacheKeys, Cache!Delete(k) PROVE CacheInv'
  <2>. DEFINE w == Cache!Without(cache, k)
  <2>1. /\ w \in Seq(Cache!Entries)
        /\ Len(w) = IF k \in Cache!Cached(cache) THEN Len(cache) - 1 ELSE Len(cache)
        /\ InOrder(cache, older) => InOrder(w, older)
    BY <1>1, WithoutOne
  <2>2. cache' = w /\ UNCHANGED <<memory, older, spared>>
    BY <1>4 DEF Cache!Delete
  <2>. HIDE DEF w
  <2>3. Len(w) <= Len(cache)
    <3>1. Len(cache) \in Nat
      BY <1>1
    <3>2. Len(w) = Len(cache) - 1 \/ Len(w) = Len(cache)
      BY <2>1
    <3>3. QED
      BY <3>1, <3>2
  <2>4. QED
    BY <2>1, <2>2, <2>3, LessCache
<1>5. ASSUME NEW K, NEW gets \in BOOLEAN, cache' = Cache!Pruned(K, gets),
             UNCHANGED <<memory, older, spared>>
      PROVE  CacheInv'
  <2>. DEFINE c == Cache!Pruned(K, gets)
  <2>1. /\ c \in Seq(Cache!Entries) /\ Len(c) <= Len(cache)
        /\ memory => \A r : InOrder(cache, r) /\ Irreflexive(r) => InOrder(c, r)
    BY <1>1, PrunedKeepsOrder
  <2>. HIDE DEF c
  <2>2. cache' = c
    BY <1>5 DEF c
  <2>3. QED
    BY <1>5, <2>1, <2>2, LessCache DEF CacheInv
<1>6. CASE Cache!InvalidateByTag
  BY <1>5, <1>6 DEF Cache!InvalidateByTag
<1>7. ASSUME NEW K, Cache!InvalidateByPattern(K) PROVE CacheInv'
  BY <1>5, <1>7 DEF Cache!InvalidateByPattern
<1>8. CASE Cache!Clear
  <2>1. <<>> \in Seq(Cache!Entries) /\ Len(<<>>) = 0 /\ DOMAIN <<>> = {}
    OBVIOUS
  <2>2. Len(<<>>) <= Len(cache)
    BY <1>1, <2>1
  <2>3. InOrder(<<>>, older)
    BY <2>1 DEF InOrder
  <2>4. QED
    BY <1>8, <2>1, <2>2, <2>3, LessCache DEF Cache!Clear
<1>9. ASSUME NEW i \in DOMAIN cache, Cache!Expire(i) PROVE CacheInv'
  <2>. DEFINE c == [cache EXCEPT ![i].fresh = FALSE]
  <2>1. /\ c \in Seq(Cache!Entries) /\ Len(c) = Len(cache) /\ DOMAIN c = DOMAIN cache
        /\ \A j \in DOMAIN cache : c[j].key = cache[j].key
    <3>1. [cache[i] EXCEPT !.fresh = FALSE] \in Cache!Entries
      <4>1. cache[i] \in Cache!Entries
        BY <1>1, ElementOfSeq
      <4>2. QED
        BY <4>1 DEF Cache!Entries
    <3>2. c \in Seq(Cache!Entries) /\ Len(c) = Len(cache)
      BY <1>1, <3>1, ExceptSeq
    <3>3. \A j \in DOMAIN cache : cache[j] \in Cache!Entries
      BY <1>1, ElementOfSeq
    <3>4. QED
      BY <1>1, <3>2, <3>3, LenProperties DEF Cache!Entries
  <2>2. cache' = c /\ UNCHANGED <<memory, older, spared>>
    BY <1>9 DEF Cache!Expire
  <2>. HIDE DEF c
  <2>3. InOrder(cache, older) => InOrder(c, older)
    BY <2>1 DEF InOrder
  <2>4. Len(c) <= Len(cache)
    BY <1>1, <2>1
  <2>5. QED
    BY <2>1, <2>2, <2>3, <2>4, LessCache
<1>10. CASE UNCHANGED Cache!vars
  BY <1>10 DEF Cache!vars, CacheInv, Limited, Cache!TypeOK, InOrder
<1>11. QED
  BY <1>2, <1>3, <1>4, <1>6, <1>7, <1>8, <1>9, <1>10 DEF Cache!Next

\* CacheManager over a MemoryAdapter holds its entries in the order of last use, so that the
\* key it evicts is always the least recently used, however reads, writes, expiries and
\* invalidations by tag or pattern are mixed; and it holds at most maxEntries of them as
\* long as it has not had to evict the empty key, which it keeps.
THEOREM LeastRecentlyUsedFirst == Cache!Spec => []EvictsLeastRecentlyUsed
<1>1. CacheInv => EvictsLeastRecentlyUsed
  BY DEF CacheInv, Limited, EvictsLeastRecentlyUsed, Cache!EvictsLeastRecentlyUsed, InOrder
<1>2. QED
  BY <1>1, InitCache, NextCache, PTL DEF Cache!Spec

-----------------------------------------------------------------------------
\* Every behaviour of the composition is one of each of its parts, so what is proved of a
\* part holds of it there.
THEOREM PartsRunAlone ==
  StandaloneSpec => /\ Spec /\ SSE!Spec /\ Monitor!Spec /\ Infinite!Spec /\ Poller!Spec
                    /\ Cache!Spec /\ Batch!Spec /\ Uploader!Spec /\ Timed!Spec /\ Built!Spec
                    /\ Doubles!Spec /\ Dedup!Spec
<1>1. StandaloneInit => /\ Init /\ SSE!Init /\ Monitor!Init /\ Infinite!Init /\ Poller!Init
                        /\ Cache!Init /\ Batch!Init /\ Uploader!Init /\ Timed!Init
                        /\ Built!Init /\ Doubles!Init /\ Dedup!Init
  BY DEF StandaloneInit
<1>2. [StandaloneNext]_allVars =>
        /\ [Next]_vars /\ [SSE!Next]_sseVars /\ [Monitor!Next]_monitorVars
        /\ [Infinite!Next]_infiniteVars /\ [Poller!Next]_pollerVars /\ [Cache!Next]_cacheVars
        /\ [Batch!Next]_batchVars /\ [Uploader!Next]_uploaderVars /\ [Timed!Next]_timedVars
        /\ [Built!Next]_builtVars /\ [Doubles!Next]_doublesVars /\ [Dedup!Next]_dedupVars
  BY DEF StandaloneNext, OthersStay, allVars
<1>3. /\ UNCHANGED sseVars => UNCHANGED SSE!vars
      /\ UNCHANGED monitorVars => UNCHANGED Monitor!vars
      /\ UNCHANGED infiniteVars => UNCHANGED Infinite!vars
      /\ UNCHANGED pollerVars => UNCHANGED Poller!vars
      /\ UNCHANGED cacheVars => UNCHANGED Cache!vars
      /\ UNCHANGED batchVars => UNCHANGED Batch!vars
      /\ UNCHANGED uploaderVars => UNCHANGED Uploader!vars
      /\ UNCHANGED timedVars => UNCHANGED Timed!vars
      /\ UNCHANGED builtVars => UNCHANGED Built!vars
      /\ UNCHANGED doublesVars => UNCHANGED Doubles!vars
      /\ UNCHANGED dedupVars => UNCHANGED Dedup!vars
  BY DEF sseVars, monitorVars, infiniteVars, pollerVars, cacheVars, batchVars, uploaderVars,
         timedVars, builtVars, doublesVars, dedupVars,
         SSE!vars, Monitor!vars, Monitor!env, Infinite!vars, Infinite!flags, Poller!vars, Cache!vars, Batch!vars,
         Uploader!vars, Timed!vars, Built!vars, Doubles!vars, Doubles!mockVars,
         Doubles!recorderVars, Dedup!vars
<1>4. QED
  BY <1>1, <1>2, <1>3, PTL
     DEF StandaloneSpec, Spec, SSE!Spec, Monitor!Spec, Infinite!Spec, Poller!Spec, Cache!Spec,
         Batch!Spec, Uploader!Spec, Timed!Spec, Built!Spec, Doubles!Spec, Dedup!Spec

\* Both clients, in the composition that the run checks, implement Reconnecting: no dial of
\* a live stream, none after close(), and none unasked for but at the end of one of a
\* limited number of delays.
THEOREM StreamsAreLinks == StandaloneSpec => StreamsImplementReconnecting
BY PartsRunAlone, WebSocketImplementsReconnecting, StreamImplementsReconnecting, PTL
   DEF StreamsImplementReconnecting

\* handleReconnect() of either client: a stream that closed is followed up by a delay or by
\* 'reconnect:fail', for any number of overlapping delays and replaced sockets.
THEOREM NeverStranded == StandaloneSpec => []StreamsNotStranded
BY PartsRunAlone, SocketNeverStranded, StreamNeverStranded, PTL DEF StreamsNotStranded

\* The safety invariants of the parts hold together in the composition.
THEOREM PartsStaySafe ==
  StandaloneSpec => [](/\ FlightsShared /\ PagesContiguous /\ ResolvedMeansStored
                       /\ AnsweredOnceRecordedOnce /\ LastCallRuns /\ SentAsConfigured
                       /\ OneTracePerRequest /\ StreamsNotStranded /\ EvictsLeastRecentlyUsed
                       /\ Batch!ItemsHeld)
BY PartsRunAlone, NeverStranded, BatchesHoldItems, FlightsAreShared, PagesStayContiguous,
   UploadsAreStored, DoublesAnswerOnce, LastCallsRun, RequestsKeepHeaders, RequestsKeepTraces,
   LeastRecentlyUsedFirst, PTL
=============================================================================
