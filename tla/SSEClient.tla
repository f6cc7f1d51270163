------------------------------ MODULE SSEClient ------------------------------
(***************************************************************************)
(* The client for server-sent events of src/core/sse-client.ts.  The       *)
(* browser re-establishes an event stream by itself and reports an error   *)
(* each time; only when it gives up, and the EventSource is CLOSED, does   *)
(* the client make a new one.  A closed EventSource fires no more events.  *)
(***************************************************************************)
EXTENDS Integers

CONSTANTS
  Reconnect, MaxRetries,   \* config.reconnect and its maxRetries
  MaxWaiting               \* bound on delayed reconnects

VARIABLES
  es,        \* readyState of this.eventSource, or "none"
  isExplicitlyClosed,
  reconnectAttempts,
  waiting,   \* calls of handleReconnect() in their delay
  gaveUp,    \* history: reconnect:fail was emitted since the last EventSource was made
  wanted     \* history: the application called connect() for the last EventSource

vars == <<es, isExplicitlyClosed, reconnectAttempts, waiting, gaveUp, wanted>>

TypeOK ==
  /\ es \in {"none", "CONNECTING", "OPEN", "CLOSED"}
  /\ isExplicitlyClosed \in BOOLEAN /\ gaveUp \in BOOLEAN /\ wanted \in BOOLEAN
  /\ reconnectAttempts \in 0 .. MaxRetries /\ waiting \in 0 .. MaxWaiting

\* Before the constructor calls connect().
Init ==
  /\ es = "none" /\ isExplicitlyClosed = FALSE
  /\ reconnectAttempts = 0 /\ waiting = 0 /\ gaveUp = FALSE /\ wanted = FALSE

-----------------------------------------------------------------------------
\* handleReconnect() up to its delay, beside the calls already in theirs.
HandleReconnect(sleeping) ==
  \/ ~Reconnect /\ waiting' = sleeping /\ UNCHANGED <<reconnectAttempts, gaveUp>>
  \/ /\ Reconnect /\ reconnectAttempts >= MaxRetries
     /\ gaveUp' = TRUE /\ waiting' = sleeping /\ UNCHANGED reconnectAttempts
  \/ /\ Reconnect /\ reconnectAttempts < MaxRetries /\ sleeping < MaxWaiting
     /\ reconnectAttempts' = reconnectAttempts + 1 /\ waiting' = sleeping + 1
     /\ UNCHANGED gaveUp

\* Mutant of MayConnect: a delayed reconnect overrides close().
MayConnectAnyway == es \in {"none", "CLOSED"}

MayConnect == ~isExplicitlyClosed /\ es \in {"none", "CLOSED"}

\* connect(): nothing to do, a new EventSource, or a constructor that throws.
Connect(sleeping, called) ==
  /\ \/ /\ ~MayConnect
        /\ waiting' = sleeping /\ UNCHANGED <<es, reconnectAttempts, gaveUp, wanted>>
     \/ /\ MayConnect /\ es' = "CONNECTING" /\ wanted' = called
        /\ gaveUp' = FALSE /\ waiting' = sleeping /\ UNCHANGED reconnectAttempts
     \/ MayConnect /\ HandleReconnect(sleeping) /\ UNCHANGED <<es, wanted>>
  /\ UNCHANGED isExplicitlyClosed

CallConnect == Connect(waiting, TRUE)

\* The delay of handleReconnect() is over.
Wake == waiting > 0 /\ Connect(waiting - 1, FALSE)

\* onopen
Opened ==
  /\ es = "CONNECTING" /\ es' = "OPEN" /\ reconnectAttempts' = 0
  /\ UNCHANGED <<isExplicitlyClosed, waiting, gaveUp, wanted>>

\* onerror while the browser connects again by itself.
Interrupted ==
  /\ es = "OPEN" /\ es' = "CONNECTING"
  /\ UNCHANGED <<isExplicitlyClosed, reconnectAttempts, waiting, gaveUp, wanted>>

\* onerror with readyState CLOSED: the browser has given up.
Failed ==
  /\ es \in {"CONNECTING", "OPEN"} /\ es' = "CLOSED"
  /\ HandleReconnect(waiting)
  /\ UNCHANGED <<isExplicitlyClosed, wanted>>

\* close() drops the EventSource, so that its handlers see none.
Close ==
  /\ isExplicitlyClosed' = TRUE /\ es' = "none"
  /\ UNCHANGED <<reconnectAttempts, waiting, gaveUp, wanted>>

Next == CallConnect \/ Wake \/ Opened \/ Interrupted \/ Failed \/ Close

Spec == Init /\ [][Next]_vars

-----------------------------------------------------------------------------
(***************************************************************************)
(* Properties.                                                             *)
(***************************************************************************)
Link == INSTANCE Reconnecting WITH
  link <- IF es = "CONNECTING" THEN "dialing" ELSE IF es = "OPEN" THEN "up" ELSE "down",
  tries <- reconnectAttempts, due <- waiting, asked <- wanted, closed <- isExplicitlyClosed

\* The event stream is dialled only when it is down, never after close(), and unless the
\* application calls connect() only at the end of a delay, of which at most MaxRetries
\* begin between two streams that open.
ImplementsReconnecting == Link!Spec

\* A stream the browser has given up is followed up: a delayed reconnect is under way, or the
\* application has been told that there will be none.
NotStranded ==
  Reconnect /\ ~isExplicitlyClosed /\ es = "CLOSED" => waiting > 0 \/ gaveUp
=============================================================================
