--------------------------- MODULE WebSocketClient ---------------------------
(***************************************************************************)
(* The WebSocket client of src/core/websocket-client.ts.  this.ws is       *)
(* replaced by connect() as soon as it is no longer CONNECTING or OPEN, so *)
(* sockets that are still CLOSING may exist beside it, and their close     *)
(* events run the same handlers.  What a socket reports is the browser's   *)
(* doing: it opens, loses its connection or is closed by the server at any *)
(* time, and a socket that is CLOSING fires its close event in the end.    *)
(***************************************************************************)
EXTENDS Integers

CONSTANTS
  Reconnect, MaxRetries,   \* config.reconnect and its maxRetries
  Heartbeat,               \* config.heartbeat is given, with a timeout
  TimeoutShorter,          \* heartbeat.timeout is over before the next ping
  MaxOld, MaxWaiting       \* bounds on replaced sockets and on delayed reconnects

ASSUME WebSocketAssumption ==
  /\ Reconnect \in BOOLEAN /\ Heartbeat \in BOOLEAN /\ TimeoutShorter \in BOOLEAN
  /\ MaxRetries \in Nat /\ MaxOld \in Nat /\ MaxWaiting \in Nat

VARIABLES
  ws,        \* readyState of this.ws, "none" before the first connect()
  old,       \* sockets it has replaced that have yet to fire their close event
  isExplicitlyClosed,
  reconnectAttempts,
  waiting,   \* calls of handleReconnect() in their delay
  beating,   \* heartbeatTimer is set
  armed,     \* heartbeatTimeoutTimer is running
  silent,    \* the server of the open socket has stopped answering
  gaveUp,    \* history: reconnect:fail was emitted since the last socket was made
  wanted,     \* history: the application called connect() for this.ws
  cutOff     \* history: an old socket closed since this.ws opened

heartbeatVars == <<beating, armed>>
vars == <<ws, old, isExplicitlyClosed, reconnectAttempts, waiting, heartbeatVars, silent,
          gaveUp, wanted, cutOff>>

TypeOK ==
  /\ ws \in {"none", "CONNECTING", "OPEN", "CLOSING", "CLOSED"}
  /\ old \in 0 .. MaxOld /\ waiting \in 0 .. MaxWaiting
  /\ isExplicitlyClosed \in BOOLEAN
  /\ reconnectAttempts \in 0 .. MaxRetries
  /\ beating \in BOOLEAN /\ armed \in BOOLEAN /\ silent \in BOOLEAN
  /\ gaveUp \in BOOLEAN /\ wanted \in BOOLEAN /\ cutOff \in BOOLEAN

Init ==
  /\ ws = "none" /\ old = 0 /\ isExplicitlyClosed = FALSE
  /\ reconnectAttempts = 0 /\ waiting = 0
  /\ beating = FALSE /\ armed = FALSE /\ silent = FALSE
  /\ gaveUp = FALSE /\ wanted = FALSE /\ cutOff = FALSE

-----------------------------------------------------------------------------
\* Mutant of HandleReconnect: the limit is looked at after the increment.
HandleReconnectLate(sleeping) ==
  \/ ~Reconnect /\ waiting' = sleeping /\ UNCHANGED <<reconnectAttempts, gaveUp>>
  \/ /\ Reconnect /\ reconnectAttempts > MaxRetries
     /\ gaveUp' = TRUE /\ waiting' = sleeping /\ UNCHANGED reconnectAttempts
  \/ /\ Reconnect /\ reconnectAttempts <= MaxRetries /\ sleeping < MaxWaiting
     /\ reconnectAttempts' = reconnectAttempts + 1 /\ waiting' = sleeping + 1
     /\ UNCHANGED gaveUp

\* handleReconnect() up to its delay, beside the calls already in theirs.
HandleReconnect(sleeping) ==
  \/ ~Reconnect /\ waiting' = sleeping /\ UNCHANGED <<reconnectAttempts, gaveUp>>
  \/ /\ Reconnect /\ reconnectAttempts >= MaxRetries
     /\ gaveUp' = TRUE /\ waiting' = sleeping /\ UNCHANGED reconnectAttempts
  \/ /\ Reconnect /\ reconnectAttempts < MaxRetries /\ sleeping < MaxWaiting
     /\ reconnectAttempts' = reconnectAttempts + 1 /\ waiting' = sleeping + 1
     /\ UNCHANGED gaveUp

\* Mutant of MayConnect: a delayed reconnect overrides close().
MayConnectAnyway == ws \notin {"CONNECTING", "OPEN"}

MayConnect == ~isExplicitlyClosed /\ ws \notin {"CONNECTING", "OPEN"}

\* connect(): nothing to do, a new socket, or a constructor that throws.
Connect(sleeping, called) ==
  /\ \/ /\ ~MayConnect
        /\ waiting' = sleeping /\ UNCHANGED <<ws, old, reconnectAttempts, gaveUp, wanted>>
     \/ /\ MayConnect
        /\ ws' = "CONNECTING" /\ wanted' = called
        /\ old' = IF ws = "CLOSING" THEN old + 1 ELSE old
        /\ old' <= MaxOld
        /\ gaveUp' = FALSE /\ waiting' = sleeping /\ UNCHANGED reconnectAttempts
     \/ /\ MayConnect /\ HandleReconnect(sleeping) /\ UNCHANGED <<ws, old, wanted>>
  /\ UNCHANGED <<isExplicitlyClosed, heartbeatVars, silent, cutOff>>

\* The application, or the constructor, calls connect().
CallConnect == Connect(waiting, TRUE)

\* Mutant of Wake: the delay ends and connect() is not called.
WakeOnly == waiting > 0 /\ waiting' = waiting - 1 /\
            UNCHANGED <<ws, old, isExplicitlyClosed, reconnectAttempts, heartbeatVars, silent,
                        gaveUp, wanted, cutOff>>

\* The delay of handleReconnect() is over.
Wake == waiting > 0 /\ Connect(waiting - 1, FALSE)

\* onopen, with startHeartbeat().
Opened ==
  /\ ws = "CONNECTING" /\ ws' = "OPEN"
  /\ reconnectAttempts' = 0
  /\ beating' = Heartbeat /\ armed' = (armed /\ ~Heartbeat)
  /\ silent' = FALSE /\ cutOff' = FALSE
  /\ UNCHANGED <<old, isExplicitlyClosed, waiting, gaveUp, wanted>>

StopHeartbeat == beating' = FALSE /\ armed' = FALSE

\* onclose, of this.ws or of a socket it has replaced.
OnClose ==
  /\ StopHeartbeat
  /\ IF isExplicitlyClosed
     THEN UNCHANGED <<waiting, reconnectAttempts, gaveUp>>
     ELSE HandleReconnect(waiting)
  /\ UNCHANGED <<isExplicitlyClosed, silent, wanted>>

\* The connection cannot be made, is lost, or has been closed.
Closed ==
  /\ ws \in {"CONNECTING", "OPEN", "CLOSING"} /\ ws' = "CLOSED"
  /\ OnClose /\ UNCHANGED <<old, cutOff>>

OldClosed ==
  /\ old > 0 /\ old' = old - 1
  /\ cutOff' = (cutOff \/ ws = "OPEN")
  /\ OnClose /\ UNCHANGED ws

\* The server starts to close; the close event comes later.
ServerCloses ==
  /\ ws = "OPEN" /\ ws' = "CLOSING"
  /\ UNCHANGED <<old, isExplicitlyClosed, reconnectAttempts, waiting, heartbeatVars, silent,
                 gaveUp, wanted, cutOff>>

-----------------------------------------------------------------------------
\* The interval: a ping, and a new timeout in place of the last.  It comes while a
\* timeout is running only if the timeout is the longer of the two.
Beat ==
  /\ beating /\ ws = "OPEN" /\ (armed => ~TimeoutShorter)
  /\ armed' = TRUE
  /\ UNCHANGED <<ws, old, isExplicitlyClosed, reconnectAttempts, waiting, beating, silent,
                 gaveUp, wanted, cutOff>>

\* onmessage, with resetHeartbeatTimeout().
Message ==
  /\ ws = "OPEN" /\ ~silent /\ armed
  /\ armed' = FALSE
  /\ UNCHANGED <<ws, old, isExplicitlyClosed, reconnectAttempts, waiting, beating, silent,
                 gaveUp, wanted, cutOff>>

\* Mutant of HeartbeatTimeout: the missing answer is noticed and nothing is done.
HeartbeatTimeoutIgnored ==
  /\ armed /\ (beating /\ ws = "OPEN" => TimeoutShorter)
  /\ armed' = FALSE
  /\ UNCHANGED <<ws, old, isExplicitlyClosed, reconnectAttempts, waiting, beating, silent,
                 gaveUp, wanted, cutOff>>

\* No answer in time: whatever socket this.ws is now is closed.  A timeout that
\* is the longer one is always started anew before it is over.
HeartbeatTimeout ==
  /\ armed /\ (beating /\ ws = "OPEN" => TimeoutShorter)
  /\ armed' = FALSE
  /\ ws' = IF ws \in {"CONNECTING", "OPEN"} THEN "CLOSING" ELSE ws
  /\ UNCHANGED <<old, isExplicitlyClosed, reconnectAttempts, waiting, beating, silent,
                 gaveUp, wanted, cutOff>>

GoesSilent ==
  /\ ws = "OPEN" /\ ~silent /\ silent' = TRUE
  /\ UNCHANGED <<ws, old, isExplicitlyClosed, reconnectAttempts, waiting, heartbeatVars,
                 gaveUp, wanted, cutOff>>

\* close()
Close ==
  /\ isExplicitlyClosed' = TRUE
  /\ StopHeartbeat
  /\ ws' = IF ws \in {"CONNECTING", "OPEN"} THEN "CLOSING" ELSE ws
  /\ UNCHANGED <<old, reconnectAttempts, waiting, silent, gaveUp, wanted, cutOff>>

Next ==
  \/ CallConnect \/ Wake \/ Opened \/ Closed \/ OldClosed \/ ServerCloses
  \/ Beat \/ Message \/ HeartbeatTimeout \/ GoesSilent \/ Close

Spec == Init /\ [][Next]_vars

\* Timers fire, a CLOSING socket closes, and one that is CONNECTING opens or fails.
Fairness ==
  /\ WF_vars(Wake) /\ WF_vars(Beat) /\ WF_vars(HeartbeatTimeout) /\ WF_vars(OldClosed)
  /\ WF_vars(ws = "CLOSING" /\ Closed)
  /\ WF_vars(Opened \/ (ws = "CONNECTING" /\ Closed))

-----------------------------------------------------------------------------
(***************************************************************************)
(* Properties.                                                             *)
(***************************************************************************)
Link == INSTANCE Reconnecting WITH
  link <- IF ws = "CONNECTING" THEN "dialing" ELSE IF ws = "OPEN" THEN "up" ELSE "down",
  tries <- reconnectAttempts, due <- waiting, asked <- wanted, closed <- isExplicitlyClosed

\* Whatever sockets, delayed reconnects and timers overlap, the client dials only a link
\* that is down, never after close(), and unless the application calls connect() only at
\* the end of a delay, of which at most MaxRetries begin between two sockets that open.
ImplementsReconnecting == Link!Spec

\* A socket that closed is always followed up: a delayed reconnect is under way
\* or the application has been told that there will be none.
NotStranded ==
  Reconnect /\ ~isExplicitlyClosed /\ ws = "CLOSED" => waiting > 0 \/ gaveUp

\* A server that has stopped answering is noticed: its socket does not stay open,
\* unless the close event of a replaced socket has stopped the heartbeat.
SilenceNoticed ==
  (Heartbeat /\ silent /\ ws = "OPEN") ~> (~silent \/ ws # "OPEN" \/ cutOff)
=============================================================================
