----------------------------- MODULE Reconnecting -----------------------------
(***************************************************************************)
(* What the stream clients promise of their connection, whatever timers,   *)
(* sockets and callbacks are involved: there is one link at a time, only a *)
(* link that is down is dialled, and once closed it stays down.  A dial    *)
(* the application has not asked for uses up a retry that was scheduled,   *)
(* and at most MaxRetries are scheduled before the link is up again, so    *)
(* that the client by itself dials that often at most, and once for every  *)
(* retry left over from before; connect() is the application's to call.    *)
(* WebSocketClient and SSEClient implement it.                             *)
(***************************************************************************)
EXTENDS Integers

CONSTANT MaxRetries
VARIABLES
  link,
  tries,    \* retries scheduled since the link was up
  due,      \* retries that are scheduled and not used up
  asked,    \* the application has asked for the last dial
  closed

vars == <<link, tries, due, asked, closed>>

Init == link = "down" /\ tries = 0 /\ due = 0 /\ asked = FALSE /\ closed = FALSE

Dial == ~closed /\ link = "down" /\ link' = "dialing" /\ UNCHANGED <<tries, closed>>

\* The application dials.
Call == Dial /\ asked' = TRUE /\ UNCHANGED due

Use == due > 0 /\ due' = due - 1

\* The client dials, or lets a retry go.
Redial == Use /\ Dial /\ asked' = FALSE
Skip == Use /\ UNCHANGED <<link, tries, asked, closed>>

Establish == link = "dialing" /\ link' = "up" /\ tries' = 0 /\ UNCHANGED <<due, asked, closed>>

Again == ~closed /\ tries < MaxRetries /\ tries' = tries + 1 /\ UNCHANGED <<asked, closed>>

\* One more retry is scheduled, be it in place of one that came to nothing.
Retry == Again /\ due' = due + 1
Replace == Again /\ due > 0 /\ UNCHANGED <<link, due>>

Lose == link # "down" /\ link' = "down" /\ (Retry \/ UNCHANGED <<tries, due, asked, closed>>)

\* The browser re-establishes an event stream by itself.
Resume == link = "up" /\ link' = "dialing" /\ UNCHANGED <<tries, due, asked, closed>>

Close == closed' = TRUE /\ link' = "down" /\ UNCHANGED <<tries, due, asked>>

Next ==
  \/ Call \/ Redial \/ Skip \/ Establish \/ (Retry /\ UNCHANGED link) \/ Replace
  \/ Lose \/ Resume \/ Close

Spec == Init /\ [][Next]_vars
=============================================================================
