------------------------------ MODULE Transport ------------------------------
(***************************************************************************)
(* What HTTPClient expects of the transport it hands a request to          *)
(* (config.transport, by default http()): a promise per call which, once   *)
(* the signal of the call is aborted, rejects and never fulfils.           *)
(* RequestLifecycle is written against this module, HTTPTransport          *)
(* implements it.                                                          *)
(***************************************************************************)
CONSTANTS
  Calls,    \* calls of the transport
  Deaf      \* those that do not listen to their signal

VARIABLES
  call,     \* the promise of each call
  aborted   \* calls whose signal has been aborted, before or after they began

vars == <<call, aborted>>

Init == call = [c \in Calls |-> "idle"] /\ aborted = {}

Begin(c) ==
  /\ call[c] = "idle" /\ call' = [call EXCEPT ![c] = "pending"]
  /\ UNCHANGED aborted

Abort(calls) == aborted' = aborted \cup calls /\ UNCHANGED call

Fulfil(c) ==
  /\ call[c] = "pending" /\ (c \in aborted => c \in Deaf)
  /\ call' = [call EXCEPT ![c] = "ok"] /\ UNCHANGED aborted

Reject(c) ==
  /\ call[c] = "pending" /\ call' = [call EXCEPT ![c] = "failed"]
  /\ UNCHANGED aborted

Next ==
  \/ \E c \in Calls : Begin(c) \/ Fulfil(c) \/ Reject(c)
  \/ \E calls \in SUBSET Calls : Abort(calls)

Spec == Init /\ [][Next]_vars

\* An aborted call is answered, whatever the server does.
Answers ==
  \A c \in Calls \ Deaf : (call[c] = "pending" /\ c \in aborted) ~> call[c] \in {"ok", "failed"}
=============================================================================
