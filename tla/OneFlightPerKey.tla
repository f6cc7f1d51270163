--------------------------- MODULE OneFlightPerKey ---------------------------
(***************************************************************************)
(* What deduplication promises: a call is either the flight for its key,   *)
(* or joins the one that is under way and shares its outcome.  A flight is *)
(* registered under its key until it lands; only forgetting a key on       *)
(* purpose, while its flight is in the air, makes room for a second one.   *)
(* RequestLifecycle and RequestDeduplicator implement it.                  *)
(***************************************************************************)
CONSTANTS
  Callers, Keys,
  NoKey,       \* of a call that is not to be shared
  None         \* no caller

VARIABLES
  call,        \* where each call is: "flying", "joined" and so on, or its outcome
  keyOf,       \* the key it has flown or joined under
  leader,      \* the flight it has joined
  flight,      \* the flight registered under each key
  forgotten    \* keys that have been forgotten while their flight was in the air

vars == <<call, keyOf, leader, flight, forgotten>>

Init ==
  /\ call = [c \in Callers |-> "idle"] /\ keyOf = [c \in Callers |-> NoKey]
  /\ leader = [c \in Callers |-> None] /\ flight = [k \in Keys |-> None] /\ forgotten = {}

Outcomes == {"ok", "failed"}
Become(c, state) == call[c] # state /\ call' = [call EXCEPT ![c] = state]

Fly(c, k) ==
  /\ call[c] = "idle" /\ Become(c, "flying")
  /\ k \in Keys => flight[k] = None
  /\ keyOf' = [keyOf EXCEPT ![c] = k]
  /\ flight' = [x \in Keys |-> IF x = k THEN c ELSE flight[x]]
  /\ UNCHANGED <<leader, forgotten>>

\* Never of a flight that has landed, nor of one for another key.
Join(c, k) ==
  /\ call[c] = "idle" /\ Become(c, "joined")
  /\ flight[k] # None /\ call[flight[k]] \in {"flying", "spoilt"} /\ keyOf[flight[k]] = k
  /\ keyOf' = [keyOf EXCEPT ![c] = k] /\ leader' = [leader EXCEPT ![c] = flight[k]]
  /\ UNCHANGED <<flight, forgotten>>

\* The registration ends with the flight, which may yet have to settle.
Land(c, state) ==
  /\ call[c] = "flying" /\ Become(c, state)
  /\ flight' = [k \in Keys |-> IF k = keyOf[c] THEN None ELSE flight[k]]
  /\ UNCHANGED <<keyOf, leader, forgotten>>

\* The flight has failed and stays registered.
Spoil(c) ==
  /\ call[c] = "flying" /\ Become(c, "spoilt")
  /\ UNCHANGED <<keyOf, leader, flight, forgotten>>

Settle(c, outcome) ==
  /\ call[c] = "landed" /\ Become(c, outcome)
  /\ UNCHANGED <<keyOf, leader, flight, forgotten>>

\* A call that has joined a flight has the outcome of that flight.
Share(c) ==
  /\ call[c] = "joined" /\ call[leader[c]] \in Outcomes \cup {"spoilt"}
  /\ Become(c, IF call[leader[c]] = "ok" THEN "ok" ELSE "failed")
  /\ UNCHANGED <<keyOf, leader, flight, forgotten>>

Forget(ks) ==
  /\ flight' = [k \in Keys |-> IF k \in ks THEN None ELSE flight[k]]
  /\ forgotten' \in SUBSET Keys
  /\ forgotten \cup {k \in ks : flight[k] # None /\ call[flight[k]] = "flying"} \subseteq forgotten'
  /\ UNCHANGED <<call, keyOf, leader>>

Next ==
  \/ \E c \in Callers :
       \/ Fly(c, NoKey) \/ (\E k \in Keys : Fly(c, k) \/ Join(c, k))
       \/ Land(c, "landed") \/ Spoil(c) \/ Share(c)
       \/ \E outcome \in Outcomes : Land(c, outcome) \/ Settle(c, outcome)
  \/ \E ks \in SUBSET Keys : Forget(ks)

Spec == Init /\ [][Next]_vars
=============================================================================
