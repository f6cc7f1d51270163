------------------------------- MODULE WorkPool -------------------------------
(***************************************************************************)
(* What the queue promises the one who submits work: an item waits, runs   *)
(* in one of a fixed number of slots, is answered while it runs, and gives *)
(* its slot back; it may be withdrawn only while it waits.  When a slot is *)
(* taken, and in which order, is TaskQueue's business, which implements    *)
(* it.                                                                     *)
(***************************************************************************)
EXTENDS Integers

CONSTANTS
  Items,
  Size         \* the number of slots

VARIABLES
  waiting,     \* items that have been submitted and not started
  running,     \* items that have been started and not answered
  ending,      \* items that have been answered and still hold their slot
  free,        \* the number of free slots
  answer       \* what the one who submitted an item has been told

vars == <<waiting, running, ending, free, answer>>

Init ==
  /\ waiting = {} /\ running = {} /\ ending = {} /\ free = Size
  /\ answer = [i \in Items |-> "none"]

\* A step that leaves items w waiting, items r running and f slots free may go on to start
\* one of those that wait.
Start(w, r, f) ==
  \/ waiting' = w /\ running' = r /\ free' = f
  \/ /\ f > 0 /\ free' = f - 1
     /\ \E i \in w : waiting' = w \ {i} /\ running' = r \cup {i}

\* An item is submitted once at a time.
Submit(i) ==
  /\ i \notin waiting \cup running \cup ending
  /\ answer' = [answer EXCEPT ![i] = "pending"]
  /\ Start(waiting \cup {i}, running, free)
  /\ UNCHANGED ending

\* Each is answered once, after it has started.
Answer(i, outcome) ==
  /\ i \in running /\ answer[i] = "pending"
  /\ running' = running \ {i} /\ ending' = ending \cup {i}
  /\ answer' = [answer EXCEPT ![i] = outcome]
  /\ UNCHANGED <<waiting, free>>

Release(i) ==
  /\ i \in ending /\ ending' = ending \ {i}
  /\ Start(waiting, running, free + 1)
  /\ UNCHANGED answer

Look == Start(waiting, running, free) /\ UNCHANGED <<ending, answer>>

\* Whoever waits for an item that is withdrawn will never be told.
Withdraw(items) ==
  /\ items \subseteq waiting /\ waiting' = waiting \ items
  /\ answer' = [i \in Items |-> IF i \in items THEN "abandoned" ELSE answer[i]]
  /\ UNCHANGED <<running, ending, free>>

Restart ==
  /\ waiting' = {} /\ running' = {} /\ ending' = {} /\ free' = Size
  /\ answer' = [i \in Items |-> "none"]

Next ==
  \/ \E i \in Items :
       Submit(i) \/ Release(i) \/ \E outcome \in {"resolved", "rejected"} : Answer(i, outcome)
  \/ \E items \in SUBSET Items : Withdraw(items)
  \/ Look \/ Restart

Spec == Init /\ [][Next]_vars
=============================================================================
