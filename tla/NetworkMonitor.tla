---------------------------- MODULE NetworkMonitor ----------------------------
(***************************************************************************)
(* The network monitor of src/utils/network.ts: browser events and HEAD    *)
(* requests to pingUrl at an interval, both of which set isOnline and emit *)
(* 'online' or 'offline'.  Checks may overlap and be answered in any order *)
(* and are not aborted when polling stops or the monitor is destroyed.     *)
(***************************************************************************)
EXTENDS Integers, Sequences, SequencesExt

CONSTANT MaxChecks   \* bound on the checks under way

VARIABLES
  link,         \* what the browser reports: navigator.onLine
  reachable,    \* pingUrl can be reached; then there is a link
  listening,    \* in a browser, with its event listeners
  polling,      \* checkIntervalId is set
  isOnline,
  checks        \* calls of checkConnection(): "pending", "ok" or "failed"

env == <<link, reachable>>
vars == <<env, listening, polling, isOnline, checks>>

TypeOK ==
  /\ {link, reachable, listening, polling, isOnline} \subseteq BOOLEAN
  /\ checks \in Seq({"pending", "ok", "failed"}) /\ Len(checks) <= MaxChecks

Init ==
  /\ link \in BOOLEAN /\ reachable \in {b \in BOOLEAN : b => link}
  /\ listening \in BOOLEAN /\ polling \in BOOLEAN
  /\ isOnline = (listening => link)
  /\ checks = <<>>

\* The window's events; a link does not make pingUrl reachable, but is needed for it.
LinkUp ==
  /\ ~link /\ link' = TRUE
  /\ isOnline' = (isOnline \/ listening)
  /\ UNCHANGED <<reachable, listening, polling, checks>>

LinkDown ==
  /\ link /\ link' = FALSE /\ reachable' = FALSE
  /\ isOnline' = (isOnline /\ ~listening)
  /\ UNCHANGED <<listening, polling, checks>>

ReachabilityChanges ==
  /\ link /\ reachable' = ~reachable
  /\ UNCHANGED <<link, listening, polling, isOnline, checks>>

\* The interval: one more checkConnection().
Poll ==
  /\ polling /\ Len(checks) < MaxChecks /\ checks' = Append(checks, "pending")
  /\ UNCHANGED <<env, listening, polling, isOnline>>

\* The fetch of a check ends, within its timeout of 5 s.
Fetched(i) ==
  /\ checks[i] = "pending"
  /\ checks' = [checks EXCEPT ![i] = IF reachable THEN "ok" ELSE "failed"]
  /\ UNCHANGED <<env, listening, polling, isOnline>>

\* Mutant of Concluded: failures are only counted, as a response with an error status.
ConcludedUp(i) ==
  /\ checks[i] # "pending"
  /\ isOnline' = (isOnline \/ checks[i] = "ok") /\ checks' = RemoveAt(checks, i)
  /\ UNCHANGED <<env, listening, polling>>

\* Its continuation: handleOnline() or handleOffline() if that is news.
Concluded(i) ==
  /\ checks[i] # "pending"
  /\ isOnline' = (checks[i] = "ok") /\ checks' = RemoveAt(checks, i)
  /\ UNCHANGED <<env, listening, polling>>

StartPolling == polling' = TRUE /\ UNCHANGED <<env, listening, isOnline, checks>>
StopPolling == polling' = FALSE /\ UNCHANGED <<env, listening, isOnline, checks>>
Destroy == polling' = FALSE /\ listening' = FALSE /\ UNCHANGED <<env, isOnline, checks>>

Next ==
  \/ LinkUp \/ LinkDown \/ ReachabilityChanges
  \/ Poll \/ \E i \in DOMAIN checks : Fetched(i) \/ Concluded(i)
  \/ StartPolling \/ StopPolling \/ Destroy

Spec == Init /\ [][Next]_vars

\* The interval fires, and every check ends.
Fairness ==
  /\ WF_vars(Poll)
  /\ WF_vars(\E i \in DOMAIN checks : Fetched(i)) /\ WF_vars(\E i \in DOMAIN checks : Concluded(i))

-----------------------------------------------------------------------------
\* A monitor that polls comes to agree with a network that has settled, whatever older
\* checks and browser events said before: for good once pingUrl is reachable, and again
\* after every browser event once it is not.
Converges ==
  /\ (<>[](polling /\ reachable) => <>[]isOnline)
  /\ (<>[](polling /\ ~reachable) => []<>~isOnline)
=============================================================================
