----------------------------- MODULE RateLimiter -----------------------------
(***************************************************************************)
(* The token bucket of src/utils/rate-limiter.ts.  waitForToken() chains   *)
(* each caller behind the promise of the one before it; the caller at the  *)
(* head of a chain computes how long to sleep, sleeps, and then takes a    *)
(* token with tryConsume(), whose answer it ignores.                       *)
(*                                                                         *)
(* Time is in milliseconds and tokens are counted in 1/Interval-ths, so    *)
(* that the refill rate Limit/Interval per millisecond is the integer      *)
(* Limit: a token is worth Interval units and the bucket holds             *)
(* Limit * Interval of them.  (Floating-point rounding is not modelled.)   *)
(***************************************************************************)
EXTENDS Integers, SequencesExt

CONSTANTS
  Calls,            \* calls of waitForToken() that may be pending together
  Limit, Interval,  \* the constructor's arguments
  MaxWindow         \* bound: the longest window of time observed

ASSUME LimiterAssumption == Limit \in Nat \ {0} /\ Interval \in Nat \ {0}
ASSUME WindowAssumption == MaxWindow \in Nat

VARIABLES
  tokens,       \* this.tokens, in units
  sinceRefill,  \* Date.now() - this.lastRefill, up to Interval, which fills the bucket
  chains,       \* pending calls: the chain of acquisitionQueue, last, and before it
                \*   those that reset() cut loose and that are not done
  wakeIn,       \* for the calls sleeping in _acquireToken, the time to their timeout
  order,        \* history: the pending calls in the order they were made
  window,       \* history: a window of time under observation
  disturbed     \* history: tryConsume() or reset() was called over pending calls

bucket == <<tokens, sinceRefill>>
vars == <<bucket, chains, wakeIn, order, window, disturbed>>

Capacity == Limit * Interval
Sleeping == DOMAIN wakeIn
Idle == [open |-> FALSE, length |-> 0, grants |-> 0]

TypeOK ==
  /\ tokens \in 0 .. Capacity
  /\ sinceRefill \in 0 .. Interval
  /\ chains \in Seq(Seq(Calls)) /\ chains # <<>>
  /\ Sleeping \subseteq Calls /\ wakeIn \in [Sleeping -> 0 .. Interval]
  /\ order \in Seq(Calls)
  /\ window \in [open : BOOLEAN, length : 0 .. MaxWindow, grants : Nat]
  /\ disturbed \in BOOLEAN

Init ==
  /\ tokens = Capacity /\ sinceRefill = 0
  /\ chains = << <<>> >> /\ wakeIn = [c \in {} |-> 0]
  /\ order = <<>> /\ window = Idle /\ disturbed = FALSE

-----------------------------------------------------------------------------
\* Mutant of Available: the bucket overflows.
AvailableUncapped == tokens + Limit * sinceRefill

\* The tokens after refill().
Available ==
  IF tokens + Limit * sinceRefill < Capacity THEN tokens + Limit * sinceRefill ELSE Capacity

\* Mutant of TryConsume: lastRefill is left as it was when a token is taken.
TryConsumeRefillsAgain(ok) ==
  /\ ok = (Available >= Interval)
  /\ tokens' = (IF ok THEN Available - Interval ELSE Available)
  /\ sinceRefill' = (IF ok THEN sinceRefill ELSE 0)

\* tryConsume() after its refill(), answering ok.
TryConsume(ok) ==
  /\ ok = (Available >= Interval)
  /\ tokens' = (IF ok THEN Available - Interval ELSE Available)
  /\ sinceRefill' = 0

\* Mutant of TimeToWait: Math.floor.
TimeToWaitFloor(w) == Limit * w <= Interval - Available /\ Limit * (w + 1) > Interval - Available

\* getTimeToWait() without a token: Math.ceil(needed / refillRate).
TimeToWait(w) == Limit * w >= Interval - Available /\ Limit * (w - 1) < Interval - Available

\* The call at the head of chain k leaves with or without a token; the next
\* _acquireToken of the chain can run.
Granted(k, c) ==
  /\ chains' = IF k < Len(chains) /\ Len(chains[k]) = 1 THEN RemoveAt(chains, k)
               ELSE [chains EXCEPT ![k] = Tail(@)]
  /\ wakeIn' = [d \in Sleeping \ {c} |-> wakeIn[d]]
  /\ \E i \in DOMAIN order : order[i] = c /\ order' = RemoveAt(order, i)

Counted == window' = IF window.open THEN [window EXCEPT !.grants = @ + 1] ELSE window

IsHead(k, c) == chains[k] # <<>> /\ Head(chains[k]) = c

\* The _acquireToken() of c is next in its chain; the chains that reset() has cut loose and
\* the current one go on in any order.
CanBegin(k, c) == IsHead(k, c) /\ c \notin Sleeping

-----------------------------------------------------------------------------
\* waitForToken().
WaitForToken(c) ==
  /\ \A i \in DOMAIN order : order[i] # c
  /\ chains' = [chains EXCEPT ![Len(chains)] = Append(@, c)]
  /\ order' = Append(order, c)
  /\ UNCHANGED <<bucket, wakeIn, window, disturbed>>

\* _acquireToken() finds a token and takes it in the same step.
AcquireNow(k, c) ==
  /\ CanBegin(k, c)
  /\ TryConsume(TRUE)
  /\ Granted(k, c) /\ Counted /\ UNCHANGED disturbed

\* _acquireToken() finds none and sleeps.
Sleep(k, c) ==
  /\ CanBegin(k, c)
  /\ Available < Interval
  /\ tokens' = Available /\ sinceRefill' = 0
  /\ \E w \in 1 .. Interval :
       TimeToWait(w) /\ wakeIn' = [d \in Sleeping \cup {c} |-> IF d = c THEN w ELSE wakeIn[d]]
  /\ UNCHANGED <<chains, order, window, disturbed>>

\* The timeout fires, on time or late; tryConsume()'s answer is ignored.
Wake(k, c) ==
  /\ IsHead(k, c) /\ c \in Sleeping /\ wakeIn[c] = 0
  /\ \E ok \in BOOLEAN : TryConsume(ok)
  /\ Granted(k, c) /\ Counted /\ UNCHANGED disturbed

\* tryConsume() called directly.
ConsumeDirectly ==
  /\ \E ok \in BOOLEAN :
       TryConsume(ok) /\ IF ok THEN Counted ELSE UNCHANGED window
  /\ disturbed' = (disturbed \/ order # <<>>)
  /\ UNCHANGED <<chains, wakeIn, order>>

\* Mutant of Reset: the calls already chained are forgotten.
ResetForgets ==
  /\ tokens' = Capacity /\ sinceRefill' = 0
  /\ chains' = << <<>> >>
  /\ window' = Idle /\ disturbed' = (disturbed \/ order # <<>>)
  /\ UNCHANGED <<wakeIn, order>>

\* reset(): the calls already chained go on, behind a promise nobody follows.
\* (A window with a reset in it says nothing of the rate: observation ends.)
Reset ==
  /\ tokens' = Capacity /\ sinceRefill' = 0
  /\ chains' = IF chains[Len(chains)] = <<>> THEN chains ELSE Append(chains, <<>>)
  /\ window' = Idle /\ disturbed' = (disturbed \/ order # <<>>)
  /\ UNCHANGED <<wakeIn, order>>

\* A millisecond passes.
Tick ==
  /\ sinceRefill' = IF sinceRefill < Interval THEN sinceRefill + 1 ELSE Interval
  /\ wakeIn' = [c \in Sleeping |-> IF wakeIn[c] > 0 THEN wakeIn[c] - 1 ELSE 0]
  /\ window' = CASE ~window.open -> window
                 [] window.open /\ window.length < MaxWindow -> [window EXCEPT !.length = @ + 1]
                 [] OTHER -> Idle
  /\ UNCHANGED <<tokens, chains, order, disturbed>>

\* An observer starts to count grants.
Observe ==
  /\ ~window.open /\ ~disturbed
  /\ window' = [Idle EXCEPT !.open = TRUE]
  /\ UNCHANGED <<bucket, chains, wakeIn, order, disturbed>>

Acquire(c) ==
  \E k \in DOMAIN chains : AcquireNow(k, c) \/ Sleep(k, c) \/ Wake(k, c)

Next ==
  \/ \E c \in Calls : WaitForToken(c) \/ Acquire(c)
  \/ ConsumeDirectly \/ Reset \/ Tick \/ Observe

Spec == Init /\ [][Next]_vars

\* Time passes, and the event loop runs every timer and continuation.
Fairness == WF_vars(Tick) /\ \A c \in Calls : WF_vars(Acquire(c))
FairSpec == Spec /\ Fairness

-----------------------------------------------------------------------------
(***************************************************************************)
(* Properties.                                                             *)
(***************************************************************************)
\* "Each caller acquires exactly one token in FIFO order": a call of
\* waitForToken() that resolves is the oldest pending one, and a token left the
\* bucket for it, unless tryConsume() or reset() was called while calls waited.
TokenPerCallInOrder ==
  [][\A c \in Calls : ~disturbed /\ (\E i \in DOMAIN order : order[i] = c)
                      /\ ~(\E i \in DOMAIN order' : order'[i] = c) =>
       order[1] = c /\ Available >= Interval /\ tokens' = Available - Interval]_vars

\* The point of the limiter: over any window of time without a reset, however the
\* calls in it overlap and however late the timers fire, the calls let through are
\* covered by a full bucket and what the rate adds in that time (unless
\* tryConsume() or reset() was called while calls waited).
RateRespected ==
  window.open /\ ~disturbed =>
    window.grants * Interval <= Capacity + Limit * window.length

\* Nobody is forgotten or served twice, whatever reset() cuts loose: a pending call has one
\* place in one chain, and only those sleep whom no other call precedes there.
PendingCallsChained ==
  /\ \A k, l \in DOMAIN chains : \A i \in DOMAIN chains[k], j \in DOMAIN chains[l] :
       chains[k][i] = chains[l][j] => k = l /\ i = j
  /\ UNION {ToSet(chains[k]) : k \in DOMAIN chains} = ToSet(order)
  /\ \A c \in Sleeping : \E k \in DOMAIN chains : IsHead(k, c)

\* A call of waitForToken() resolves, even behind others and late timers.
CallsResolve ==
  \A c \in Calls : (\E i \in DOMAIN order : order[i] = c)
                     ~> ~(\E i \in DOMAIN order : order[i] = c)
=============================================================================
