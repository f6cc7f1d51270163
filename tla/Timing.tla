-------------------------------- MODULE Timing --------------------------------
(***************************************************************************)
(* debounce() and throttle() of src/utils/timing.ts, with trailing calls.  *)
(* A call is known by its number, which stands for its arguments.  Timers  *)
(* fire when they are due, those set earlier first, and calls may come at  *)
(* any time between them.                                                  *)
(***************************************************************************)
EXTENDS Integers

CONSTANTS
  Limit,              \* wait, or limit, in units of time
  MaxCalls, MaxTime   \* bounds on the calls and on the clock

VARIABLES
  throttled,          \* the function is throttle(func), not debounce(func)
  leading,            \* options.leading
  now,
  timers,             \* timers that are set: when, for which call, and whether it checks lastRan
  handle,             \* the call whose timer state.timeout, or state.lastFunc, refers to, or 0
  inThrottle, reopens,   \* inThrottle, and when its timer resets it
  lastRan,
  calls,              \* history: how many calls there have been
  ran                 \* history: the call func ran for last

vars == <<throttled, leading, now, timers, handle, inThrottle, reopens, lastRan, calls, ran>>

Times == 0 .. MaxTime + Limit
Timers == [at : Times, call : 1 .. MaxCalls, checked : BOOLEAN]
LongAgo == -Limit      \* lastRan is 0 at first

TypeOK ==
  /\ {throttled, leading, inThrottle} \subseteq BOOLEAN
  /\ now \in 0 .. MaxTime /\ timers \in SUBSET Timers /\ reopens \in Times
  /\ lastRan \in (0 .. MaxTime) \cup {LongAgo}
  /\ {handle, calls, ran} \subseteq 0 .. MaxCalls

Init ==
  /\ throttled \in BOOLEAN /\ leading \in BOOLEAN
  /\ now = 0 /\ timers = {} /\ handle = 0 /\ inThrottle = FALSE /\ reopens = 0
  /\ lastRan = LongAgo /\ calls = 0 /\ ran = 0

-----------------------------------------------------------------------------
Run(n) == ran' = n
NotRun == UNCHANGED ran

\* Mutant of Cleared: the timer of the call before stays.
NotCleared == timers

\* clearTimeout() of the timer that is referred to.
Cleared == {t \in timers : t.call # handle}

At(time, n, checked) == [at |-> time, call |-> n, checked |-> checked]

Debounced(n) ==
  /\ IF leading /\ handle = 0 THEN Run(n) ELSE NotRun
  /\ timers' = Cleared \cup {At(now + Limit, n, FALSE)} /\ handle' = n
  /\ UNCHANGED <<inThrottle, reopens, lastRan>>

Reopening == inThrottle' = TRUE /\ reopens' = now + Limit

\* The trailing call takes the place of the last, and of the first if that is not leading.
Throttled(n) ==
  \/ /\ ~inThrottle /\ leading
     /\ Run(n) /\ lastRan' = now /\ Reopening /\ UNCHANGED <<timers, handle>>
  \/ /\ ~inThrottle /\ ~leading
     /\ timers' = timers \cup {At(now + Limit, n, FALSE)} /\ handle' = n
     /\ Reopening /\ NotRun /\ UNCHANGED lastRan
  \/ /\ inThrottle
     /\ timers' = Cleared \cup
          {At(IF lastRan + Limit > now THEN lastRan + Limit ELSE now, n, TRUE)}
     /\ handle' = n
     /\ NotRun /\ UNCHANGED <<inThrottle, reopens, lastRan>>

Call ==
  /\ calls < MaxCalls /\ calls' = calls + 1
  /\ IF throttled THEN Throttled(calls + 1) ELSE Debounced(calls + 1)
  /\ UNCHANGED <<throttled, leading, now>>

\* A timer for a call: a throttled one that checks runs only if Limit has passed.
Fire(t) ==
  /\ t.at = now /\ (inThrottle => reopens > now) /\ \A u \in timers : u.at = now => u.call >= t.call
  /\ timers' = timers \ {t}
  /\ handle' = IF throttled THEN handle ELSE 0
  /\ IF t.checked /\ now - lastRan < Limit THEN NotRun /\ UNCHANGED lastRan
     ELSE Run(t.call) /\ lastRan' = IF throttled THEN now ELSE lastRan
  /\ UNCHANGED <<throttled, leading, now, inThrottle, reopens, calls>>

Reopen ==
  /\ inThrottle /\ reopens = now /\ inThrottle' = FALSE
  /\ UNCHANGED <<throttled, leading, now, timers, handle, reopens, lastRan, calls, ran>>

\* Time passes up to the next timer.
Tick ==
  /\ now < MaxTime /\ now' = now + 1
  /\ (\A t \in timers : t.at > now) /\ (inThrottle => reopens > now)
  /\ UNCHANGED <<throttled, leading, timers, handle, inThrottle, reopens, lastRan, calls, ran>>

Next == Call \/ (\E t \in timers : Fire(t)) \/ Reopen \/ Tick

Spec == Init /\ [][Next]_vars

-----------------------------------------------------------------------------
\* The arguments of the last call reach func: when no timer is left, the last call is the one
\* it ran for last, however calls and timers interleave.  Throttling without a leading call
\* loses it now and then.
LastCallRuns == (throttled => leading) /\ timers = {} => ran = calls
=============================================================================
