-------------------------- MODULE RateLimiterProofs --------------------------
(***************************************************************************)
(* Proofs that the token bucket gives each call of waitForToken() a token  *)
(* of its own in the order of the calls and respects its rate over every   *)
(* window of time, for any limit and interval, until tryConsume() or       *)
(* reset() is called over pending calls; and that even then the bucket     *)
(* stays within its bounds and nobody who waits is forgotten.              *)
(***************************************************************************)
EXTENDS RateLimiter, SequenceTheorems, TLAPS

(***************************************************************************)
(* Arithmetic and sequences.                                               *)
(***************************************************************************)
LEMMA Products ==
  ASSUME NEW a \in Nat \ {0}, NEW m \in Nat, NEW n \in Nat
  PROVE  /\ a * m \in Nat /\ a * (m + 1) = a * m + a /\ (m + 1) * a = m * a + a
         /\ m * a \in Nat /\ a * m >= m
         /\ m <= n => a * m <= a * n
  OBVIOUS

LEMMA CapacityCovers == Capacity \in Nat /\ Capacity >= Interval /\ Capacity >= Limit
BY LimiterAssumption, Products DEF Capacity

\* Available is what refill() leaves in the bucket: at least one more millisecond's
\* worth after a millisecond, and never more than that.
LEMMA AvailableType ==
  ASSUME tokens \in 0 .. Capacity, sinceRefill \in 0 .. Interval
  PROVE  Available \in 0 .. Capacity
BY LimiterAssumption, CapacityCovers, Products DEF Available

\* Removing the first element of a sequence leaves its tail.
LEMMA RemoveAtFront ==
  ASSUME NEW S, NEW s \in Seq(S), s # <<>>
  PROVE  RemoveAt(s, 1) = Tail(s) /\ Tail(s) \in Seq(S)
<1>1. SubSeq(s, 1, 0) = <<>>
  BY SubSeqEmpty
<1>2. Tail(s) = SubSeq(s, 2, Len(s)) /\ Tail(s) \in Seq(S)
  BY TailIsSubSeq, HeadTailProperties
<1>3. RemoveAt(s, 1) = SubSeq(s, 1, 0) \o SubSeq(s, 2, Len(s))
  BY DEF RemoveAt
<1>4. <<>> \o Tail(s) = Tail(s)
  BY <1>2, ConcatEmptySeq
<1>5. QED
  BY <1>1, <1>2, <1>3, <1>4

\* Where the element at position k of RemoveAt(q, i) is in q.
Position(k, i) == IF k < i THEN k ELSE k + 1

LEMMA RemoveAtElements ==
  ASSUME NEW S, NEW q \in Seq(S), NEW i \in DOMAIN q
  PROVE  /\ RemoveAt(q, i) \in Seq(S) /\ Len(RemoveAt(q, i)) = Len(q) - 1
         /\ \A k \in 1 .. Len(q) - 1 : /\ Position(k, i) \in DOMAIN q \ {i}
                                       /\ RemoveAt(q, i)[k] = q[Position(k, i)]
         /\ \A j, k \in 1 .. Len(q) - 1 : Position(j, i) = Position(k, i) => j = k
<1>. DEFINE a == SubSeq(q, 1, i - 1)
            b == SubSeq(q, i + 1, Len(q))
            r == RemoveAt(q, i)
            n == Len(q)
<1>1. n \in Nat /\ DOMAIN q = 1 .. n /\ i \in 1 .. n
  BY LenProperties
<1>2. \A j \in 1 .. n : q[j] \in S
  BY ElementOfSeq
<1>3. a \in Seq(S) /\ Len(a) = i - 1 /\ \A j \in 1 .. i - 1 : a[j] = q[j]
  <2>1. \A j \in 1 .. i - 1 : q[j] \in S
    BY <1>1, <1>2
  <2>2. /\ a \in Seq(S)
        /\ Len(a) = IF 1 <= i - 1 THEN (i - 1) - 1 + 1 ELSE 0
        /\ \A j \in 1 .. (i - 1) - 1 + 1 : a[j] = q[1 + j - 1]
    <3>. HIDE DEF a
    <3>. QED BY <1>1, <2>1, SubSeqProperties DEF a
  <2>. HIDE DEF a
  <2>3. QED
    BY <1>1, <2>2
<1>4. b \in Seq(S) /\ Len(b) = n - i /\ \A j \in 1 .. n - i : b[j] = q[i + j]
  <2>1. \A j \in i + 1 .. n : q[j] \in S
    BY <1>1, <1>2
  <2>2. /\ b \in Seq(S)
        /\ Len(b) = IF i + 1 <= n THEN n - (i + 1) + 1 ELSE 0
        /\ \A j \in 1 .. n - (i + 1) + 1 : b[j] = q[i + 1 + j - 1]
    <3>. HIDE DEF b
    <3>. QED BY <1>1, <2>1, SubSeqProperties DEF b
  <2>. HIDE DEF b, n
  <2>3. Len(b) = n - i
    BY <1>1, <2>2
  <2>4. ASSUME NEW j \in 1 .. n - i
        PROVE  b[j] = q[i + j]
    <3>1. j \in 1 .. n - (i + 1) + 1 /\ i + 1 + j - 1 = i + j
      BY <1>1
    <3>2. QED
      BY <2>2, <3>1
  <2>5. QED
    BY <2>2, <2>3, <2>4
<1>5. r = a \o b
  BY DEF RemoveAt
<1>. HIDE DEF a, b, r, n
<1>6. r \in Seq(S) /\ Len(r) = n - 1
  <2>1. r \in Seq(S) /\ Len(r) = Len(a) + Len(b)
    BY <1>3, <1>4, <1>5, ConcatProperties
  <2>2. QED
    BY <1>1, <1>3, <1>4, <2>1
<1>7. \A k \in 1 .. n - 1 : r[k] = q[Position(k, i)]
  <2>. TAKE k \in 1 .. n - 1
  <2>1. r[k] = IF k <= i - 1 THEN a[k] ELSE b[k - (i - 1)]
    BY <1>1, <1>3, <1>4, <1>5, ConcatProperties
  <2>2. CASE k < i
    BY <1>1, <1>3, <2>1, <2>2 DEF Position
  <2>3. CASE k >= i
    <3>1. k - (i - 1) \in 1 .. n - i /\ i + (k - (i - 1)) = k + 1
      BY <1>1, <2>3
    <3>2. ~(k < i) /\ ~(k <= i - 1)
      BY <1>1, <2>3
    <3>3. QED
      BY <1>4, <2>1, <3>1, <3>2 DEF Position
  <2>4. QED
    BY <1>1, <2>2, <2>3
<1>8. /\ \A k \in 1 .. n - 1 : Position(k, i) \in 1 .. n /\ Position(k, i) # i
      /\ \A j, k \in 1 .. n - 1 : Position(j, i) = Position(k, i) => j = k
  BY <1>1 DEF Position
<1>9. QED
  BY <1>1, <1>6, <1>7, <1>8 DEF r, n

\* The elements of a sequence after Append, and after an element is put in front of it.
LEMMA AppendElements ==
  ASSUME NEW S, NEW q \in Seq(S), NEW e \in S
  PROVE  /\ Append(q, e) \in Seq(S) /\ Len(Append(q, e)) = Len(q) + 1
         /\ DOMAIN Append(q, e) = 1 .. Len(q) + 1
         /\ Append(q, e)[Len(q) + 1] = e
         /\ \A k \in 1 .. Len(q) : Append(q, e)[k] = q[k]
<1>1. Append(q, e) \in Seq(S)
  OBVIOUS
<1>2. Len(q) \in Nat /\ Len(Append(q, e)) = Len(q) + 1
  BY LenProperties
<1>3. Append(q, e)[Len(q) + 1] = e /\ \A k \in 1 .. Len(q) : Append(q, e)[k] = q[k]
  OBVIOUS
<1>4. DOMAIN Append(q, e) = 1 .. Len(q) + 1
  BY <1>1, <1>2, LenProperties
<1>5. QED
  BY <1>1, <1>2, <1>3, <1>4

(***************************************************************************)
(* The inductive invariant: until the limiter is disturbed there is one    *)
(* chain, only its head sleeps, and what is in the bucket plus what flows  *)
(* in until it wakes is worth a token, so tryConsume() cannot fail.        *)
(***************************************************************************)
Distinct(s) == \A i, j \in DOMAIN s : s[i] = s[j] => i = j

ChainInv ==
  /\ order \in Seq(Calls) /\ Distinct(order)
  /\ chains = <<order>>
  /\ \A c \in Sleeping : order # <<>> /\ c = order[1]

BucketTypeOK == tokens \in 0 .. Capacity /\ sinceRefill \in 0 .. Interval

SleepInv ==
  /\ Sleeping \subseteq Calls /\ wakeIn \in [Sleeping -> 0 .. Interval]
  /\ \A c \in Sleeping : tokens + Limit * (sinceRefill + wakeIn[c]) >= Interval

WindowInv ==
  /\ window \in [open : BOOLEAN, length : 0 .. MaxWindow, grants : Nat]
  /\ window.open => window.grants * Interval + Available <= Capacity + Limit * window.length

Core == ChainInv /\ BucketTypeOK /\ SleepInv /\ WindowInv

LEMMA InitCore == Init => Core
<1>. SUFFICES ASSUME Init PROVE Core
  OBVIOUS
<1>1. <<>> \in Seq(Calls) /\ DOMAIN <<>> = {}
  BY EmptySeq
<1>2. Sleeping = {}
  BY DEF Init, Sleeping
<1>3. ChainInv
  BY <1>1, <1>2 DEF Init, ChainInv, Distinct
<1>4. BucketTypeOK
  BY CapacityCovers, LimiterAssumption DEF Init, BucketTypeOK
<1>5. SleepInv
  BY <1>2 DEF Init, SleepInv, Sleeping
<1>6. WindowInv
  BY WindowAssumption DEF Init, WindowInv, Idle
<1>7. QED
  BY <1>3, <1>4, <1>5, <1>6 DEF Core

\* What the call at the head of the only chain leaves behind.
LEMMA GrantedHead ==
  ASSUME ChainInv, NEW c \in Calls, NEW k \in DOMAIN chains, IsHead(k, c), Granted(k, c)
  PROVE  /\ order # <<>> /\ order[1] = c /\ order' = Tail(order)
         /\ Sleeping' = {}
         /\ ChainInv'
<1>1. k = 1 /\ chains[k] = order
  BY DEF ChainInv
<1>2. order # <<>> /\ Head(order) = c
  BY <1>1 DEF IsHead
<1>3. Len(order) \in Nat /\ Len(order) >= 1 /\ DOMAIN order = 1 .. Len(order)
  BY <1>2, EmptySeq, LenProperties DEF ChainInv
<1>4. order[1] = c
  BY <1>2
<1>5. order' = Tail(order) /\ Tail(order) \in Seq(Calls)
  <2>1. PICK i \in DOMAIN order : order[i] = c /\ order' = RemoveAt(order, i)
    BY DEF Granted
  <2>2. i = 1
    BY <1>3, <1>4, <2>1 DEF ChainInv, Distinct
  <2>3. QED
    BY <1>2, <2>1, <2>2, RemoveAtFront DEF ChainInv
<1>6. Len(Tail(order)) = Len(order) - 1
      /\ \A i \in 1 .. Len(Tail(order)) : Tail(order)[i] = order[i+1]
  BY <1>2, HeadTailProperties DEF ChainInv
<1>7. Distinct(Tail(order))
  <2>. DEFINE t == Tail(order)
  <2>1. DOMAIN t = 1 .. Len(order) - 1
    BY <1>5, <1>6, LenProperties
  <2>. SUFFICES ASSUME NEW i \in DOMAIN t, NEW j \in DOMAIN t, t[i] = t[j]
                PROVE  i = j
    BY DEF Distinct
  <2>. HIDE DEF t
  <2>2. i \in 1 .. Len(order) - 1 /\ j \in 1 .. Len(order) - 1
    BY <2>1
  <2>3. order[i+1] = order[j+1] /\ i+1 \in DOMAIN order /\ j+1 \in DOMAIN order
    BY <1>3, <1>6, <2>2 DEF t
  <2>4. i+1 = j+1
    BY <2>3 DEF ChainInv, Distinct
  <2>5. QED
    BY <2>2, <2>4
<1>8. chains' = <<Tail(order)>>
  BY <1>1 DEF Granted, ChainInv
<1>9. Sleeping' = {}
  <2>1. Sleeping' = Sleeping \ {c}
    BY DEF Granted, Sleeping
  <2>2. QED
    BY <1>4, <2>1 DEF ChainInv
<1>10. QED
  BY <1>2, <1>4, <1>5, <1>7, <1>8, <1>9 DEF ChainInv

\* A paid grant takes Interval units out of what the window may still use.
LEMMA PaidGrant ==
  ASSUME BucketTypeOK, WindowInv, TryConsume(TRUE), Counted
  PROVE  BucketTypeOK' /\ WindowInv'
<1>1. Available \in 0 .. Capacity /\ Available >= Interval
      /\ tokens' = Available - Interval /\ sinceRefill' = 0
  BY AvailableType DEF BucketTypeOK, TryConsume
<1>2. BucketTypeOK'
  BY <1>1, CapacityCovers, LimiterAssumption DEF BucketTypeOK, Capacity
<1>3. Available' = Available - Interval
  BY <1>1, CapacityCovers, LimiterAssumption DEF Available, Capacity
<1>4. CASE ~window.open
  BY <1>2, <1>4 DEF Counted, WindowInv
<1>5. CASE window.open
  <2>1. /\ window' \in [open : BOOLEAN, length : 0 .. MaxWindow, grants : Nat]
        /\ window'.length = window.length /\ window'.grants = window.grants + 1
    BY <1>5 DEF Counted, WindowInv
  <2>2. window'.grants * Interval = window.grants * Interval + Interval
        /\ window.grants * Interval \in Nat /\ Limit * window.length \in Nat
    BY <2>1, Products, LimiterAssumption, WindowAssumption DEF WindowInv
  <2>3. window.grants * Interval + Available <= Capacity + Limit * window.length
    BY <1>5 DEF WindowInv
  <2>4. window'.grants * Interval + Available' <= Capacity + Limit * window'.length
    BY <1>1, <1>3, <2>1, <2>2, <2>3, CapacityCovers, LimiterAssumption
  <2>5. QED
    BY <1>2, <2>1, <2>4 DEF WindowInv
<1>6. QED
  BY <1>4, <1>5

\* Every call that leaves the limiter, at once or after a sleep.
LEMMA LeaveCore ==
  ASSUME Core, NEW c \in Calls, NEW k \in DOMAIN chains, IsHead(k, c),
         TryConsume(TRUE), Granted(k, c), Counted
  PROVE  Core'
<1>1. Sleeping' = {} /\ ChainInv'
  BY GrantedHead DEF Core
<1>2. BucketTypeOK' /\ WindowInv'
  BY PaidGrant DEF Core
<1>3. wakeIn' = [d \in Sleeping' |-> wakeIn[d]]
  BY DEF Granted, Sleeping
<1>4. SleepInv'
  BY <1>1, <1>3 DEF SleepInv
<1>5. QED
  BY <1>1, <1>2, <1>4 DEF Core

\* The sleeper finds its token when it wakes: nobody else can have taken it.
LEMMA WakePaid ==
  ASSUME Core, NEW c \in Sleeping, wakeIn[c] = 0
  PROVE  Available >= Interval
<1>1. tokens + Limit * (sinceRefill + wakeIn[c]) >= Interval
  BY DEF Core, SleepInv
<1>2. sinceRefill + wakeIn[c] = sinceRefill
  BY DEF Core, BucketTypeOK
<1>3. QED
  BY <1>1, <1>2, CapacityCovers DEF Available

LEMMA WakeCore ==
  ASSUME Core, NEW c \in Calls, NEW k \in DOMAIN chains, Wake(k, c)
  PROVE  Core' /\ TryConsume(TRUE)
<1>1. Available >= Interval
  BY WakePaid DEF Wake
<1>2. TryConsume(TRUE)
  BY <1>1 DEF Wake, TryConsume
<1>3. QED
  BY <1>2, LeaveCore DEF Wake

LEMMA SleepCore ==
  ASSUME Core, NEW c \in Calls, NEW k \in DOMAIN chains, Sleep(k, c)
  PROVE  Core'
<1>1. PICK w \in 1 .. Interval :
        TimeToWait(w) /\ wakeIn' = [d \in Sleeping \cup {c} |-> IF d = c THEN w ELSE wakeIn[d]]
  BY DEF Sleep
<1>2. c \notin Sleeping /\ chains[k] = order /\ order # <<>> /\ order[1] = c
  BY DEF Sleep, CanBegin, IsHead, Core, ChainInv
<1>3. Sleeping = {} /\ Sleeping' = {c}
  BY <1>1, <1>2 DEF Core, ChainInv, Sleeping
<1>4. Available \in 0 .. Capacity /\ tokens' = Available /\ sinceRefill' = 0
  BY AvailableType DEF Sleep, Core, BucketTypeOK
<1>5. ChainInv'
  BY <1>2, <1>3 DEF Sleep, Core, ChainInv
<1>6. BucketTypeOK'
  BY <1>4, LimiterAssumption DEF BucketTypeOK, Capacity
<1>7. SleepInv'
  <2>1. wakeIn' \in [Sleeping' -> 0 .. Interval] /\ wakeIn'[c] = w
    BY <1>1, <1>3, LimiterAssumption
  <2>2. tokens' + Limit * (sinceRefill' + wakeIn'[c]) >= Interval
    <3>1. sinceRefill' + wakeIn'[c] = w
      BY <1>4, <2>1
    <3>2. Limit * w >= Interval - Available /\ Limit * w \in Nat
      BY <1>1, Products, LimiterAssumption DEF TimeToWait
    <3>3. QED
      BY <1>4, <3>1, <3>2, CapacityCovers, LimiterAssumption
  <2>3. QED
    BY <1>3, <2>1, <2>2 DEF SleepInv
<1>8. WindowInv'
  <2>1. Available' = Available
    BY <1>4, CapacityCovers, LimiterAssumption DEF Available, Capacity
  <2>2. QED
    BY <2>1 DEF Sleep, Core, WindowInv, Capacity
<1>9. QED
  BY <1>5, <1>6, <1>7, <1>8 DEF Core

LEMMA WaitForTokenCore ==
  ASSUME Core, NEW c \in Calls, WaitForToken(c)
  PROVE  Core'
<1>1. order' = Append(order, c) /\ chains' = <<order'>>
      /\ UNCHANGED <<tokens, sinceRefill, wakeIn, window>>
  BY DEF WaitForToken, Core, ChainInv, bucket
<1>2. Len(order) \in Nat /\ DOMAIN order = 1 .. Len(order)
  BY LenProperties DEF Core, ChainInv
<1>3. /\ order' \in Seq(Calls) /\ DOMAIN order' = 1 .. Len(order) + 1
      /\ \A i \in 1 .. Len(order) : order'[i] = order[i]
      /\ order'[Len(order) + 1] = c
  BY <1>1, <1>2 DEF Core, ChainInv
<1>4. Distinct(order')
  <2>. SUFFICES ASSUME NEW i \in 1 .. Len(order) + 1, NEW j \in 1 .. Len(order) + 1,
                       order'[i] = order'[j]
                PROVE  i = j
    BY <1>3 DEF Distinct
  <2>1. \A m \in 1 .. Len(order) : order[m] # c
    BY <1>2 DEF WaitForToken
  <2>2. CASE i = Len(order) + 1 \/ j = Len(order) + 1
    BY <1>2, <1>3, <2>1, <2>2
  <2>3. CASE i \in 1 .. Len(order) /\ j \in 1 .. Len(order)
    BY <1>2, <1>3, <2>3 DEF Core, ChainInv, Distinct
  <2>4. QED
    BY <1>2, <2>2, <2>3
<1>5. \A d \in Sleeping' : order' # <<>> /\ d = order'[1]
  <2>. SUFFICES ASSUME NEW d \in Sleeping PROVE order' # <<>> /\ d = order'[1]
    BY <1>1 DEF Sleeping
  <2>1. order # <<>> /\ d = order[1]
    BY DEF Core, ChainInv
  <2>2. 1 \in 1 .. Len(order)
    BY <1>2, <2>1, EmptySeq DEF Core, ChainInv
  <2>3. order'[1] = order[1] /\ order' # <<>>
    BY <1>2, <1>3, <2>2
  <2>4. QED
    BY <2>1, <2>3
<1>6. ChainInv'
  BY <1>1, <1>3, <1>4, <1>5 DEF ChainInv
<1>7. QED
  BY <1>1, <1>6 DEF Core, BucketTypeOK, SleepInv, Sleeping, WindowInv, Available, Capacity

LEMMA TickCore ==
  ASSUME Core, Tick
  PROVE  Core'
<1>1. UNCHANGED <<tokens, chains, order>> /\ Sleeping' = Sleeping
  BY DEF Tick, Sleeping
<1>2. ChainInv'
  BY <1>1 DEF Core, ChainInv
<1>3. BucketTypeOK'
  BY <1>1, LimiterAssumption DEF Tick, Core, BucketTypeOK, Capacity
<1>4. SleepInv'
  <2>1. wakeIn' \in [Sleeping' -> 0 .. Interval]
    BY <1>1, LimiterAssumption DEF Tick, Core, SleepInv
  <2>2. ASSUME NEW c \in Sleeping
        PROVE  tokens' + Limit * (sinceRefill' + wakeIn'[c]) >= Interval
    <3> DEFINE m == sinceRefill + wakeIn[c]
               n == sinceRefill' + wakeIn'[c]
    <3>1. /\ wakeIn[c] \in 0 .. Interval /\ sinceRefill \in 0 .. Interval
          /\ tokens \in Nat /\ tokens' = tokens
          /\ wakeIn'[c] = IF wakeIn[c] > 0 THEN wakeIn[c] - 1 ELSE 0
          /\ sinceRefill' = IF sinceRefill < Interval THEN sinceRefill + 1 ELSE Interval
      BY CapacityCovers DEF Tick, Core, SleepInv, BucketTypeOK
    <3>2. m \in Nat /\ n \in Nat /\ (n >= m \/ n >= Interval)
      BY <3>1, LimiterAssumption
    <3>3. tokens + Limit * m >= Interval
      BY DEF Core, SleepInv
    <3>. HIDE DEF m, n
    <3>4. CASE n >= m
      BY <3>1, <3>2, <3>3, <3>4, Products, LimiterAssumption DEF n
    <3>5. CASE n >= Interval
      BY <3>1, <3>2, <3>5, Products, LimiterAssumption DEF n
    <3>6. QED
      BY <3>2, <3>4, <3>5
  <2>3. QED
    BY <1>1, <2>1, <2>2 DEF Core, SleepInv
<1>5. WindowInv'
  <2>1. Available \in 0 .. Capacity /\ Available' \in 0 .. Capacity
    <3>1. Limit * sinceRefill' \in Nat /\ Limit * sinceRefill \in Nat
      <4>1. sinceRefill \in Nat /\ sinceRefill' \in Nat
        BY <1>3, LimiterAssumption DEF Core, BucketTypeOK
      <4>2. QED
        BY <4>1, Products, LimiterAssumption
    <3>2. QED
      BY <1>3, <3>1, CapacityCovers DEF Core, BucketTypeOK, Available, Capacity
  <2>2. Available' <= Available + Limit
    <3>1. CASE sinceRefill < Interval
      <4>1. sinceRefill' = sinceRefill + 1 /\ Limit * (sinceRefill + 1) = Limit * sinceRefill + Limit
        BY <3>1, Products, LimiterAssumption DEF Tick, Core, BucketTypeOK
      <4>2. QED
        BY <1>1, <4>1, Products, CapacityCovers, LimiterAssumption
           DEF Available, Capacity, Core, BucketTypeOK
    <3>2. CASE ~(sinceRefill < Interval)
      <4>1. sinceRefill' = sinceRefill
        BY <3>2, LimiterAssumption DEF Tick, Core, BucketTypeOK
      <4>2. QED
        BY <1>1, <2>1, <4>1, LimiterAssumption DEF Available, Capacity
    <3>3. QED
      BY <3>1, <3>2
  <2>3. CASE ~window.open
    BY <2>3 DEF Tick, Core, WindowInv
  <2>4. CASE window.open /\ window.length < MaxWindow
    <3>1. /\ window' \in [open : BOOLEAN, length : 0 .. MaxWindow, grants : Nat]
          /\ window'.length = window.length + 1 /\ window'.grants = window.grants
      BY <2>4, WindowAssumption DEF Tick, Core, WindowInv
    <3>2. Limit * window'.length = Limit * window.length + Limit
          /\ Limit * window.length \in Nat /\ window.grants * Interval \in Nat
      <4>1. window.length \in Nat /\ window.grants \in Nat /\ window'.length = window.length + 1
        BY <3>1, WindowAssumption DEF Core, WindowInv
      <4>2. QED
        BY <4>1, Products, LimiterAssumption
    <3>3. window.grants * Interval + Available <= Capacity + Limit * window.length
      BY <2>4 DEF Core, WindowInv
    <3>4. window'.grants * Interval + Available' <= Capacity + Limit * window'.length
      BY <2>1, <2>2, <3>1, <3>2, <3>3, CapacityCovers, LimiterAssumption
    <3>5. QED
      BY <3>1, <3>4 DEF WindowInv, Capacity
  <2>5. CASE window.open /\ ~(window.length < MaxWindow)
    BY <2>5, WindowAssumption DEF Tick, WindowInv, Idle
  <2>6. QED
    BY <2>3, <2>4, <2>5
<1>6. QED
  BY <1>2, <1>3, <1>4, <1>5 DEF Core

LEMMA ObserveCore ==
  ASSUME Core, Observe \/ UNCHANGED vars
  PROVE  Core'
<1>1. UNCHANGED <<tokens, sinceRefill, chains, wakeIn, order>>
  BY DEF Observe, vars, bucket
<1>2. WindowInv'
  <2>1. CASE Observe
    <3>1. /\ window' \in [open : BOOLEAN, length : 0 .. MaxWindow, grants : Nat]
          /\ window'.length = 0 /\ window'.grants = 0
      <4>1. window' = [open |-> TRUE, length |-> 0, grants |-> 0]
        BY <2>1 DEF Observe, Idle
      <4>2. QED
        BY <4>1, WindowAssumption
    <3>2. Limit * 0 = 0 /\ 0 * Interval = 0
      BY LimiterAssumption
    <3>3. Available' <= Capacity
      BY <1>1, AvailableType, CapacityCovers DEF Core, BucketTypeOK, Available, Capacity
    <3>4. Available' \in 0 .. Capacity
      BY <1>1, AvailableType DEF Core, BucketTypeOK, Available, Capacity
    <3>5. QED
      BY <3>1, <3>2, <3>3, <3>4, CapacityCovers DEF WindowInv, Capacity
  <2>2. CASE UNCHANGED vars
    BY <1>1, <2>2 DEF vars, Core, WindowInv, Available, Capacity
  <2>3. QED
    BY <2>1, <2>2
<1>3. QED
  BY <1>1, <1>2 DEF Core, ChainInv, BucketTypeOK, SleepInv, Sleeping, Capacity

\* tryConsume() called directly while no call waits is one more grant.
LEMMA ConsumeDirectlyCore ==
  ASSUME Core, ConsumeDirectly, order = <<>>
  PROVE  Core'
<1>1. Sleeping = {} /\ UNCHANGED <<chains, wakeIn, order>>
  BY DEF Core, ChainInv, ConsumeDirectly
<1>2. ChainInv' /\ SleepInv'
  BY <1>1 DEF Core, ChainInv, SleepInv, Sleeping
<1>3. CASE TryConsume(TRUE) /\ Counted
  BY <1>2, <1>3, PaidGrant DEF Core
<1>4. CASE TryConsume(FALSE) /\ UNCHANGED window
  <2>1. Available \in 0 .. Capacity /\ tokens' = Available /\ sinceRefill' = 0
    BY <1>4, AvailableType DEF TryConsume, Core, BucketTypeOK
  <2>2. BucketTypeOK'
    BY <2>1, LimiterAssumption DEF BucketTypeOK, Capacity
  <2>3. Available' = Available
    BY <2>1, CapacityCovers, LimiterAssumption DEF Available, Capacity
  <2>4. WindowInv'
    BY <1>4, <2>3 DEF Core, WindowInv, Capacity
  <2>5. QED
    BY <1>2, <2>2, <2>4 DEF Core
<1>5. QED
  BY <1>3, <1>4 DEF ConsumeDirectly

\* reset() while no call waits fills the bucket.
LEMMA ResetCore ==
  ASSUME Core, Reset, order = <<>>
  PROVE  Core'
<1>1. Sleeping = {} /\ UNCHANGED <<chains, wakeIn, order>>
  BY DEF Core, ChainInv, Reset
<1>2. ChainInv' /\ SleepInv'
  BY <1>1 DEF Core, ChainInv, SleepInv, Sleeping
<1>3. BucketTypeOK'
  BY CapacityCovers, LimiterAssumption DEF Reset, BucketTypeOK, Capacity
<1>4. WindowInv'
  BY WindowAssumption DEF Reset, WindowInv, Idle
<1>5. QED
  BY <1>2, <1>3, <1>4 DEF Core

\* What has disturbed the limiter once has disturbed it for good.
LEMMA Undisturbed ==
  ASSUME [Next]_vars, disturbed \in BOOLEAN, ~disturbed'
  PROVE  ~disturbed /\ (ConsumeDirectly \/ Reset => order = <<>>)
<1>1. CASE ConsumeDirectly \/ Reset
  BY <1>1 DEF ConsumeDirectly, Reset
<1>2. CASE ~(ConsumeDirectly \/ Reset)
  <2>1. disturbed' = disturbed
    BY <1>2 DEF Next, vars, WaitForToken, Acquire, AcquireNow, Sleep, Wake, Tick, Observe
  <2>2. QED
    BY <1>2, <2>1
<1>3. QED
  BY <1>1, <1>2

IInv == disturbed \in BOOLEAN /\ (~disturbed => Core)

LEMMA NextIInv == IInv /\ [Next]_vars => IInv'
<1>. SUFFICES ASSUME IInv, [Next]_vars PROVE IInv'
  OBVIOUS
<1>1. disturbed' \in BOOLEAN
  BY DEF IInv, Next, vars, WaitForToken, Acquire, AcquireNow, Sleep, Wake, Tick, Observe,
         ConsumeDirectly, Reset
<1>2. ASSUME ~disturbed' PROVE Core'
  <2>1. Core /\ (ConsumeDirectly \/ Reset => order = <<>>)
    BY <1>2, Undisturbed DEF IInv
  <2>2. ASSUME NEW c \in Calls, NEW k \in DOMAIN chains,
               AcquireNow(k, c) \/ Sleep(k, c) \/ Wake(k, c)
        PROVE  Core'
    BY <2>1, <2>2, LeaveCore, SleepCore, WakeCore DEF AcquireNow, CanBegin
  <2>3. QED
    BY <2>1, <2>2, WaitForTokenCore, ConsumeDirectlyCore, ResetCore, TickCore, ObserveCore
       DEF Next, Acquire
<1>3. QED
  BY <1>1, <1>2 DEF IInv

THEOREM Invariance == Spec => []IInv
<1>1. Init => IInv
  BY InitCore DEF IInv, Init
<1>2. QED
  BY <1>1, NextIInv, PTL DEF Spec

\* Over any window of time the calls let through are covered by a full bucket and
\* the rate, until tryConsume() or reset() is called over pending calls.
THEOREM RateHolds == Spec => []RateRespected
<1>1. IInv => RateRespected
  <2>. SUFFICES ASSUME Core, window.open
                PROVE  window.grants * Interval <= Capacity + Limit * window.length
    BY DEF RateRespected, IInv
  <2>1. window.grants * Interval + Available <= Capacity + Limit * window.length
    BY DEF Core, WindowInv
  <2>2. Available \in Nat
    BY AvailableType DEF Core, BucketTypeOK
  <2>3. window.grants * Interval \in Nat /\ Limit * window.length \in Nat
    BY Products, LimiterAssumption, WindowAssumption DEF Core, WindowInv
  <2>4. QED
    BY <2>1, <2>2, <2>3, CapacityCovers
<1>2. QED
  BY <1>1, Invariance, PTL

\* ... and each of them gets a token of its own, in the order of the calls.
THEOREM EachCallPaysInOrder == Spec => TokenPerCallInOrder
<1> DEFINE Waiting(o, c) == \E i \in DOMAIN o : o[i] = c
           Pays(c) == ~disturbed /\ Waiting(order, c) /\ ~Waiting(order', c) =>
                        order[1] = c /\ Available >= Interval /\ tokens' = Available - Interval
<1>1. IInv /\ [Next]_vars => [\A c \in Calls : Pays(c)]_vars
  <2>. SUFFICES ASSUME Core, [Next]_vars, NEW c \in Calls,
                       Waiting(order, c), ~Waiting(order', c)
                PROVE  order[1] = c /\ Available >= Interval /\ tokens' = Available - Interval
    BY DEF IInv
  <2>1. ASSUME NEW d \in Calls, NEW k \in DOMAIN chains, IsHead(k, d), Granted(k, d),
               TryConsume(TRUE)
        PROVE  order[1] = c /\ Available >= Interval /\ tokens' = Available - Interval
    <3>1. order # <<>> /\ order[1] = d /\ order' = Tail(order)
      BY <2>1, GrantedHead DEF Core
    <3>2. d = c
      <4>1. PICK i \in DOMAIN order : order[i] = c
        OBVIOUS
      <4>2. /\ DOMAIN order = 1 .. Len(order) /\ Len(order) \in Nat
            /\ DOMAIN order' = 1 .. Len(order) - 1
            /\ \A j \in 1 .. Len(order) - 1 : order'[j] = order[j+1]
        BY <3>1, HeadTailProperties, LenProperties DEF Core, ChainInv
      <4>3. CASE i = 1
        BY <3>1, <4>1, <4>3
      <4>4. CASE i # 1
        <5>1. i-1 \in 1 .. Len(order) - 1 /\ (i-1)+1 = i
          BY <4>1, <4>2, <4>4
        <5>2. i-1 \in DOMAIN order' /\ order'[i-1] = c
          BY <4>1, <4>2, <5>1
        <5>3. QED
          BY <5>2
      <4>5. QED
        BY <4>3, <4>4
    <3>3. QED
      BY <2>1, <3>1, <3>2 DEF TryConsume
  <2>2. ASSUME NEW d \in Calls, NEW k \in DOMAIN chains, AcquireNow(k, d) \/ Wake(k, d)
        PROVE  order[1] = c /\ Available >= Interval /\ tokens' = Available - Interval
    BY <2>1, <2>2, WakeCore DEF AcquireNow, CanBegin, Wake
  <2>3. ASSUME NEW d \in Calls, WaitForToken(d) PROVE FALSE
    <3>1. order \in Seq(Calls) /\ order' = Append(order, d)
      BY <2>3 DEF WaitForToken, Core, ChainInv
    <3>2. PICK i \in DOMAIN order : order[i] = c
      OBVIOUS
    <3>3. i \in DOMAIN order' /\ order'[i] = c
      BY <3>1, <3>2
    <3>4. QED
      BY <3>3
  <2>4. ASSUME order' = order PROVE FALSE
    BY <2>4
  <2>5. ASSUME NEW d \in Calls, NEW k \in DOMAIN chains, Sleep(k, d) PROVE order' = order
    BY <2>5 DEF Sleep
  <2>6. CASE ConsumeDirectly \/ Reset \/ Tick \/ Observe \/ UNCHANGED vars
    BY <2>4, <2>6 DEF ConsumeDirectly, Reset, Tick, Observe, vars
  <2>7. QED
    BY <2>2, <2>3, <2>4, <2>5, <2>6 DEF Next, Acquire
<1>2. Spec => [][\A c \in Calls : Pays(c)]_vars
  BY <1>1, Invariance, PTL DEF Spec
<1>3. QED
  BY <1>2 DEF TokenPerCallInOrder

-----------------------------------------------------------------------------
(***************************************************************************)
(* Disturbed or not, every variable keeps its type, and whoever waits has  *)
(* one place in one chain.                                                 *)
(***************************************************************************)
OnePlace ==
  \A k, l \in DOMAIN chains : \A i \in DOMAIN chains[k], j \in DOMAIN chains[l] :
    chains[k][i] = chains[l][j] => k = l /\ i = j

InChains(c) == \E k \in DOMAIN chains : \E i \in DOMAIN chains[k] : chains[k][i] = c
InOrder(c) == \E i \in DOMAIN order : order[i] = c

ChainsHoldPending == \A c \in Calls : InChains(c) <=> InOrder(c)

HeadsSleep == \A c \in Sleeping : \E k \in DOMAIN chains : IsHead(k, c)

ChainedInv == TypeOK /\ Distinct(order) /\ OnePlace /\ ChainsHoldPending /\ HeadsSleep

LEMMA ChainFacts ==
  ASSUME TypeOK
  PROVE  /\ Len(chains) \in Nat /\ Len(chains) >= 1 /\ DOMAIN chains = 1 .. Len(chains)
         /\ \A k \in DOMAIN chains :
              /\ chains[k] \in Seq(Calls) /\ Len(chains[k]) \in Nat
              /\ DOMAIN chains[k] = 1 .. Len(chains[k])
              /\ \A i \in DOMAIN chains[k] : chains[k][i] \in Calls
              /\ chains[k] = <<>> <=> Len(chains[k]) = 0
         /\ Len(order) \in Nat /\ DOMAIN order = 1 .. Len(order)
         /\ \A i \in DOMAIN order : order[i] \in Calls
<1>1. chains \in Seq(Seq(Calls)) /\ chains # <<>> /\ order \in Seq(Calls)
  BY DEF TypeOK
<1>2. Len(chains) \in Nat /\ Len(chains) >= 1 /\ DOMAIN chains = 1 .. Len(chains)
  BY <1>1, LenProperties, EmptySeq
<1>3. \A k \in DOMAIN chains : chains[k] \in Seq(Calls)
  BY <1>1, <1>2, ElementOfSeq
<1>4. ASSUME NEW s \in Seq(Calls)
      PROVE  /\ Len(s) \in Nat /\ DOMAIN s = 1 .. Len(s)
             /\ \A i \in DOMAIN s : s[i] \in Calls
             /\ s = <<>> <=> Len(s) = 0
  BY LenProperties, ElementOfSeq, EmptySeq
<1>5. QED
  BY <1>1, <1>2, <1>3, <1>4

\* The invariant says what the property does.
LEMMA ChainedMeans == ChainedInv => PendingCallsChained
<1>. SUFFICES ASSUME ChainedInv PROVE PendingCallsChained
  OBVIOUS
<1>1. UNION {ToSet(chains[k]) : k \in DOMAIN chains} = ToSet(order)
  <2>1. /\ \A k \in DOMAIN chains : \A i \in DOMAIN chains[k] : chains[k][i] \in Calls
        /\ \A i \in DOMAIN order : order[i] \in Calls
    BY ChainFacts DEF ChainedInv
  <2>2. ASSUME NEW c, \E k \in DOMAIN chains : c \in ToSet(chains[k])
        PROVE  c \in ToSet(order)
    BY <2>1, <2>2 DEF ChainedInv, ChainsHoldPending, InChains, InOrder, ToSet
  <2>3. ASSUME NEW c \in ToSet(order)
        PROVE  \E k \in DOMAIN chains : c \in ToSet(chains[k])
    BY <2>1, <2>3 DEF ChainedInv, ChainsHoldPending, InChains, InOrder, ToSet
  <2>4. QED
    BY <2>2, <2>3
<1>2. QED
  BY <1>1 DEF ChainedInv, OnePlace, HeadsSleep, PendingCallsChained

LEMMA InitChained == Init => ChainedInv
<1>. SUFFICES ASSUME Init PROVE ChainedInv
  OBVIOUS
<1>1. <<>> \in Seq(Calls) /\ DOMAIN <<>> = {}
  BY EmptySeq
<1>2. /\ chains = << <<>> >> /\ chains \in Seq(Seq(Calls)) /\ chains # <<>>
      /\ \A k \in DOMAIN chains : DOMAIN chains[k] = {}
  BY <1>1 DEF Init
<1>3. Sleeping = {} /\ wakeIn \in [Sleeping -> 0 .. Interval]
  BY DEF Init, Sleeping
<1>4. tokens \in 0 .. Capacity /\ sinceRefill \in 0 .. Interval
  BY CapacityCovers, LimiterAssumption DEF Init
<1>5. window \in [open : BOOLEAN, length : 0 .. MaxWindow, grants : Nat]
  BY WindowAssumption DEF Init, Idle
<1>6. TypeOK
  BY <1>1, <1>2, <1>3, <1>4, <1>5 DEF Init, TypeOK
<1>7. Distinct(order) /\ \A c \in Calls : ~InOrder(c)
  BY <1>1 DEF Init, Distinct, InOrder
<1>8. OnePlace /\ \A c \in Calls : ~InChains(c)
  BY <1>2 DEF OnePlace, InChains
<1>9. QED
  BY <1>3, <1>6, <1>7, <1>8 DEF ChainedInv, ChainsHoldPending, HeadsSleep

\* What a call of waitForToken() adds.
LEMMA WaitForTokenChained ==
  ASSUME ChainedInv, NEW c \in Calls, WaitForToken(c)
  PROVE  ChainedInv'
<1>. DEFINE n == Len(chains)
            q == chains[n]
            m == Len(q)
<1>1. /\ n \in Nat /\ n >= 1 /\ DOMAIN chains = 1 .. n /\ n \in DOMAIN chains
      /\ q \in Seq(Calls) /\ m \in Nat /\ DOMAIN q = 1 .. m
      /\ chains \in Seq(Seq(Calls)) /\ order \in Seq(Calls)
      /\ Len(order) \in Nat /\ DOMAIN order = 1 .. Len(order)
  BY ChainFacts DEF ChainedInv, TypeOK
<1>2. /\ chains' = [chains EXCEPT ![n] = Append(q, c)] /\ order' = Append(order, c)
      /\ UNCHANGED <<tokens, sinceRefill, wakeIn, window, disturbed>> /\ Sleeping' = Sleeping
      /\ ~InOrder(c) /\ ~InChains(c)
  BY DEF WaitForToken, bucket, Sleeping, ChainedInv, ChainsHoldPending, InOrder
<1>3. /\ Append(q, c) \in Seq(Calls) /\ DOMAIN Append(q, c) = 1 .. m + 1
      /\ Append(q, c)[m + 1] = c /\ \A i \in 1 .. m : Append(q, c)[i] = q[i]
  BY <1>1, AppendElements
<1>4. /\ order' \in Seq(Calls) /\ DOMAIN order' = 1 .. Len(order) + 1
      /\ order'[Len(order) + 1] = c /\ \A i \in 1 .. Len(order) : order'[i] = order[i]
  BY <1>1, <1>2, AppendElements
<1>. HIDE DEF n, q, m
<1>5. /\ chains' \in Seq(Seq(Calls)) /\ Len(chains') = n /\ DOMAIN chains' = DOMAIN chains
      /\ chains'[n] = Append(q, c) /\ \A k \in DOMAIN chains \ {n} : chains'[k] = chains[k]
  BY <1>1, <1>2, <1>3, ExceptSeq DEF n
<1>6. q = chains[n] /\ m + 1 \in 1 .. m + 1 /\ \A i \in 1 .. m + 1 : i \in 1 .. m \/ i = m + 1
  BY <1>1 DEF q
<1>7. ASSUME NEW k \in DOMAIN chains', NEW i \in DOMAIN chains'[k]
      PROVE  \/ i \in DOMAIN chains[k] /\ chains'[k][i] = chains[k][i]
             \/ k = n /\ i = m + 1 /\ chains'[k][i] = c
  BY <1>1, <1>3, <1>5, <1>6
<1>8. ASSUME NEW k \in DOMAIN chains, NEW i \in DOMAIN chains[k]
      PROVE  i \in DOMAIN chains'[k] /\ chains'[k][i] = chains[k][i]
  <2>1. CASE k # n
    BY <1>5, <2>1
  <2>2. CASE k = n
    <3>1. i \in 1 .. m /\ i \in 1 .. m + 1 /\ chains[k][i] = q[i]
      BY <1>1, <1>6, <2>2
    <3>2. QED
      BY <1>3, <1>5, <2>2, <3>1
  <2>3. QED
    BY <2>1, <2>2
<1>9. OnePlace'
  <2>. SUFFICES ASSUME NEW k \in DOMAIN chains', NEW l \in DOMAIN chains',
                       NEW i \in DOMAIN chains'[k], NEW j \in DOMAIN chains'[l],
                       chains'[k][i] = chains'[l][j]
                PROVE  k = l /\ i = j
    BY DEF OnePlace
  <2>1. k \in DOMAIN chains /\ l \in DOMAIN chains
    BY <1>5
  <2>2. ~(chains'[k][i] = c) => i \in DOMAIN chains[k] /\ chains'[k][i] = chains[k][i]
    BY <1>7
  <2>3. ~(chains'[l][j] = c) => j \in DOMAIN chains[l] /\ chains'[l][j] = chains[l][j]
    BY <1>7
  <2>4. CASE chains'[k][i] = c
    <3>1. k = n /\ i = m + 1
      BY <1>2, <1>7, <2>1, <2>4 DEF InChains
    <3>2. l = n /\ j = m + 1
      BY <1>2, <1>7, <2>1, <2>4 DEF InChains
    <3>3. QED
      BY <3>1, <3>2
  <2>5. CASE chains'[k][i] # c
    <3>1. /\ i \in DOMAIN chains[k] /\ j \in DOMAIN chains[l]
          /\ chains[k][i] = chains[l][j]
      BY <2>2, <2>3, <2>5
    <3>2. QED
      BY <2>1, <3>1 DEF ChainedInv, OnePlace
  <2>6. QED
    BY <2>4, <2>5
<1>10. \A d \in Calls : InChains(d)' <=> InChains(d) \/ d = c
  <2>1. ASSUME NEW d \in Calls, InChains(d)' PROVE InChains(d) \/ d = c
    BY <1>5, <1>7, <2>1 DEF InChains
  <2>2. ASSUME NEW d \in Calls, InChains(d) PROVE InChains(d)'
    BY <1>5, <1>8, <2>2 DEF InChains
  <2>3. InChains(c)'
    BY <1>1, <1>3, <1>5, <1>6 DEF InChains
  <2>4. QED
    BY <2>1, <2>2, <2>3
<1>11. \A i \in 1 .. Len(order) + 1 : i \in 1 .. Len(order) \/ i = Len(order) + 1
  BY <1>1
<1>12. Distinct(order')
  BY <1>1, <1>2, <1>4, <1>11 DEF Distinct, ChainedInv, InOrder
<1>13. \A d \in Calls : InOrder(d)' <=> InOrder(d) \/ d = c
  <2>1. Len(order) + 1 \in DOMAIN order' /\ \A i \in DOMAIN order : i \in DOMAIN order'
    BY <1>1, <1>4
  <2>2. QED
    BY <1>1, <1>4, <1>11, <2>1 DEF InOrder
<1>14. HeadsSleep'
  <2>. SUFFICES ASSUME NEW d \in Sleeping PROVE \E k \in DOMAIN chains' : IsHead(k, d)'
    BY <1>2 DEF HeadsSleep
  <2>1. PICK k \in DOMAIN chains : chains[k] # <<>> /\ Head(chains[k]) = d
    BY DEF ChainedInv, HeadsSleep, IsHead
  <2>2. 1 \in DOMAIN chains[k] /\ chains[k][1] = d
    BY <2>1, ChainFacts DEF ChainedInv
  <2>3. 1 \in DOMAIN chains'[k] /\ chains'[k][1] = d /\ k \in DOMAIN chains'
    BY <1>5, <1>8, <2>2
  <2>4. chains'[k] # <<>> /\ Head(chains'[k]) = d
    BY <2>3, EmptySeq
  <2>5. QED
    BY <2>3, <2>4 DEF IsHead
<1>15. TypeOK'
  <2>1. chains' # <<>>
    BY <1>1, <1>5, EmptySeq
  <2>2. QED
    BY <1>2, <1>4, <1>5, <2>1 DEF ChainedInv, TypeOK, Capacity
<1>16. QED
  BY <1>9, <1>10, <1>12, <1>13, <1>14, <1>15 DEF ChainedInv, ChainsHoldPending

\* The chains after a call has left: chain k is one call shorter, or gone.
LEMMA ChainsAfter ==
  ASSUME ChainedInv, NEW c \in Calls, NEW k \in DOMAIN chains, IsHead(k, c), Granted(k, c)
  PROVE  /\ chains' \in Seq(Seq(Calls)) /\ chains' # <<>>
         /\ OnePlace'
         /\ \A d \in Calls : InChains(d)' <=> InChains(d) /\ d # c
         /\ \A l \in DOMAIN chains : l # k /\ chains[l] # <<>> =>
              \E r \in DOMAIN chains' : chains'[r] = chains[l]
<1>. DEFINE n == Len(chains)
            m == Len(chains[k])
<1>1. /\ n \in Nat /\ n >= 1 /\ DOMAIN chains = 1 .. n /\ k \in 1 .. n
      /\ chains \in Seq(Seq(Calls)) /\ chains[k] \in Seq(Calls)
      /\ chains[k] # <<>> /\ m \in Nat /\ m >= 1 /\ DOMAIN chains[k] = 1 .. m
  BY ChainFacts DEF ChainedInv, TypeOK, IsHead
<1>2. 1 \in DOMAIN chains[k] /\ chains[k][1] = c
  BY <1>1 DEF IsHead
<1>3. \A l \in DOMAIN chains : \A i \in DOMAIN chains[l] :
        chains[l][i] # c <=> ~(l = k /\ i = 1)
  BY <1>2 DEF ChainedInv, OnePlace
<1>4. CASE k < n /\ m = 1
  <2>1. /\ chains' \in Seq(Seq(Calls)) /\ Len(chains') = n - 1
        /\ \A l \in 1 .. n - 1 : /\ Position(l, k) \in DOMAIN chains \ {k}
                                 /\ chains'[l] = chains[Position(l, k)]
        /\ \A j, l \in 1 .. n - 1 : Position(j, k) = Position(l, k) => j = l
    <3>. DEFINE w == RemoveAt(chains, k)
    <3>1. /\ w \in Seq(Seq(Calls)) /\ Len(w) = n - 1
          /\ \A l \in 1 .. n - 1 : /\ Position(l, k) \in DOMAIN chains \ {k}
                                   /\ w[l] = chains[Position(l, k)]
          /\ \A j, l \in 1 .. n - 1 : Position(j, k) = Position(l, k) => j = l
      <4>. HIDE DEF w
      <4>. QED BY <1>1, RemoveAtElements DEF w
    <3>2. chains' = w
      BY <1>4 DEF Granted
    <3>. HIDE DEF w, n, m
    <3>3. QED
      BY <3>1, <3>2
  <2>. HIDE DEF n, m
  <2>2. DOMAIN chains' = 1 .. n - 1 /\ chains' # <<>>
    BY <1>1, <1>4, <2>1, LenProperties, EmptySeq
  <2>3. \A l \in DOMAIN chains \ {k} : \E r \in 1 .. n - 1 : Position(r, k) = l
    <3>. SUFFICES ASSUME NEW l \in DOMAIN chains \ {k}
                  PROVE  \E r \in 1 .. n - 1 : Position(r, k) = l
      OBVIOUS
    <3>1. CASE l < k
      <4>1. l \in 1 .. n - 1 /\ Position(l, k) = l
        BY <1>1, <3>1 DEF Position
      <4>2. QED
        BY <4>1
    <3>2. CASE l > k
      <4>1. l - 1 \in 1 .. n - 1 /\ Position(l - 1, k) = l
        BY <1>1, <3>2 DEF Position
      <4>2. QED
        BY <4>1
    <3>3. l < k \/ l > k
      BY <1>1
    <3>4. QED
      BY <3>1, <3>2, <3>3
  <2>4. OnePlace'
    BY <2>1, <2>2 DEF ChainedInv, OnePlace
  <2>5. ASSUME NEW d \in Calls, InChains(d)' PROVE InChains(d) /\ d # c
    <3>1. PICK l \in 1 .. n - 1 : \E i \in DOMAIN chains'[l] : chains'[l][i] = d
      BY <2>2, <2>5 DEF InChains
    <3>2. PICK i \in DOMAIN chains[Position(l, k)] : chains[Position(l, k)][i] = d
      BY <2>1, <3>1
    <3>3. QED
      BY <1>3, <2>1, <3>2 DEF InChains
  <2>6. ASSUME NEW d \in Calls, InChains(d), d # c PROVE InChains(d)'
    <3>1. PICK l \in DOMAIN chains : \E i \in DOMAIN chains[l] : chains[l][i] = d
      BY <2>6 DEF InChains
    <3>2. l # k
      BY <1>1, <1>2, <1>4, <2>6, <3>1
    <3>3. PICK r \in 1 .. n - 1 : Position(r, k) = l
      BY <2>3, <3>2
    <3>4. chains'[r] = chains[l] /\ r \in DOMAIN chains'
      BY <2>1, <2>2, <3>3
    <3>5. QED
      BY <3>1, <3>4 DEF InChains
  <2>7. \A l \in DOMAIN chains : l # k => \E r \in DOMAIN chains' : chains'[r] = chains[l]
    BY <2>1, <2>2, <2>3
  <2>8. QED
    BY <2>1, <2>2, <2>4, <2>5, <2>6, <2>7
<1>5. CASE ~(k < n /\ m = 1)
  <2>. DEFINE t == Tail(chains[k])
  <2>1. /\ t \in Seq(Calls) /\ Len(t) = m - 1 /\ \A i \in 1 .. Len(t) : t[i] = chains[k][i + 1]
    BY <1>1, HeadTailProperties
  <2>2. DOMAIN t = 1 .. m - 1 /\ chains' = [chains EXCEPT ![k] = t]
    BY <1>5, <2>1, LenProperties DEF Granted
  <2>. HIDE DEF n, m, t
  <2>3. /\ chains' \in Seq(Seq(Calls)) /\ DOMAIN chains' = DOMAIN chains /\ chains' # <<>>
        /\ chains'[k] = t /\ \A l \in DOMAIN chains \ {k} : chains'[l] = chains[l]
    <3>1. chains' \in Seq(Seq(Calls)) /\ Len(chains') = n
      BY <1>1, <2>1, <2>2, ExceptSeq DEF n
    <3>2. QED
      BY <1>1, <2>2, <3>1, EmptySeq
  <2>4. \A i \in DOMAIN t : /\ i + 1 \in DOMAIN chains[k] /\ t[i] = chains[k][i + 1]
                            /\ i + 1 # 1
    BY <1>1, <2>1, <2>2
  <2>5. \A i, j \in DOMAIN t : i + 1 = j + 1 => i = j
    BY <1>1, <2>2
  <2>6. \A i \in DOMAIN chains[k] \ {1} : i - 1 \in DOMAIN t /\ t[i - 1] = chains[k][i]
    <3>. SUFFICES ASSUME NEW i \in DOMAIN chains[k] \ {1}
                  PROVE  i - 1 \in DOMAIN t /\ t[i - 1] = chains[k][i]
      OBVIOUS
    <3>1. i - 1 \in DOMAIN t /\ (i - 1) + 1 = i
      BY <1>1, <2>2
    <3>2. QED
      BY <2>4, <3>1
  <2>7. OnePlace'
    <3>. SUFFICES ASSUME NEW l \in DOMAIN chains, NEW r \in DOMAIN chains,
                         NEW i \in DOMAIN chains'[l], NEW j \in DOMAIN chains'[r],
                         chains'[l][i] = chains'[r][j]
                  PROVE  l = r /\ i = j
      BY <2>3 DEF OnePlace
    <3>1. CASE l = k /\ r = k
      BY <2>3, <2>4, <2>5, <3>1 DEF ChainedInv, OnePlace
    <3>2. CASE l = k /\ r # k
      BY <2>3, <2>4, <3>2 DEF ChainedInv, OnePlace
    <3>3. CASE l # k /\ r = k
      BY <2>3, <2>4, <3>3 DEF ChainedInv, OnePlace
    <3>4. CASE l # k /\ r # k
      BY <2>3, <3>4 DEF ChainedInv, OnePlace
    <3>5. QED
      BY <3>1, <3>2, <3>3, <3>4
  <2>8. ASSUME NEW d \in Calls, InChains(d)' PROVE InChains(d) /\ d # c
    <3>1. PICK l \in DOMAIN chains : \E i \in DOMAIN chains'[l] : chains'[l][i] = d
      BY <2>3, <2>8 DEF InChains
    <3>2. PICK i \in DOMAIN chains'[l] : chains'[l][i] = d
      BY <3>1
    <3>3. CASE l = k
      BY <1>3, <2>3, <2>4, <3>2, <3>3 DEF InChains
    <3>4. CASE l # k
      BY <1>3, <2>3, <3>2, <3>4 DEF InChains
    <3>5. QED
      BY <3>3, <3>4
  <2>9. ASSUME NEW d \in Calls, InChains(d), d # c PROVE InChains(d)'
    <3>1. PICK l \in DOMAIN chains : \E i \in DOMAIN chains[l] : chains[l][i] = d
      BY <2>9 DEF InChains
    <3>2. PICK i \in DOMAIN chains[l] : chains[l][i] = d
      BY <3>1
    <3>3. CASE l = k
      BY <1>2, <2>3, <2>6, <2>9, <3>2, <3>3 DEF InChains
    <3>4. CASE l # k
      BY <2>3, <3>2, <3>4 DEF InChains
    <3>5. QED
      BY <3>3, <3>4
  <2>10. QED
    BY <2>3, <2>7, <2>8, <2>9
<1>6. QED
  BY <1>4, <1>5

\* The pending calls after one of them has left.
LEMMA OrderAfter ==
  ASSUME TypeOK, Distinct(order), NEW c \in Calls, NEW k \in DOMAIN chains, Granted(k, c)
  PROVE  /\ order' \in Seq(Calls) /\ Distinct(order')
         /\ \A d \in Calls : InOrder(d)' <=> InOrder(d) /\ d # c
<1>1. PICK p \in DOMAIN order : order[p] = c /\ order' = RemoveAt(order, p)
  BY DEF Granted
<1>. DEFINE n == Len(order)
<1>2. order \in Seq(Calls) /\ n \in Nat /\ DOMAIN order = 1 .. n
  BY LenProperties DEF TypeOK
<1>3. /\ order' \in Seq(Calls) /\ Len(order') = n - 1
      /\ \A i \in 1 .. n - 1 : Position(i, p) \in DOMAIN order \ {p} /\ order'[i] = order[Position(i, p)]
      /\ \A i, j \in 1 .. n - 1 : Position(i, p) = Position(j, p) => i = j
  <2>. DEFINE w == RemoveAt(order, p)
  <2>1. /\ w \in Seq(Calls) /\ Len(w) = n - 1
        /\ \A i \in 1 .. n - 1 : Position(i, p) \in DOMAIN order \ {p} /\ w[i] = order[Position(i, p)]
        /\ \A i, j \in 1 .. n - 1 : Position(i, p) = Position(j, p) => i = j
    <3>. HIDE DEF w
    <3>. QED BY <1>2, RemoveAtElements DEF w
  <2>. HIDE DEF w, n
  <2>2. order' = w
    BY <1>1 DEF w
  <2>3. QED
    BY <2>1, <2>2
<1>. HIDE DEF n
<1>4. DOMAIN order' = 1 .. n - 1
  BY <1>3, LenProperties
<1>5. Distinct(order')
  BY <1>3, <1>4 DEF Distinct
<1>6. \A i \in DOMAIN order \ {p} : \E r \in 1 .. n - 1 : Position(r, p) = i
  <2>. SUFFICES ASSUME NEW i \in DOMAIN order \ {p}
                PROVE  \E r \in 1 .. n - 1 : Position(r, p) = i
    OBVIOUS
  <2>1. CASE i < p
    <3>1. i \in 1 .. n - 1 /\ Position(i, p) = i
      BY <1>2, <2>1 DEF Position
    <3>2. QED
      BY <3>1
  <2>2. CASE i > p
    <3>1. i - 1 \in 1 .. n - 1 /\ Position(i - 1, p) = i
      BY <1>2, <2>2 DEF Position
    <3>2. QED
      BY <3>1
  <2>3. QED
    BY <1>2, <2>1, <2>2
<1>7. ASSUME NEW d \in Calls, InOrder(d)' PROVE InOrder(d) /\ d # c
  BY <1>1, <1>3, <1>4, <1>7 DEF InOrder, Distinct
<1>8. ASSUME NEW d \in Calls, InOrder(d), d # c PROVE InOrder(d)'
  <2>1. PICK i \in DOMAIN order \ {p} : order[i] = d
    BY <1>1, <1>8 DEF InOrder
  <2>2. PICK r \in 1 .. n - 1 : Position(r, p) = i
    BY <1>6, <2>1
  <2>3. QED
    BY <1>3, <1>4, <2>1, <2>2 DEF InOrder
<1>9. QED
  BY <1>3, <1>5, <1>7, <1>8

Windows == [open : BOOLEAN, length : 0 .. MaxWindow, grants : Nat]

LEMMA CountedWindow == ASSUME window \in Windows, Counted PROVE window' \in Windows
<1>1. window.grants + 1 \in Nat
  BY DEF Windows
<1>2. QED
  BY <1>1 DEF Counted, Windows

LEMMA TickWindow == ASSUME window \in Windows, Tick PROVE window' \in Windows
<1>1. CASE window.open /\ window.length < MaxWindow
  <2>1. window.length + 1 \in 0 .. MaxWindow
    BY <1>1, WindowAssumption DEF Windows
  <2>2. window' = [window EXCEPT !.length = @ + 1]
    BY <1>1 DEF Tick
  <2>3. QED
    BY <2>1, <2>2 DEF Windows
<1>2. CASE ~window.open
  BY <1>2 DEF Tick
<1>3. CASE window.open /\ ~(window.length < MaxWindow)
  BY <1>3, WindowAssumption DEF Tick, Windows, Idle
<1>4. QED
  BY <1>1, <1>2, <1>3

\* A call that leaves, with or without a token.
LEMMA LeaveChained ==
  ASSUME ChainedInv, NEW c \in Calls, NEW k \in DOMAIN chains, NEW ok \in BOOLEAN,
         IsHead(k, c), TryConsume(ok), Granted(k, c), Counted, UNCHANGED disturbed
  PROVE  ChainedInv'
<1>1. tokens' \in 0 .. Capacity /\ sinceRefill' \in 0 .. Interval
  <2>1. Available \in 0 .. Capacity
    BY AvailableType DEF ChainedInv, TypeOK
  <2>2. tokens' = IF Available >= Interval THEN Available - Interval ELSE Available
    BY DEF TryConsume
  <2>3. sinceRefill' = 0
    BY DEF TryConsume
  <2>4. QED
    BY <2>1, <2>2, <2>3, CapacityCovers, LimiterAssumption
<1>2. /\ wakeIn' = [d \in Sleeping \ {c} |-> wakeIn[d]] /\ Sleeping' = Sleeping \ {c}
      /\ Sleeping' \subseteq Calls /\ wakeIn' \in [Sleeping' -> 0 .. Interval]
  BY DEF Granted, Sleeping, ChainedInv, TypeOK
<1>3. window' \in [open : BOOLEAN, length : 0 .. MaxWindow, grants : Nat]
  BY CountedWindow DEF Windows, ChainedInv, TypeOK
<1>4. TypeOK'
  BY <1>1, <1>2, <1>3, ChainsAfter, OrderAfter DEF ChainedInv, TypeOK, Capacity
<1>5. HeadsSleep'
  <2>. SUFFICES ASSUME NEW d \in Sleeping \ {c} PROVE \E r \in DOMAIN chains' : IsHead(r, d)'
    BY <1>2 DEF HeadsSleep
  <2>1. PICK l \in DOMAIN chains : IsHead(l, d)
    BY DEF ChainedInv, HeadsSleep
  <2>2. l # k /\ chains[l] # <<>>
    BY <2>1 DEF IsHead
  <2>3. PICK r \in DOMAIN chains' : chains'[r] = chains[l]
    BY <2>2, ChainsAfter
  <2>4. QED
    BY <2>1, <2>3 DEF IsHead
<1>6. ChainsHoldPending'
  BY ChainsAfter, OrderAfter DEF ChainedInv, ChainsHoldPending
<1>7. OnePlace' /\ Distinct(order')
  BY ChainsAfter, OrderAfter DEF ChainedInv
<1>8. QED
  BY <1>4, <1>5, <1>6, <1>7 DEF ChainedInv

\* A call that goes to sleep is at the head of its chain.
LEMMA SleepChained ==
  ASSUME ChainedInv, NEW c \in Calls, NEW k \in DOMAIN chains, Sleep(k, c)
  PROVE  ChainedInv'
<1>1. PICK w \in 1 .. Interval : wakeIn' = [d \in Sleeping \cup {c} |-> IF d = c THEN w ELSE wakeIn[d]]
  BY DEF Sleep
<1>2. /\ UNCHANGED <<chains, order, window, disturbed>> /\ IsHead(k, c)
      /\ tokens' = Available /\ sinceRefill' = 0
  BY DEF Sleep, CanBegin
<1>3. Sleeping' = Sleeping \cup {c} /\ Sleeping' \subseteq Calls
      /\ wakeIn' \in [Sleeping' -> 0 .. Interval]
  BY <1>1, LimiterAssumption DEF Sleeping, ChainedInv, TypeOK
<1>4. tokens' \in 0 .. Capacity /\ sinceRefill' \in 0 .. Interval
  BY <1>2, AvailableType, LimiterAssumption DEF ChainedInv, TypeOK
<1>5. TypeOK'
  BY <1>2, <1>3, <1>4 DEF ChainedInv, TypeOK, Capacity
<1>6. HeadsSleep'
  BY <1>2, <1>3 DEF ChainedInv, HeadsSleep, IsHead
<1>7. QED
  BY <1>2, <1>5, <1>6 DEF ChainedInv, OnePlace, ChainsHoldPending, InChains, InOrder

\* reset() cuts a chain loose by adding another that nobody is in.
LEMMA ResetChained ==
  ASSUME ChainedInv, Reset
  PROVE  ChainedInv'
<1>. DEFINE n == Len(chains)
<1>1. /\ n \in Nat /\ DOMAIN chains = 1 .. n /\ chains \in Seq(Seq(Calls)) /\ <<>> \in Seq(Calls)
      /\ DOMAIN <<>> = {}
  BY ChainFacts, EmptySeq DEF ChainedInv, TypeOK
<1>2. /\ UNCHANGED <<order, wakeIn>> /\ Sleeping' = Sleeping
      /\ tokens' = Capacity /\ sinceRefill' = 0 /\ window' = Idle
      /\ disturbed' = (disturbed \/ order # <<>>)
      /\ chains' = chains \/ chains' = Append(chains, <<>>)
  BY DEF Reset, Sleeping
<1>3. /\ chains' \in Seq(Seq(Calls)) /\ chains' # <<>>
      /\ \A k \in DOMAIN chains : k \in DOMAIN chains' /\ chains'[k] = chains[k]
      /\ \A k \in DOMAIN chains' : k \in DOMAIN chains \/ chains'[k] = <<>>
  <2>1. CASE chains' = chains
    BY <1>1, <2>1 DEF ChainedInv, TypeOK
  <2>2. CASE chains' = Append(chains, <<>>)
    <3>1. /\ chains' \in Seq(Seq(Calls)) /\ Len(chains') = n + 1 /\ DOMAIN chains' = 1 .. n + 1
          /\ chains'[n + 1] = <<>> /\ \A k \in 1 .. n : chains'[k] = chains[k]
      BY <1>1, <2>2, AppendElements
    <3>2. chains' # <<>>
      BY <1>1, <3>1, EmptySeq
    <3>3. \A k \in 1 .. n + 1 : k \in 1 .. n \/ k = n + 1
      BY <1>1
    <3>4. \A k \in 1 .. n : k \in 1 .. n + 1
      BY <1>1
    <3>. HIDE DEF n
    <3>5. QED
      BY <1>1, <3>1, <3>2, <3>3, <3>4
  <2>3. QED
    BY <1>2, <2>1, <2>2
<1>. HIDE DEF n
<1>4. \A k \in DOMAIN chains' : \A i \in DOMAIN chains'[k] : k \in DOMAIN chains
  BY <1>1, <1>3
<1>5. TypeOK'
  <2>1. tokens' \in 0 .. Capacity /\ sinceRefill' \in 0 .. Interval
    BY <1>2, CapacityCovers, LimiterAssumption
  <2>2. window' \in [open : BOOLEAN, length : 0 .. MaxWindow, grants : Nat]
    BY <1>2, WindowAssumption DEF Idle
  <2>3. disturbed' \in BOOLEAN
    BY <1>2 DEF ChainedInv, TypeOK
  <2>4. QED
    BY <1>2, <1>3, <2>1, <2>2, <2>3 DEF ChainedInv, TypeOK, Capacity
<1>6. OnePlace'
  BY <1>3, <1>4 DEF ChainedInv, OnePlace
<1>7. ChainsHoldPending'
  <2>1. ASSUME NEW c \in Calls, InChains(c)'
        PROVE  InChains(c)
    <3>1. PICK k \in DOMAIN chains' : \E i \in DOMAIN chains'[k] : chains'[k][i] = c
      BY <2>1 DEF InChains
    <3>2. k \in DOMAIN chains /\ chains'[k] = chains[k]
      BY <1>3, <1>4, <3>1
    <3>3. QED
      BY <3>1, <3>2 DEF InChains
  <2>2. ASSUME NEW c \in Calls, InChains(c)
        PROVE  InChains(c)'
    <3>1. PICK k \in DOMAIN chains : \E i \in DOMAIN chains[k] : chains[k][i] = c
      BY <2>2 DEF InChains
    <3>2. k \in DOMAIN chains' /\ chains'[k] = chains[k]
      BY <1>3, <3>1
    <3>3. QED
      BY <3>1, <3>2 DEF InChains
  <2>3. \A c \in Calls : InOrder(c)' <=> InOrder(c)
    BY <1>2 DEF InOrder
  <2>4. QED
    BY <2>1, <2>2, <2>3 DEF ChainedInv, ChainsHoldPending
<1>8. HeadsSleep'
  BY <1>2, <1>3 DEF ChainedInv, HeadsSleep, IsHead
<1>9. QED
  BY <1>2, <1>5, <1>6, <1>7, <1>8 DEF ChainedInv

\* Everything else leaves the chains alone.
LEMMA OtherChained ==
  ASSUME ChainedInv, ConsumeDirectly \/ Tick \/ Observe \/ UNCHANGED vars
  PROVE  ChainedInv'
<1>1. UNCHANGED <<chains, order>> /\ Sleeping' = Sleeping
  BY DEF ConsumeDirectly, Tick, Observe, vars, Sleeping
<1>2. wakeIn' \in [Sleeping' -> 0 .. Interval]
  <2>1. CASE Tick
    BY <1>1, <2>1, LimiterAssumption DEF Tick, ChainedInv, TypeOK
  <2>2. CASE UNCHANGED wakeIn
    BY <1>1, <2>2 DEF ChainedInv, TypeOK
  <2>3. QED
    BY <2>1, <2>2 DEF ConsumeDirectly, Observe, vars
<1>3. /\ tokens' \in 0 .. Capacity /\ sinceRefill' \in 0 .. Interval /\ disturbed' \in BOOLEAN
      /\ window' \in [open : BOOLEAN, length : 0 .. MaxWindow, grants : Nat]
  <2>1. CASE ConsumeDirectly
    <3>1. Available \in 0 .. Capacity
      BY AvailableType DEF ChainedInv, TypeOK
    <3>2. /\ tokens' = (IF Available >= Interval THEN Available - Interval ELSE Available)
          /\ sinceRefill' = 0
      BY <2>1 DEF ConsumeDirectly, TryConsume
    <3>3. tokens' \in 0 .. Capacity /\ sinceRefill' \in 0 .. Interval
      BY <3>1, <3>2, CapacityCovers, LimiterAssumption
    <3>4. disturbed' \in BOOLEAN
      BY <2>1 DEF ConsumeDirectly, ChainedInv, TypeOK
    <3>5. window' \in [open : BOOLEAN, length : 0 .. MaxWindow, grants : Nat]
      BY <2>1, CountedWindow DEF ConsumeDirectly, Windows, ChainedInv, TypeOK
    <3>6. QED
      BY <3>3, <3>4, <3>5
  <2>2. CASE Tick
    <3>1. tokens' = tokens /\ disturbed' = disturbed /\ sinceRefill' \in 0 .. Interval
      BY <2>2, LimiterAssumption DEF Tick, ChainedInv, TypeOK
    <3>2. window' \in [open : BOOLEAN, length : 0 .. MaxWindow, grants : Nat]
      BY <2>2, TickWindow DEF Windows, ChainedInv, TypeOK
    <3>3. QED
      BY <3>1, <3>2 DEF ChainedInv, TypeOK
  <2>3. CASE Observe
    <3>1. window' = [open |-> TRUE, length |-> 0, grants |-> 0]
      BY <2>3 DEF Observe, Idle
    <3>2. window' \in [open : BOOLEAN, length : 0 .. MaxWindow, grants : Nat]
      BY <3>1, WindowAssumption
    <3>3. QED
      BY <2>3, <3>2 DEF Observe, bucket, ChainedInv, TypeOK
  <2>4. CASE UNCHANGED vars
    BY <2>4 DEF vars, bucket, ChainedInv, TypeOK
  <2>5. QED
    BY <2>1, <2>2, <2>3, <2>4
<1>4. TypeOK'
  BY <1>1, <1>2, <1>3 DEF ChainedInv, TypeOK, Capacity
<1>5. QED
  BY <1>1, <1>4 DEF ChainedInv, OnePlace, ChainsHoldPending, InChains, InOrder, HeadsSleep, IsHead

LEMMA NextChained == ChainedInv /\ [Next]_vars => ChainedInv'
<1>. SUFFICES ASSUME ChainedInv, [Next]_vars PROVE ChainedInv'
  OBVIOUS
<1>1. ASSUME NEW c \in Calls, NEW k \in DOMAIN chains,
             AcquireNow(k, c) \/ Sleep(k, c) \/ Wake(k, c)
      PROVE  ChainedInv'
  <2>1. CASE AcquireNow(k, c)
    BY <2>1, LeaveChained DEF AcquireNow, CanBegin
  <2>2. CASE Wake(k, c)
    BY <2>2, LeaveChained DEF Wake
  <2>3. QED
    BY <1>1, <2>1, <2>2, SleepChained
<1>2. QED
  BY <1>1, WaitForTokenChained, ResetChained, OtherChained DEF Next, Acquire

\* Every variable keeps its type, whatever disturbs the limiter: the bucket never overflows
\* or runs negative (refill(), tryConsume()), and nobody sleeps longer than the interval.
THEOREM TypeCorrect == Spec => []TypeOK
<1>1. ChainedInv => TypeOK
  BY DEF ChainedInv
<1>2. QED
  BY <1>1, InitChained, NextChained, PTL DEF Spec

\* Whatever reset() cuts loose, a pending call of waitForToken() has one place in one chain of
\* promises, and only the head of a chain sleeps.
THEOREM CallsStayChained == Spec => []PendingCallsChained
BY InitChained, NextChained, ChainedMeans, PTL DEF Spec
=============================================================================
