------------------------------ MODULE QueueProofs ------------------------------
(***************************************************************************)
(* Proofs about the task queue and the offline queue built on it, for any  *)
(* ids, priorities, concurrency, requests and keys.  Of the task queue:    *)
(*                                                                         *)
(*   IInv       slots are counted, no runnable task is stranded            *)
(*   OrderInv   and the pending tasks are sorted, without inversion; with  *)
(*              the promises, enough for the queue to implement WorkPool   *)
(*   StoredInv  and storage holds what is pending                          *)
(*                                                                         *)
(* each contains the one before it, and cites only the assumptions of      *)
(* TaskQueue.  Of the offline queue, whose steps are steps of the task     *)
(* queue:                                                                  *)
(*                                                                         *)
(*   QueuedInv  StoredInv, and calls, promises and tasks agree             *)
(*   SentInv    and every unsent request has one source                    *)
(***************************************************************************)
EXTENDS OfflineQueue, FiniteSetTheorems, SequenceTheorems, TLAPS

UniqueIds(q) == \A i, j \in DOMAIN q : q[i].id = q[j].id => i = j

(***************************************************************************)
(* What the queue operations do to an array of tasks with distinct ids.    *)
(***************************************************************************)
LEMMA PendingIdsAreIds ==
  ASSUME NEW q \in Seq(Task)
  PROVE  PendingIds(q) \in SUBSET Ids
<1>1. \A i \in DOMAIN q : q[i] \in Task
  BY LenProperties, ElementOfSeq
<1>2. QED
  BY <1>1 DEF PendingIds, Task

\* Removing position i moves what follows one place up.
LEMMA RemoveAtElements ==
  ASSUME NEW q \in Seq(Task), NEW i \in DOMAIN q
  PROVE  /\ Len(q) \in Nat /\ DOMAIN q = 1 .. Len(q) /\ i \in 1 .. Len(q)
         /\ RemoveAt(q, i) \in Seq(Task)
         /\ DOMAIN RemoveAt(q, i) = 1 .. Len(q)-1
         /\ \A j \in 1 .. Len(q)-1 : /\ j < i => RemoveAt(q, i)[j] = q[j]
                                     /\ j >= i => RemoveAt(q, i)[j] = q[j+1]
<1> DEFINE a == SubSeq(q, 1, i-1)
           b == SubSeq(q, i+1, Len(q))
           r == RemoveAt(q, i)
           n == Len(q)
<1>1. n \in Nat /\ DOMAIN q = 1 .. n /\ i \in 1 .. n
  BY LenProperties
<1>2. \A j \in 1 .. n : q[j] \in Task
  BY ElementOfSeq
<1>3. a \in Seq(Task) /\ Len(a) = i-1 /\ \A j \in 1 .. i-1 : a[j] = q[j]
  <2>1. \A j \in 1 .. i-1 : q[j] \in Task
    BY <1>1, <1>2
  <2>2. /\ a \in Seq(Task)
        /\ Len(a) = IF 1 <= i-1 THEN (i-1)-1+1 ELSE 0
        /\ \A j \in 1 .. (i-1)-1+1 : a[j] = q[1+j-1]
    <3>. HIDE DEF a
    <3>. QED BY <1>1, <2>1, SubSeqProperties DEF a
  <2>. HIDE DEF a
  <2>3. QED
    BY <1>1, <2>2
<1>4. b \in Seq(Task) /\ Len(b) = n-i /\ \A j \in 1 .. n-i : b[j] = q[i+j]
  <2>1. \A j \in i+1 .. n : q[j] \in Task
    BY <1>1, <1>2
  <2>2. /\ b \in Seq(Task)
        /\ Len(b) = IF i+1 <= n THEN n-(i+1)+1 ELSE 0
        /\ \A j \in 1 .. n-(i+1)+1 : b[j] = q[i+1+j-1]
    <3>. HIDE DEF b
    <3>. QED BY <1>1, <2>1, SubSeqProperties DEF b
  <2>. HIDE DEF b, n
  <2>3. Len(b) = n-i
    BY <1>1, <2>2
  <2>4. ASSUME NEW j \in 1 .. n-i
        PROVE  b[j] = q[i+j]
    <3>1. j \in 1 .. n-(i+1)+1 /\ i+1+j-1 = i+j
      BY <1>1
    <3>2. QED
      BY <2>2, <3>1
  <2>5. QED
    BY <2>2, <2>3, <2>4
<1>5. r = a \o b
  BY DEF RemoveAt
<1>. HIDE DEF a, b, r, n
<1>6. r \in Seq(Task) /\ Len(r) = n-1 /\ DOMAIN r = 1 .. n-1
  <2>1. r \in Seq(Task) /\ Len(r) = Len(a) + Len(b)
    BY <1>3, <1>4, <1>5, ConcatProperties
  <2>2. Len(r) = n-1
    BY <1>1, <1>3, <1>4, <2>1
  <2>3. QED
    BY <2>1, <2>2, LenProperties
<1>7. \A j \in 1 .. n-1 : /\ j < i => r[j] = q[j]
                          /\ j >= i => r[j] = q[j+1]
  <2>. TAKE j \in 1 .. n-1
  <2>1. r[j] = IF j <= i-1 THEN a[j] ELSE b[j-(i-1)]
    BY <1>1, <1>3, <1>4, <1>5, ConcatProperties
  <2>2. CASE j < i
    BY <1>1, <1>3, <2>1, <2>2
  <2>3. CASE j >= i
    <3>1. j-(i-1) \in 1 .. n-i /\ i+(j-(i-1)) = j+1
      BY <1>1, <2>3
    <3>2. QED
      BY <1>1, <1>4, <2>1, <2>3, <3>1
  <2>4. QED
    BY <1>1, <2>2, <2>3
<1>8. QED
  BY <1>1, <1>6, <1>7 DEF r, n

\* Removing position i keeps the other tasks and drops exactly that id.
LEMMA RemoveAtTasks ==
  ASSUME NEW q \in Seq(Task), UniqueIds(q), NEW i \in DOMAIN q
  PROVE  /\ RemoveAt(q, i) \in Seq(Task)
         /\ UniqueIds(RemoveAt(q, i))
         /\ PendingIds(RemoveAt(q, i)) = PendingIds(q) \ {q[i].id}
         /\ \A k \in DOMAIN RemoveAt(q, i) : \E j \in DOMAIN q : RemoveAt(q, i)[k] = q[j]
<1> DEFINE r == RemoveAt(q, i)
           n == Len(q)
<1>1. n \in Nat /\ DOMAIN q = 1 .. n /\ i \in 1 .. n
  BY RemoveAtElements
<1>6. r \in Seq(Task) /\ DOMAIN r = 1 .. n-1
  BY RemoveAtElements
<1>7. \A j \in 1 .. n-1 : /\ j < i => r[j] = q[j]
                          /\ j >= i => r[j] = q[j+1]
  BY RemoveAtElements
<1>. HIDE DEF r, n
<1>8. UniqueIds(r)
  <2>. SUFFICES ASSUME NEW j \in 1 .. n-1, NEW k \in 1 .. n-1, r[j].id = r[k].id
                PROVE  j = k
    BY <1>6 DEF UniqueIds
  <2>1. \A x, y \in 1 .. n : q[x].id = q[y].id => x = y
    BY <1>1 DEF UniqueIds
  <2>2. j \in 1 .. n /\ j+1 \in 1 .. n /\ k \in 1 .. n /\ k+1 \in 1 .. n
    BY <1>1
  <2>3. QED
    BY <1>1, <1>7, <2>1, <2>2
<1>9. PendingIds(r) = PendingIds(q) \ {q[i].id}
  <2>1. ASSUME NEW j \in 1 .. n-1
        PROVE  r[j].id \in PendingIds(q) \ {q[i].id}
    <3>1. CASE j < i
      BY <1>1, <1>7, <3>1 DEF UniqueIds, PendingIds
    <3>2. CASE j >= i
      <4>1. j+1 \in 1 .. n /\ r[j] = q[j+1] /\ j+1 # i
        BY <1>1, <1>7, <3>2
      <4>2. QED
        BY <1>1, <4>1 DEF UniqueIds, PendingIds
    <3>3. QED
      BY <1>1, <3>1, <3>2
  <2>2. ASSUME NEW j \in 1 .. n, j # i
        PROVE  q[j].id \in PendingIds(r)
    <3>1. CASE j < i
      BY <1>1, <1>6, <1>7, <3>1 DEF PendingIds
    <3>2. CASE j > i
      <4>1. j-1 \in 1 .. n-1 /\ r[j-1] = q[j]
        BY <1>1, <1>7, <3>2
      <4>2. QED
        BY <1>6, <4>1 DEF PendingIds
    <3>3. QED
      BY <1>1, <2>2, <3>1, <3>2
  <2>3. QED
    BY <1>1, <1>6, <2>1, <2>2 DEF PendingIds
<1>10. \A k \in DOMAIN r : \E j \in DOMAIN q : r[k] = q[j]
  <2>. SUFFICES ASSUME NEW k \in 1 .. n-1
                PROVE  \E j \in 1 .. n : r[k] = q[j]
    BY <1>1, <1>6
  <2>1. k \in 1 .. n /\ k+1 \in 1 .. n /\ (k < i \/ k >= i)
    BY <1>1
  <2>2. QED
    BY <1>7, <2>1
<1>11. QED
  BY <1>6, <1>8, <1>9, <1>10 DEF r, n

\* The tasks that stay keep their order.
LEMMA RemoveAtOrder ==
  ASSUME NEW q \in Seq(Task), NEW i \in DOMAIN q,
         NEW k \in DOMAIN RemoveAt(q, i), NEW l \in DOMAIN RemoveAt(q, i), k < l
  PROVE  \E x, y \in DOMAIN q :
           x < y /\ RemoveAt(q, i)[k] = q[x] /\ RemoveAt(q, i)[l] = q[y]
<1> DEFINE r == RemoveAt(q, i)
           n == Len(q)
<1>1. /\ n \in Nat /\ DOMAIN q = 1 .. n /\ DOMAIN r = 1 .. n-1 /\ i \in 1 .. n
      /\ \A j \in 1 .. n-1 : (j < i => r[j] = q[j]) /\ (j >= i => r[j] = q[j+1])
  BY RemoveAtElements
<1>. HIDE DEF r, n
<1>2. k \in 1 .. n-1 /\ l \in 1 .. n-1
  BY <1>1 DEF r
<1>3. /\ k \in 1 .. n /\ k+1 \in 1 .. n /\ l \in 1 .. n /\ l+1 \in 1 .. n
      /\ k < l+1 /\ k+1 < l+1 /\ (k >= i => l >= i)
  BY <1>1, <1>2
<1>4. CASE k < i /\ l < i
  BY <1>1, <1>2, <1>3, <1>4 DEF r
<1>5. CASE k < i /\ l >= i
  BY <1>1, <1>2, <1>3, <1>5 DEF r
<1>6. CASE k >= i /\ l >= i
  BY <1>1, <1>2, <1>3, <1>6 DEF r
<1>7. QED
  BY <1>1, <1>2, <1>3, <1>4, <1>5, <1>6

\* push of a task with a fresh id keeps the ids distinct and adds just that one.
LEMMA AppendTask ==
  ASSUME NEW q \in Seq(Task), UniqueIds(q), NEW t \in Task, t.id \notin PendingIds(q)
  PROVE  /\ Append(q, t) \in Seq(Task)
         /\ UniqueIds(Append(q, t))
         /\ PendingIds(Append(q, t)) = PendingIds(q) \cup {t.id}
<1> DEFINE r == Append(q, t)
           n == Len(q)
<1>1. n \in Nat /\ DOMAIN q = 1 .. n
  BY LenProperties
<1>2. /\ r \in Seq(Task) /\ Len(r) = n+1
      /\ \A j \in 1 .. n : r[j] = q[j]
      /\ r[n+1] = t
  BY <1>1
<1>3. DOMAIN r = 1 .. n+1
  BY <1>1, <1>2, LenProperties
<1>. HIDE DEF r
<1>4. \A j \in 1 .. n : r[j].id # t.id
  BY <1>1, <1>2 DEF PendingIds
<1>5. UniqueIds(r)
  <2>. SUFFICES ASSUME NEW j \in 1 .. n+1, NEW k \in 1 .. n+1, r[j].id = r[k].id
                PROVE  j = k
    BY <1>3 DEF UniqueIds
  <2>1. CASE j \in 1 .. n /\ k \in 1 .. n
    BY <1>1, <1>2, <2>1 DEF UniqueIds
  <2>2. CASE j = n+1 \/ k = n+1
    BY <1>1, <1>2, <1>4, <2>2
  <2>3. QED
    BY <1>1, <2>1, <2>2
<1>6. PendingIds(r) = PendingIds(q) \cup {t.id}
  BY <1>1, <1>2, <1>3 DEF PendingIds
<1>7. QED
  BY <1>2, <1>5, <1>6 DEF r

\* Inheritance only raises priorities: same ids at the same positions.
LEMMA InheritTasks ==
  ASSUME NEW q \in Seq(Task), UniqueIds(q), NEW t \in Task
  PROVE  /\ Inherit(q, t) \in Seq(Task)
         /\ UniqueIds(Inherit(q, t))
         /\ PendingIds(Inherit(q, t)) = PendingIds(q)
<1> DEFINE r == Inherit(q, t)
           n == Len(q)
<1>1. n \in Nat /\ DOMAIN q = 1 .. n
  BY LenProperties
<1>2. \A j \in 1 .. n : q[j] \in Task
  BY ElementOfSeq
<1>3. DOMAIN r = 1 .. n
  BY <1>1 DEF Inherit
<1>4. \A j \in 1 .. n : r[j] = IF j \in Boosted(q, t)
                               THEN [q[j] EXCEPT !.priority = t.priority] ELSE q[j]
  BY <1>1 DEF Inherit
<1>5. r = [j \in 1 .. n |-> r[j]]
  BY <1>1 DEF Inherit
<1>. HIDE DEF r
<1>6. \A j \in 1 .. n : r[j] \in Task /\ r[j].id = q[j].id
  BY <1>2, <1>4 DEF Task
<1>7. r \in Seq(Task)
  BY <1>1, <1>5, <1>6, SeqDef
<1>8. UniqueIds(r)
  BY <1>1, <1>3, <1>6 DEF UniqueIds
<1>9. PendingIds(r) = PendingIds(q)
  BY <1>1, <1>3, <1>6 DEF PendingIds
<1>10. QED
  BY <1>7, <1>8, <1>9 DEF r

\* Sorting permutes the tasks.
LEMMA SortedTasks ==
  ASSUME NEW q \in Seq(Task), UniqueIds(q), NEW r \in Sorted(q)
  PROVE  /\ r \in Seq(Task)
         /\ UniqueIds(r)
         /\ PendingIds(r) = PendingIds(q)
<1> DEFINE n == Len(q)
<1>1. n \in Nat /\ DOMAIN q = 1 .. n
  BY LenProperties
<1>2. \A j \in 1 .. n : q[j] \in Task
  BY ElementOfSeq
<1>3. PICK f \in Bijection(1 .. n, 1 .. n) : r = [j \in 1 .. n |-> q[f[j]]]
  BY <1>1 DEF Sorted
<1>4. /\ f \in [1 .. n -> 1 .. n]
      /\ \A j, k \in 1 .. n : f[j] = f[k] => j = k
      /\ \A k \in 1 .. n : \E j \in 1 .. n : f[j] = k
  BY DEF Bijection, Injection, Surjection, IsInjective
<1>5. DOMAIN r = 1 .. n /\ \A j \in 1 .. n : r[j] = q[f[j]]
  BY <1>3
<1>6. r \in Seq(Task)
  BY <1>1, <1>2, <1>3, <1>4, SeqDef
<1>. HIDE DEF n
<1>7. UniqueIds(r)
  <2>. SUFFICES ASSUME NEW j \in 1 .. n, NEW k \in 1 .. n, r[j].id = r[k].id
                PROVE  j = k
    BY <1>5 DEF UniqueIds
  <2>1. f[j] \in 1 .. n /\ f[k] \in 1 .. n /\ q[f[j]].id = q[f[k]].id
    BY <1>4, <1>5
  <2>2. f[j] = f[k]
    BY <1>1, <2>1 DEF UniqueIds
  <2>3. QED
    BY <1>4, <2>2
<1>8. PendingIds(r) = PendingIds(q)
  <2>1. ASSUME NEW j \in 1 .. n
        PROVE  r[j].id \in PendingIds(q)
    BY <1>1, <1>4, <1>5 DEF PendingIds
  <2>2. ASSUME NEW k \in 1 .. n
        PROVE  q[k].id \in PendingIds(r)
    <3>1. PICK j \in 1 .. n : f[j] = k
      BY <1>4
    <3>2. r[j].id = q[k].id
      BY <1>5, <3>1
    <3>3. QED
      BY <1>5, <3>2 DEF PendingIds
  <2>3. QED
    BY <1>1, <1>5, <2>1, <2>2 DEF PendingIds
<1>9. QED
  BY <1>6, <1>7, <1>8

-----------------------------------------------------------------------------
(***************************************************************************)
(* The inductive invariant.  SlotsAccounted and NoStrandedWork lean on each *)
(* other: a task that settles makes dependents runnable without starting   *)
(* them, which strands nothing because the task still holds its slot, and  *)
(* that a held slot shows in activeCount is SlotsAccounted.                *)
(***************************************************************************)
WellFormed(q, act, cnt) ==
  /\ q \in Seq(Task)
  /\ UniqueIds(q)
  /\ act \in SUBSET Ids /\ IsFiniteSet(act)
  /\ PendingIds(q) \cap act = {}
  /\ cnt = Cardinality(act)
  /\ cnt <= Concurrency

NoRunnable(q) == \A i \in DOMAIN q : ~Runnable(q[i], completed)

IInv == TypeOK /\ WellFormed(queue, active, activeCount) /\ NoStrandedWork

\* Starting one task, or none, keeps the slots accounted for; and if nothing is
\* running afterwards although the queue is not paused, nothing could have run.
LEMMA ProcessNextAccounts ==
  ASSUME NEW q, NEW act, NEW cnt, NEW psd \in BOOLEAN, NEW drn \in BOOLEAN,
         NEW saved \in BOOLEAN,
         WellFormed(q, act, cnt), stored \in Seq(Task),
         ProcessNext(q, act, cnt, psd, drn, saved)
  PROVE  /\ WellFormed(queue', active', activeCount')
         /\ act \subseteq active'
         /\ drainWaiting' \in BOOLEAN /\ stored' \in Seq(Task)
         /\ ~psd /\ activeCount' = 0 => NoRunnable(queue')
<1>1. CASE ProcessNextIdle(q, act, cnt, psd, drn)
           /\ IF saved THEN SaveQueue ELSE UNCHANGED stored
  <2>1. queue' = q /\ active' = act /\ activeCount' = cnt
    BY <1>1 DEF ProcessNextIdle
  <2>2. drainWaiting' \in BOOLEAN
    BY <1>1 DEF ProcessNextIdle
  <2>3. stored' \in Seq(Task)
    BY <1>1, <2>1 DEF SaveQueue, WellFormed
  <2>4. ASSUME ~psd, cnt = 0 PROVE NoRunnable(q)
    <3>1. q = <<>> \/ \A i \in DOMAIN q : ~Runnable(q[i], completed)
      BY <1>1, <2>4, ConcurrencyAssumption DEF ProcessNextIdle, CannotStart
    <3>2. CASE q = <<>>
      BY <3>2 DEF NoRunnable
    <3>3. QED
      BY <3>1, <3>2 DEF NoRunnable
  <2>5. QED
    BY <2>1, <2>2, <2>3, <2>4
<1>2. CASE ProcessNextStart(q, act, cnt, psd, drn) /\ SaveQueue
  <2>1. PICK i \in DOMAIN q : queue' = RemoveAt(q, i) /\ active' = act \cup {q[i].id}
    BY <1>2 DEF ProcessNextStart
  <2>2. /\ RemoveAt(q, i) \in Seq(Task)
        /\ UniqueIds(RemoveAt(q, i))
        /\ PendingIds(RemoveAt(q, i)) = PendingIds(q) \ {q[i].id}
    BY RemoveAtTasks DEF WellFormed
  <2>3. q[i].id \in Ids /\ q[i].id \in PendingIds(q)
    <3>1. q[i] \in Task
      BY LenProperties, ElementOfSeq DEF WellFormed
    <3>2. QED
      BY <3>1 DEF Task, PendingIds
  <2>4. q[i].id \notin act
    BY <2>3 DEF WellFormed
  <2>5. Cardinality(act) \in Nat /\ IsFiniteSet(active')
        /\ Cardinality(active') = Cardinality(act) + 1
    BY <2>1, <2>4, FS_CardinalityType, FS_AddElement DEF WellFormed
  <2>6. activeCount' = cnt + 1 /\ cnt < Concurrency
    BY <1>2, <2>5, ConcurrencyAssumption DEF ProcessNextStart, CannotStart, WellFormed
  <2>7. activeCount' = Cardinality(active') /\ activeCount' <= Concurrency /\ activeCount' # 0
    BY <2>5, <2>6, ConcurrencyAssumption DEF WellFormed
  <2>8. WellFormed(queue', active', activeCount')
    BY <2>1, <2>2, <2>3, <2>4, <2>5, <2>7 DEF WellFormed
  <2>9. drainWaiting' \in BOOLEAN /\ stored' \in Seq(Task)
    BY <1>2, <2>1, <2>2 DEF ProcessNextStart, SaveQueue
  <2>10. QED
    BY <2>1, <2>7, <2>8, <2>9
<1>3. QED
  BY <1>1, <1>2 DEF ProcessNext

LEMMA InitIInv == Init => IInv
<1>. SUFFICES ASSUME Init PROVE IInv
  OBVIOUS
<1>1. <<>> \in Seq(Task)
  BY EmptySeq
<1>2. IsFiniteSet({}) /\ Cardinality({}) = 0
  BY FS_EmptySet
<1>3. TypeOK
  BY <1>1 DEF Init, TypeOK
<1>4. WellFormed(queue, active, activeCount)
  BY <1>1, <1>2, ConcurrencyAssumption DEF Init, WellFormed, UniqueIds, PendingIds
<1>5. NoStrandedWork
  BY DEF Init, NoStrandedWork
<1>6. QED
  BY <1>3, <1>4, <1>5 DEF IInv

\* When processNext ran last, under the state it read.
LEMMA StrandedAfterProcessNext ==
  ASSUME completed' = completed, ~paused' /\ activeCount' = 0 => NoRunnable(queue')
  PROVE  NoStrandedWork'
BY DEF NoStrandedWork, NoRunnable, Runnable

LEMMA AddIInv ==
  ASSUME IInv, NEW id \in Ids, NEW p \in Priorities, NEW deps \in SUBSET Ids, Add(id, p, deps)
  PROVE  IInv'
<1> DEFINE task == [id |-> id, priority |-> p, dependencies |-> deps]
<1>1. task \in Task /\ task.id = id
  BY DEF Task
<1>2. PICK q \in Sorted(Inherit(Append(queue, task), task)) :
          IF AutoStart /\ ~paused
          THEN ProcessNext(q, active, activeCount, paused, drainWaiting, TRUE)
          ELSE /\ queue' = q /\ SaveQueue
               /\ UNCHANGED <<active, activeCount, drainWaiting>>
  BY DEF Add
<1>. HIDE DEF task
<1>3. q \in Seq(Task) /\ UniqueIds(q) /\ PendingIds(q) = PendingIds(queue) \cup {id}
  <2> DEFINE qa == Append(queue, task)
             qi == Inherit(qa, task)
  <2>1. qa \in Seq(Task) /\ UniqueIds(qa) /\ PendingIds(qa) = PendingIds(queue) \cup {id}
    BY <1>1, AppendTask DEF IInv, WellFormed, Add, Queued
  <2>. HIDE DEF qa
  <2>2. qi \in Seq(Task) /\ UniqueIds(qi) /\ PendingIds(qi) = PendingIds(qa)
    BY <1>1, <2>1, InheritTasks
  <2>3. q \in Sorted(qi)
    BY <1>2 DEF qa
  <2>. HIDE DEF qi
  <2>4. QED
    BY <2>1, <2>2, <2>3, SortedTasks
<1>4. WellFormed(q, active, activeCount)
  BY <1>3 DEF IInv, WellFormed, Add
<1>5. /\ WellFormed(queue', active', activeCount')
      /\ active \subseteq active'
      /\ drainWaiting' \in BOOLEAN /\ stored' \in Seq(Task)
      /\ AutoStart /\ ~paused /\ activeCount' = 0 => NoRunnable(queue')
  <2>1. CASE AutoStart /\ ~paused
    <3>1. ProcessNext(q, active, activeCount, paused, drainWaiting, TRUE)
      BY <1>2, <2>1
    <3>2. paused \in BOOLEAN /\ drainWaiting \in BOOLEAN /\ stored \in Seq(Task)
      BY DEF IInv, TypeOK
    <3>3. QED
      BY <1>4, <3>1, <3>2, ProcessNextAccounts
  <2>2. CASE ~(AutoStart /\ ~paused)
    BY <1>2, <1>3, <1>4, <2>2 DEF IInv, TypeOK, SaveQueue
  <2>3. QED
    BY <2>1, <2>2
<1>6. /\ UNCHANGED <<settled, completed, paused, loaded, owed>>
      /\ late' \in SUBSET Ids
      /\ promise' = [promise EXCEPT ![id] = "pending"]
  BY DEF Add, IInv, TypeOK
<1>7. TypeOK'
  <2>1. settled' \in SUBSET active'
    BY <1>5, <1>6 DEF IInv, TypeOK
  <2>2. activeCount' \in Nat
    BY <1>5, FS_CardinalityType DEF WellFormed
  <2>3. promise' \in [Ids -> {"none", "pending", "resolved", "rejected", "abandoned"}]
    BY <1>6 DEF IInv, TypeOK
  <2>4. QED
    BY <1>5, <1>6, <2>1, <2>2, <2>3 DEF IInv, TypeOK, WellFormed
<1>8. NoStrandedWork'
  BY <1>5, <1>6 DEF NoStrandedWork, NoRunnable, Runnable
<1>9. QED
  BY <1>5, <1>7, <1>8 DEF IInv

LEMMA CancelIInv ==
  ASSUME IInv, NEW id \in Ids, Cancel(id)
  PROVE  IInv'
<1>1. PICK i \in DOMAIN queue : queue' = RemoveAt(queue, i)
  BY DEF Cancel
<1>2. /\ queue' \in Seq(Task) /\ UniqueIds(queue')
      /\ PendingIds(queue') \subseteq PendingIds(queue)
      /\ \A k \in DOMAIN queue' : \E j \in DOMAIN queue : queue'[k] = queue[j]
  BY <1>1, RemoveAtTasks DEF IInv, WellFormed
<1>3. /\ UNCHANGED <<active, activeCount, settled, completed, paused, drainWaiting,
                     loaded, owed, late>>
      /\ stored' = queue'
      /\ promise' = [promise EXCEPT ![id] = "abandoned"]
  BY DEF Cancel, historyVars, SaveQueue
<1>4. promise' \in [Ids -> {"none", "pending", "resolved", "rejected", "abandoned"}]
  BY <1>3 DEF IInv, TypeOK
<1>5. TypeOK'
  BY <1>2, <1>3, <1>4 DEF IInv, TypeOK
<1>6. WellFormed(queue', active', activeCount')
  BY <1>2, <1>3 DEF IInv, WellFormed
<1>7. NoStrandedWork'
  <2>. SUFFICES ASSUME AutoStart, ~paused, activeCount = 0, NEW k \in DOMAIN queue'
                PROVE  ~Runnable(queue'[k], completed)
    BY <1>3 DEF NoStrandedWork
  <2>1. PICK j \in DOMAIN queue : queue'[k] = queue[j]
    BY <1>2
  <2>2. QED
    BY <2>1 DEF IInv, NoStrandedWork
<1>8. QED
  BY <1>5, <1>6, <1>7 DEF IInv

LEMMA ResumeIInv ==
  ASSUME IInv, Resume
  PROVE  IInv'
<1>1. /\ WellFormed(queue', active', activeCount')
      /\ active \subseteq active'
      /\ drainWaiting' \in BOOLEAN /\ stored' \in Seq(Task)
      /\ activeCount' = 0 => NoRunnable(queue')
  <2>1. ProcessNext(queue, active, activeCount, FALSE, drainWaiting, FALSE)
    BY DEF Resume
  <2>2. drainWaiting \in BOOLEAN /\ stored \in Seq(Task) /\ WellFormed(queue, active, activeCount)
    BY DEF IInv, TypeOK
  <2>3. QED
    BY <2>1, <2>2, ProcessNextAccounts
<1>2. UNCHANGED <<settled, completed, promise, loaded, owed, late>> /\ paused' = FALSE
  BY DEF Resume, historyVars
<1>3. TypeOK'
  <2>1. settled' \in SUBSET active' /\ activeCount' \in Nat
    BY <1>1, <1>2, FS_CardinalityType DEF IInv, TypeOK, WellFormed
  <2>2. QED
    BY <1>1, <1>2, <2>1 DEF IInv, TypeOK, WellFormed
<1>4. NoStrandedWork'
  BY <1>1, <1>2 DEF NoStrandedWork, NoRunnable, Runnable
<1>5. QED
  BY <1>1, <1>3, <1>4 DEF IInv

\* A task that settles still holds its slot, so the dependents it makes runnable
\* are not stranded: its finally block is still to come.
LEMMA SettleIInv ==
  ASSUME IInv, NEW id \in Ids, NEW ok \in BOOLEAN, Settle(id, ok)
  PROVE  IInv'
<1>1. /\ UNCHANGED <<queue, active, activeCount, paused, drainWaiting, stored,
                     loaded, owed, late>>
      /\ settled' \in SUBSET active' /\ completed' \in SUBSET Ids
  BY DEF Settle, historyVars, IInv, TypeOK
<1>2. promise' \in [Ids -> {"none", "pending", "resolved", "rejected", "abandoned"}]
  BY DEF Settle, IInv, TypeOK
<1>3. TypeOK'
  BY <1>1, <1>2 DEF IInv, TypeOK
<1>4. activeCount # 0
  <2>1. id \in active /\ IsFiniteSet(active) /\ activeCount = Cardinality(active)
    BY DEF Settle, IInv, WellFormed
  <2>2. Cardinality(active) # 0
    BY <2>1, FS_EmptySet
  <2>3. QED
    BY <2>1, <2>2
<1>5. WellFormed(queue', active', activeCount')
  BY <1>1 DEF IInv, WellFormed
<1>6. NoStrandedWork'
  BY <1>1, <1>4 DEF NoStrandedWork
<1>7. QED
  BY <1>3, <1>5, <1>6 DEF IInv

LEMMA FinishIInv ==
  ASSUME IInv, NEW id \in Ids, Finish(id)
  PROVE  IInv'
<1>1. id \in active /\ IsFiniteSet(active) /\ activeCount = Cardinality(active)
  BY DEF Finish, IInv, TypeOK, WellFormed
<1>2. IsFiniteSet(active \ {id}) /\ Cardinality(active \ {id}) = activeCount - 1
  BY <1>1, FS_RemoveElement
<1>3. WellFormed(queue, active \ {id}, activeCount - 1)
  BY <1>1, <1>2, FS_CardinalityType, ConcurrencyAssumption DEF IInv, WellFormed
<1>4. /\ WellFormed(queue', active', activeCount')
      /\ active \ {id} \subseteq active'
      /\ drainWaiting' \in BOOLEAN /\ stored' \in Seq(Task)
      /\ ~paused /\ activeCount' = 0 => NoRunnable(queue')
  <2>1. ProcessNext(queue, active \ {id}, activeCount - 1, paused, drainWaiting, FALSE)
    BY DEF Finish
  <2>2. paused \in BOOLEAN /\ drainWaiting \in BOOLEAN /\ stored \in Seq(Task)
    BY DEF IInv, TypeOK
  <2>3. QED
    BY <1>3, <2>1, <2>2, ProcessNextAccounts
<1>5. /\ UNCHANGED <<completed, paused, promise, loaded, owed, late>>
      /\ settled' = settled \ {id}
  BY DEF Finish, historyVars
<1>6. TypeOK'
  <2>1. settled' \in SUBSET active' /\ activeCount' \in Nat
    BY <1>4, <1>5, FS_CardinalityType DEF IInv, TypeOK, WellFormed
  <2>2. QED
    BY <1>4, <1>5, <2>1 DEF IInv, TypeOK, WellFormed
<1>7. NoStrandedWork'
  BY <1>4, <1>5 DEF NoStrandedWork, NoRunnable, Runnable
<1>8. QED
  BY <1>4, <1>6, <1>7 DEF IInv

\* clear() and a reload leave an empty queue, in which nothing can be stranded.
LEMMA EmptiedIInv ==
  ASSUME IInv, Clear \/ Restart
  PROVE  IInv'
<1>1. queue' = <<>> /\ <<>> \in Seq(Task) /\ UniqueIds(<<>>) /\ PendingIds(<<>>) = {}
  BY EmptySeq DEF Clear, Restart, UniqueIds, PendingIds
<1>2. NoStrandedWork'
  BY <1>1 DEF NoStrandedWork
<1>3. CASE Clear
  <2>1. TypeOK'
    BY <1>1, <1>3 DEF Clear, SaveQueue, IInv, TypeOK
  <2>2. WellFormed(queue', active', activeCount')
    BY <1>1, <1>3 DEF Clear, IInv, WellFormed
  <2>3. QED
    BY <1>2, <2>1, <2>2 DEF IInv
<1>4. CASE Restart
  <2>1. PendingIds(queue) \in SUBSET Ids /\ PendingIds(stored) \in SUBSET Ids
    BY PendingIdsAreIds DEF IInv, TypeOK
  <2>2. TypeOK'
    BY <1>1, <1>4, <2>1 DEF Restart, IInv, TypeOK
  <2>3. WellFormed(queue', active', activeCount')
    BY <1>1, <1>4, FS_EmptySet, ConcurrencyAssumption DEF Restart, WellFormed
  <2>4. QED
    BY <1>2, <2>2, <2>3 DEF IInv
<1>5. QED
  BY <1>3, <1>4

\* Steps that leave the scheduler's state alone, pausing apart.
LEMMA OtherIInv ==
  ASSUME IInv, Pause \/ Drain \/ LoadQueue \/ UNCHANGED vars
  PROVE  IInv'
<1>1. UNCHANGED <<queue, active, activeCount, settled, completed, promise, stored, late>>
  BY DEF Pause, Drain, LoadQueue, vars, schedVars, clientVars, historyVars
<1>2. TypeOK'
  <2>1. PendingIds(stored) \in SUBSET Ids
    BY PendingIdsAreIds DEF IInv, TypeOK
  <2>2. QED
    BY <1>1, <2>1 DEF Pause, Drain, LoadQueue, vars, schedVars, clientVars, historyVars,
                      IInv, TypeOK
<1>3. WellFormed(queue', active', activeCount')
  BY <1>1 DEF IInv, WellFormed
<1>4. paused' = paused \/ paused' = TRUE
  BY DEF Pause, Drain, LoadQueue, vars, schedVars
<1>5. NoStrandedWork'
  BY <1>1, <1>4 DEF IInv, NoStrandedWork, Runnable
<1>6. QED
  BY <1>2, <1>3, <1>5 DEF IInv

LEMMA NextIInv == IInv /\ [Next]_vars => IInv'
BY AddIInv, CancelIInv, ResumeIInv, SettleIInv, FinishIInv, EmptiedIInv, OtherIInv DEF Next

LEMMA IInvSafety == IInv => SlotsAccounted
BY DEF IInv, WellFormed, UniqueIds, SlotsAccounted

THEOREM Invariance == Spec => []IInv
BY InitIInv, NextIInv, PTL DEF Spec

\* Every variable keeps its type, for any ids, priorities and concurrency.
THEOREM TypeCorrect == Spec => []TypeOK
<1>1. IInv => TypeOK
  BY DEF IInv
<1>2. QED
  BY <1>1, Invariance, PTL

\* Pending and running ids are disjoint and distinct and activeCount counts the
\* running tasks within concurrency, whatever is added, cancelled or fails.
THEOREM SlotsAccountedFor == Spec => []SlotsAccounted
BY Invariance, IInvSafety, PTL

\* An unpaused, auto-starting queue with nothing running holds nothing runnable:
\* no interleaving of calls loses the wake-up of a task.
THEOREM NothingStranded == Spec => []NoStrandedWork
<1>1. IInv => NoStrandedWork
  BY DEF IInv
<1>2. QED
  BY <1>1, Invariance, PTL
-----------------------------------------------------------------------------
(***************************************************************************)
(* The order of the queue, and what priority inheritance establishes.      *)
(***************************************************************************)
Descending(q) == \A i, j \in DOMAIN q : i < j => q[i].priority >= q[j].priority

\* NoPriorityInversion of the queue q when the ids of l were added late.
NoInversion(q, l) ==
  \A i, j \in DOMAIN q :
    q[j].id \in q[i].dependencies \ l => q[j].priority >= q[i].priority

\* The closure Boosted(q, t) holds tasks below t only, all those below t that t
\* depends on, and all those below t that one of its members depends on.
LEMMA BoostedClosed ==
  ASSUME NEW q, NEW t
  PROVE  /\ \A i \in Boosted(q, t) : i \in DOMAIN q /\ q[i].priority < t.priority
         /\ \A i \in DOMAIN q : q[i].priority < t.priority /\ q[i].id \in t.dependencies
                                  => i \in Boosted(q, t)
         /\ \A i \in DOMAIN q : \A k \in Boosted(q, t) :
              q[i].priority < t.priority /\ q[i].id \in q[k].dependencies => i \in Boosted(q, t)
BY Zenon DEF Boosted

\* The task that inherits its priority to others is not below itself.
LEMMA BoostedAppend ==
  ASSUME NEW q \in Seq(Task), NEW t \in Task
  PROVE  Boosted(Append(q, t), t) \subseteq Boosted(q, t)
<1> DEFINE r == Append(q, t)
           n == Len(q)
           low(s) == {i \in DOMAIN s : s[i].priority < t.priority}
           closed(s, S) == \A i \in low(s) :
             (\/ s[i].id \in t.dependencies
              \/ \E k \in S : s[i].id \in s[k].dependencies) => i \in S
<1>1. n \in Nat /\ DOMAIN q = 1 .. n
  BY LenProperties
<1>2. /\ r \in Seq(Task) /\ Len(r) = n+1
      /\ \A j \in 1 .. n : r[j] = q[j]
      /\ r[n+1] = t
  BY <1>1
<1>3. DOMAIN r = 1 .. n+1
  BY <1>1, <1>2, LenProperties
<1>4. t.priority \in Int
  BY PrioritiesAssumption DEF Task
<1>. HIDE DEF r, n
<1>5. low(r) = low(q)
  <2>1. ASSUME NEW i \in 1 .. n+1, r[i].priority < t.priority
        PROVE  i \in 1 .. n /\ r[i] = q[i]
    <3>1. CASE i = n+1
      BY <1>2, <1>4, <2>1, <3>1
    <3>2. CASE i # n+1
      BY <1>1, <1>2, <3>2
    <3>3. QED
      BY <3>1, <3>2
  <2>2. \A i \in 1 .. n : i \in 1 .. n+1
    BY <1>1
  <2>3. QED
    BY <1>1, <1>2, <1>3, <2>1, <2>2
<1>6. ASSUME NEW i \in Boosted(r, t)
      PROVE  i \in Boosted(q, t)
  <2>1. i \in low(r) /\ \A S \in SUBSET low(r) : closed(r, S) => i \in S
    BY <1>6 DEF Boosted
  <2>2. ASSUME NEW S \in SUBSET low(q), closed(q, S)
        PROVE  i \in S
    <3>1. \A k \in low(q) : r[k] = q[k]
      BY <1>1, <1>2
    <3>2. closed(r, S)
      <4>. HIDE DEF low
      <4>. QED BY <1>5, <2>2, <3>1
    <3>. HIDE DEF low, closed
    <3>3. QED
      BY <1>5, <2>1, <3>2
  <2>3. i \in low(q)
    BY <1>5, <2>1
  <2>4. QED
    BY <2>2, <2>3 DEF Boosted
<1>7. QED
  BY <1>6 DEF r

\* What inheritance changes of each task.
LEMMA InheritElements ==
  ASSUME NEW q \in Seq(Task), NEW t \in Task
  PROVE  /\ DOMAIN Inherit(q, t) = DOMAIN q
         /\ \A i \in DOMAIN q :
              /\ Inherit(q, t)[i] \in Task
              /\ Inherit(q, t)[i].id = q[i].id
              /\ Inherit(q, t)[i].dependencies = q[i].dependencies
              /\ i \in Boosted(q, t) => Inherit(q, t)[i].priority = t.priority
              /\ i \notin Boosted(q, t) => Inherit(q, t)[i] = q[i]
<1>1. \A i \in DOMAIN q : q[i] \in Task
  BY LenProperties, ElementOfSeq
<1>2. ASSUME NEW u \in Task
      PROVE  /\ [u EXCEPT !.priority = t.priority] \in Task
             /\ [u EXCEPT !.priority = t.priority].id = u.id
             /\ [u EXCEPT !.priority = t.priority].dependencies = u.dependencies
             /\ [u EXCEPT !.priority = t.priority].priority = t.priority
  BY DEF Task
<1>3. \A i \in DOMAIN q : Inherit(q, t)[i] = IF i \in Boosted(q, t)
                          THEN [q[i] EXCEPT !.priority = t.priority] ELSE q[i]
  BY DEF Inherit
<1>4. DOMAIN Inherit(q, t) = DOMAIN q
  BY DEF Inherit
<1>5. QED
  BY <1>1, <1>2, <1>3, <1>4

\* Sorting puts the tasks it is given in descending order of priority.
LEMMA SortedDescending ==
  ASSUME NEW q \in Seq(Task), NEW r \in Sorted(q)
  PROVE  /\ Descending(r)
         /\ \A k \in DOMAIN r : \E j \in DOMAIN q : r[k] = q[j]
<1> DEFINE n == Len(q)
<1>1. n \in Nat /\ DOMAIN q = 1 .. n
  BY LenProperties
<1>2. \A j \in 1 .. n : q[j].priority \in Int
  <2>1. \A j \in 1 .. n : q[j] \in Task
    BY ElementOfSeq
  <2>2. QED
    BY <2>1, PrioritiesAssumption DEF Task
<1>3. PICK f \in Bijection(1 .. n, 1 .. n) :
        /\ r = [j \in 1 .. n |-> q[f[j]]]
        /\ \A i, j \in 1 .. n : i < j => \/ q[f[i]].priority > q[f[j]].priority
                                         \/ q[f[i]].priority = q[f[j]].priority /\ f[i] < f[j]
  BY <1>1 DEF Sorted
<1>4. f \in [1 .. n -> 1 .. n]
  BY DEF Bijection, Injection
<1>. HIDE DEF n
<1>5. DOMAIN r = 1 .. n /\ \A j \in 1 .. n : f[j] \in 1 .. n /\ r[j] = q[f[j]]
  BY <1>3, <1>4
<1>6. Descending(r)
  BY <1>2, <1>3, <1>5 DEF Descending
<1>7. QED
  BY <1>1, <1>5, <1>6

\* The array add() leaves: the tasks that were pending, boosted or not, and t.
LEMMA AddedTasks ==
  ASSUME NEW u \in Seq(Task), UniqueIds(u), NEW t \in Task, t.id \notin PendingIds(u),
         NEW q \in Sorted(Inherit(Append(u, t), t))
  PROVE  /\ q \in Seq(Task) /\ UniqueIds(q) /\ PendingIds(q) = PendingIds(u) \cup {t.id}
         /\ Descending(q)
         /\ \A k \in DOMAIN q :
              \/ q[k] = t
              \/ \E i \in DOMAIN u :
                   /\ q[k].id = u[i].id /\ q[k].dependencies = u[i].dependencies
                   /\ \/ q[k].priority = u[i].priority
                      \/ q[k].priority = t.priority /\ i \in Boosted(u, t)
<1> DEFINE a == Append(u, t)
           b == Inherit(a, t)
           n == Len(u)
<1>1. a \in Seq(Task) /\ UniqueIds(a) /\ PendingIds(a) = PendingIds(u) \cup {t.id}
  BY AppendTask
<1>2. n \in Nat /\ DOMAIN u = 1 .. n
  BY LenProperties
<1>3. DOMAIN a = 1 .. n+1 /\ a[n+1] = t /\ \A i \in 1 .. n : a[i] = u[i]
  <2>1. Len(a) = n+1 /\ a[n+1] = t /\ \A i \in 1 .. n : a[i] = u[i]
    BY <1>2
  <2>. HIDE DEF a, n
  <2>2. QED
    BY <1>1, <2>1, LenProperties
<1>4. Boosted(a, t) \subseteq Boosted(u, t)
  BY BoostedAppend
<1>. HIDE DEF a, n
<1>5. b \in Seq(Task) /\ UniqueIds(b) /\ PendingIds(b) = PendingIds(a)
  BY <1>1, InheritTasks
<1>6. /\ DOMAIN b = DOMAIN a
      /\ \A i \in DOMAIN a : /\ b[i].id = a[i].id /\ b[i].dependencies = a[i].dependencies
                             /\ i \in Boosted(a, t) => b[i].priority = t.priority
                             /\ i \notin Boosted(a, t) => b[i] = a[i]
  BY <1>1, InheritElements
<1>7. q \in Sorted(b)
  BY DEF a
<1>. HIDE DEF b
<1>8. q \in Seq(Task) /\ UniqueIds(q) /\ PendingIds(q) = PendingIds(u) \cup {t.id}
  BY <1>1, <1>5, <1>7, SortedTasks
<1>9. Descending(q) /\ \A k \in DOMAIN q : \E i \in DOMAIN b : q[k] = b[i]
  BY <1>5, <1>7, SortedDescending
<1>10. ASSUME NEW k \in DOMAIN q
       PROVE  \/ q[k] = t
              \/ \E i \in DOMAIN u :
                   /\ q[k].id = u[i].id /\ q[k].dependencies = u[i].dependencies
                   /\ \/ q[k].priority = u[i].priority
                      \/ q[k].priority = t.priority /\ i \in Boosted(u, t)
  <2>1. PICK i \in 1 .. n+1 : q[k] = b[i]
    BY <1>3, <1>6, <1>9
  <2>2. n+1 \notin Boosted(a, t)
    <3>1. t.priority \in Int
      BY PrioritiesAssumption DEF Task
    <3>2. ~(t.priority < t.priority)
      BY <3>1
    <3>3. QED
      BY <1>3, <3>2, BoostedClosed
  <2>3. CASE i = n+1
    BY <1>2, <1>3, <1>6, <2>1, <2>2, <2>3
  <2>4. CASE i # n+1
    <3>1. i \in 1 .. n
      BY <1>2, <2>4
    <3>2. a[i] = u[i] /\ i \in DOMAIN a /\ i \in DOMAIN u
      BY <1>2, <1>3, <3>1
    <3>3. QED
      BY <1>4, <1>6, <2>1, <3>2
  <2>5. QED
    BY <2>3, <2>4
<1>11. QED
  BY <1>8, <1>9, <1>10

\* Inheritance restores what the new task may have broken: it and the tasks it
\* raised outrank nothing they wait for, unless that was added late.
LEMMA InheritNoInversion ==
  ASSUME NEW u \in Seq(Task), NEW t \in Task, t.id \notin PendingIds(u),
         NEW l, NoInversion(u, l),
         NEW m, \A x : x # t.id /\ x \in l => x \in m,
         (\E i \in DOMAIN u : t.id \in u[i].dependencies) => t.id \in m
  PROVE  NoInversion(Inherit(Append(u, t), t), m)
<1> DEFINE a == Append(u, t)
           b == Inherit(a, t)
           n == Len(u)
<1>1. n \in Nat /\ DOMAIN u = 1 .. n
  BY LenProperties
<1>2. a \in Seq(Task) /\ Len(a) = n+1 /\ a[n+1] = t /\ \A i \in 1 .. n : a[i] = u[i]
  BY <1>1
<1>. HIDE DEF a, n
<1>3. DOMAIN a = 1 .. n+1
  BY <1>1, <1>2, LenProperties
<1>4. /\ DOMAIN b = 1 .. n+1
      /\ \A i \in 1 .. n+1 : /\ b[i] \in Task
                             /\ b[i].id = a[i].id /\ b[i].dependencies = a[i].dependencies
                             /\ i \in Boosted(a, t) => b[i].priority = t.priority
                             /\ i \notin Boosted(a, t) => b[i] = a[i]
  BY <1>2, <1>3, InheritElements
<1>. HIDE DEF b
<1>5. t.priority \in Int /\ \A i \in 1 .. n+1 : a[i].priority \in Int
  <2>1. \A i \in 1 .. n+1 : a[i] \in Task
    BY <1>2, <1>3, ElementOfSeq
  <2>2. QED
    BY <2>1, PrioritiesAssumption DEF Task
<1>6. ASSUME NEW i \in 1 .. n+1, NEW j \in 1 .. n+1, b[j].id \in b[i].dependencies \ m
      PROVE  b[j].priority >= b[i].priority
  <2>1. a[j].id \in a[i].dependencies \ m
    BY <1>4, <1>6
  <2>2. \A k \in 1 .. n+1 : b[k].priority >= a[k].priority
    BY <1>3, <1>4, <1>5, BoostedClosed
  <2>3. CASE i = n+1
    <3>1. a[i] = t /\ i \notin Boosted(a, t)
      <4>1. ~(t.priority < t.priority)
        BY <1>5
      <4>2. QED
        BY <1>2, <1>3, <2>3, <4>1, BoostedClosed
    <3>2. b[i].priority = t.priority
      BY <1>4, <3>1
    <3>3. CASE a[j].priority < t.priority
      <4>1. j \in Boosted(a, t)
        BY <1>3, <2>1, <3>1, <3>3, BoostedClosed
      <4>2. QED
        BY <1>4, <1>5, <3>2, <4>1
    <3>4. CASE ~(a[j].priority < t.priority)
      <4>1. j \notin Boosted(a, t)
        BY <3>4, BoostedClosed
      <4>2. QED
        BY <1>4, <1>5, <3>2, <3>4, <4>1
    <3>5. QED
      BY <3>3, <3>4
  <2>4. CASE i # n+1 /\ j = n+1
    <3>1. i \in 1 .. n /\ a[i] = u[i] /\ a[j] = t
      BY <1>1, <1>2, <2>4
    <3>2. QED
      BY <1>1, <2>1, <3>1
  <2>5. CASE i # n+1 /\ j # n+1
    <3>1. i \in 1 .. n /\ j \in 1 .. n /\ a[i] = u[i] /\ a[j] = u[j]
      BY <1>1, <1>2, <2>5
    <3>2. u[j].id # t.id
      BY <1>1, <3>1 DEF PendingIds
    <3>3. a[j].priority >= a[i].priority
      <4>1. u[j].id \notin l
        BY <2>1, <3>1, <3>2
      <4>2. QED
        BY <1>1, <2>1, <3>1, <4>1 DEF NoInversion
    <3>4. CASE i \in Boosted(a, t)
      <4>1. b[i].priority = t.priority
        BY <1>4, <3>4
      <4>2. CASE a[j].priority < t.priority
        <5>1. j \in Boosted(a, t)
          BY <1>3, <2>1, <3>4, <4>2, BoostedClosed
        <5>2. QED
          BY <1>4, <1>5, <4>1, <5>1
      <4>3. CASE ~(a[j].priority < t.priority)
        <5>1. j \notin Boosted(a, t)
          BY <4>3, BoostedClosed
        <5>2. QED
          BY <1>4, <1>5, <4>1, <4>3, <5>1
      <4>4. QED
        BY <4>2, <4>3
    <3>5. CASE i \notin Boosted(a, t)
      <4>1. b[i].priority = a[i].priority
        BY <1>4, <3>5
      <4>2. b[j].priority >= a[j].priority /\ b[j].priority \in Int
        <5>1. b[j].priority = t.priority \/ b[j] = a[j]
          BY <1>4
        <5>2. QED
          BY <1>5, <2>2, <5>1
      <4>3. QED
        BY <1>5, <3>3, <4>1, <4>2
    <3>6. QED
      BY <3>4, <3>5
  <2>6. QED
    BY <2>3, <2>4, <2>5
<1>7. NoInversion(b, m)
  BY <1>4, <1>6 DEF NoInversion
<1>8. QED
  BY <1>7 DEF a, b

\* Dropping or permuting tasks inverts nothing.
LEMMA NoInversionOfTasks ==
  ASSUME NEW q, NEW r, \A k \in DOMAIN r : \E j \in DOMAIN q : r[k] = q[j],
         NEW l, NoInversion(q, l)
  PROVE  NoInversion(r, l)
<1>. SUFFICES ASSUME NEW i \in DOMAIN r, NEW j \in DOMAIN r, r[j].id \in r[i].dependencies \ l
              PROVE  r[j].priority >= r[i].priority
  BY DEF NoInversion
<1>1. PICK x \in DOMAIN q : r[i] = q[x]
  OBVIOUS
<1>2. PICK y \in DOMAIN q : r[j] = q[y]
  OBVIOUS
<1>3. QED
  BY <1>1, <1>2 DEF NoInversion

-----------------------------------------------------------------------------
(***************************************************************************)
(* What a step does to the order of the queue, to storage and to promises. *)
(***************************************************************************)
\* Task x of q is started: it is runnable, and no task left behind both is
\* runnable and outranks it.
Starts(q, act, x) ==
  /\ active' = act \cup {q[x].id}
  /\ PendingIds(queue') = PendingIds(q) \ {q[x].id}
  /\ Runnable(q[x], completed)
  /\ \A k \in DOMAIN queue' :
       Runnable(queue'[k], completed) => queue'[k].priority <= q[x].priority

StartsAtMostOne(q, act) ==
  \/ queue' = q /\ active' = act
  \/ \E x \in DOMAIN q : Starts(q, act, x)

\* processNext takes the first runnable task, which is the best as the queue is
\* sorted, and what it leaves in storage is the queue.
LEMMA ProcessNextTasks ==
  ASSUME NEW q \in Seq(Task), UniqueIds(q), Descending(q),
         NEW act, NEW cnt, NEW psd, NEW drn, NEW saved \in BOOLEAN,
         ProcessNext(q, act, cnt, psd, drn, saved)
  PROVE  /\ Descending(queue')
         /\ \A k \in DOMAIN queue' : \E j \in DOMAIN q : queue'[k] = q[j]
         /\ StartsAtMostOne(q, act)
         /\ stored' = queue' \/ (~saved /\ queue' = q /\ stored' = stored)
<1>1. CASE ProcessNextIdle(q, act, cnt, psd, drn)
           /\ IF saved THEN SaveQueue ELSE UNCHANGED stored
  BY <1>1 DEF ProcessNextIdle, SaveQueue, StartsAtMostOne
<1>2. CASE ProcessNextStart(q, act, cnt, psd, drn) /\ SaveQueue
  <2>1. PICK x \in DOMAIN q : /\ Runnable(q[x], completed)
                              /\ \A j \in DOMAIN q : j < x => ~Runnable(q[j], completed)
                              /\ queue' = RemoveAt(q, x)
                              /\ active' = act \cup {q[x].id}
    BY <1>2 DEF ProcessNextStart
  <2>2. /\ PendingIds(queue') = PendingIds(q) \ {q[x].id}
        /\ \A k \in DOMAIN queue' : \E j \in DOMAIN q : queue'[k] = q[j]
    BY <2>1, RemoveAtTasks
  <2>3. DOMAIN q \subseteq Nat /\ \A j \in DOMAIN q : q[j].priority \in Int
    <3>1. \A j \in DOMAIN q : q[j] \in Task
      BY LenProperties, ElementOfSeq
    <3>2. Len(q) \in Nat /\ DOMAIN q = 1 .. Len(q)
      BY LenProperties
    <3>3. DOMAIN q \subseteq Nat
      BY <3>2
    <3>4. \A j \in DOMAIN q : q[j].priority \in Int
      BY <3>1, PrioritiesAssumption DEF Task
    <3>5. QED
      BY <3>3, <3>4
  <2>4. Descending(queue')
    <3>. SUFFICES ASSUME NEW k \in DOMAIN queue', NEW l \in DOMAIN queue', k < l
                  PROVE  queue'[k].priority >= queue'[l].priority
      BY DEF Descending
    <3>1. PICK y \in DOMAIN q, z \in DOMAIN q : y < z /\ queue'[k] = q[y] /\ queue'[l] = q[z]
      BY <2>1, RemoveAtOrder
    <3>2. QED
      BY <3>1 DEF Descending
  <2>5. ASSUME NEW k \in DOMAIN queue', Runnable(queue'[k], completed)
        PROVE  queue'[k].priority <= q[x].priority
    <3>1. PICK y \in DOMAIN q : queue'[k] = q[y]
      BY <2>2
    <3>2. y # x
      BY <2>2, <3>1 DEF PendingIds
    <3>3. ~(y < x)
      BY <2>1, <2>5, <3>1
    <3>4. x < y
      BY <2>3, <3>2, <3>3
    <3>5. q[x].priority >= q[y].priority
      BY <3>4 DEF Descending
    <3>6. QED
      BY <2>3, <3>1, <3>5
  <2>6. Starts(q, act, x)
    BY <2>1, <2>2, <2>5 DEF Starts
  <2>7. QED
    BY <1>2, <2>2, <2>4, <2>6 DEF StartsAtMostOne, SaveQueue
<1>3. QED
  BY <1>1, <1>2 DEF ProcessNext

\* q is the array add() sorts.
Arranged(q, t) ==
  /\ q \in Seq(Task) /\ UniqueIds(q) /\ PendingIds(q) = PendingIds(queue) \cup {t.id}
  /\ Descending(q)
  /\ \A k \in DOMAIN q :
       \/ q[k] = t
       \/ \E i \in DOMAIN queue :
            /\ q[k].id = queue[i].id /\ q[k].dependencies = queue[i].dependencies
            /\ \/ q[k].priority = queue[i].priority
               \/ q[k].priority = t.priority /\ i \in Boosted(queue, t)

LEMMA AddTasks ==
  ASSUME IInv, NoPriorityInversion,
         NEW id \in Ids, NEW p \in Priorities, NEW deps \in SUBSET Ids, Add(id, p, deps)
  PROVE  /\ Descending(queue') /\ NoPriorityInversion' /\ stored' = queue'
         /\ \E q : /\ Arranged(q, [id |-> id, priority |-> p, dependencies |-> deps])
                   /\ \A k \in DOMAIN queue' : \E j \in DOMAIN q : queue'[k] = q[j]
                   /\ StartsAtMostOne(q, active)
<1> DEFINE t == [id |-> id, priority |-> p, dependencies |-> deps]
           b == Inherit(Append(queue, t), t)
<1>1. t \in Task /\ t.id = id
  BY DEF Task
<1>2. /\ queue \in Seq(Task) /\ UniqueIds(queue) /\ id \notin PendingIds(queue)
      /\ \E q \in Sorted(b) :
           IF AutoStart /\ ~paused
           THEN ProcessNext(q, active, activeCount, paused, drainWaiting, TRUE)
           ELSE queue' = q /\ stored' = queue' /\ active' = active
  BY DEF IInv, WellFormed, Add, Queued, SaveQueue
<1>3. PICK q \in Sorted(b) :
        IF AutoStart /\ ~paused
        THEN ProcessNext(q, active, activeCount, paused, drainWaiting, TRUE)
        ELSE queue' = q /\ stored' = queue' /\ active' = active
  BY <1>2
<1>4. NoInversion(b, late')
  <2>1. late' = IF \E i \in DOMAIN queue : id \in queue[i].dependencies
                THEN late \cup {id} ELSE late \ {id}
    BY DEF Add
  <2>2. \A x : x # t.id /\ x \in late => x \in late'
    BY <1>1, <2>1
  <2>3. (\E i \in DOMAIN queue : t.id \in queue[i].dependencies) => t.id \in late'
    BY <1>1, <2>1
  <2>4. NoInversion(queue, late)
    BY DEF NoPriorityInversion, NoInversion
  <2>. HIDE DEF t
  <2>5. QED
    BY <1>1, <1>2, <2>2, <2>3, <2>4, InheritNoInversion
<1>. HIDE DEF t
<1>5. Arranged(q, t)
  BY <1>1, <1>2, AddedTasks DEF Arranged
<1>6. NoInversion(q, late')
  <2>1. b \in Seq(Task)
    BY <1>1, <1>2, AppendTask, InheritTasks
  <2>. HIDE DEF b
  <2>2. \A k \in DOMAIN q : \E j \in DOMAIN b : q[k] = b[j]
    BY <2>1, SortedDescending
  <2>3. QED
    BY <1>4, <2>2, NoInversionOfTasks
<1>7. /\ Descending(queue')
      /\ \A k \in DOMAIN queue' : \E j \in DOMAIN q : queue'[k] = q[j]
      /\ StartsAtMostOne(q, active) /\ stored' = queue'
  <2>1. CASE AutoStart /\ ~paused
    <3>1. ProcessNext(q, active, activeCount, paused, drainWaiting, TRUE)
      BY <1>3, <2>1
    <3>2. QED
      BY <1>5, <3>1, ProcessNextTasks DEF Arranged
  <2>2. CASE ~(AutoStart /\ ~paused)
    BY <1>3, <1>5, <2>2 DEF Arranged, StartsAtMostOne
  <2>3. QED
    BY <2>1, <2>2
<1>8. NoInversion(queue', late')
  BY <1>6, <1>7, NoInversionOfTasks
<1>9. NoPriorityInversion'
  BY <1>8 DEF NoInversion, NoPriorityInversion
<1>10. QED
  BY <1>5, <1>7, <1>9 DEF t

-----------------------------------------------------------------------------
(***************************************************************************)
(* Order: the queue is sorted and inverts no priority.                     *)
(***************************************************************************)
OrderInv == IInv /\ Descending(queue) /\ NoPriorityInversion

\* The body of StartsHighestPriority.
StartsBest ==
  \A i \in DOMAIN queue : queue[i].id \in active' \ active =>
    \A j \in DOMAIN queue' : Runnable(queue'[j], completed') =>
      \/ queue'[j].priority <= queue[i].priority
      \/ \E k \in DOMAIN queue' : /\ queue'[k].id \notin PendingIds(queue)
                                  /\ i \in Boosted(queue, queue'[k])
                                  /\ queue'[j].priority <= queue'[k].priority

LEMMA InitOrder == Init => OrderInv
<1>1. Init => Descending(queue) /\ NoPriorityInversion
  BY DEF Init, Descending, NoPriorityInversion
<1>2. QED
  BY <1>1, InitIInv DEF OrderInv

LEMMA AddOrder ==
  ASSUME OrderInv, NEW id \in Ids, NEW p \in Priorities, NEW deps \in SUBSET Ids,
         Add(id, p, deps)
  PROVE  OrderInv' /\ StartsBest
<1> DEFINE t == [id |-> id, priority |-> p, dependencies |-> deps]
<1>1. IInv' /\ Descending(queue') /\ NoPriorityInversion'
  BY AddIInv, AddTasks DEF OrderInv
<1>2. PICK q : /\ Arranged(q, t)
               /\ \A k \in DOMAIN queue' : \E j \in DOMAIN q : queue'[k] = q[j]
               /\ StartsAtMostOne(q, active)
  BY AddTasks DEF OrderInv
<1>3. t.id = id /\ t.priority = p /\ completed' = completed /\ id \notin PendingIds(queue)
      /\ UniqueIds(queue)
  BY DEF Add, Queued, OrderInv, IInv, WellFormed
<1>. HIDE DEF t
<1>4. ASSUME NEW i \in DOMAIN queue, queue[i].id \in active' \ active,
             NEW j \in DOMAIN queue', Runnable(queue'[j], completed')
      PROVE  \/ queue'[j].priority <= queue[i].priority
             \/ \E k \in DOMAIN queue' : /\ queue'[k].id \notin PendingIds(queue)
                                         /\ i \in Boosted(queue, queue'[k])
                                         /\ queue'[j].priority <= queue'[k].priority
  <2>1. PICK x \in DOMAIN q : Starts(q, active, x)
    BY <1>2, <1>4 DEF StartsAtMostOne
  <2>2. q[x].id = queue[i].id /\ queue'[j].priority <= q[x].priority
        /\ PendingIds(queue') = PendingIds(q) \ {q[x].id}
    BY <1>3, <1>4, <2>1 DEF Starts
  <2>3. queue[i].id # id
    BY <1>3 DEF PendingIds
  <2>4. q[x].priority = queue[i].priority \/ (q[x].priority = p /\ i \in Boosted(queue, t))
    BY <1>2, <1>3, <2>2, <2>3 DEF Arranged, UniqueIds
  <2>5. CASE q[x].priority = queue[i].priority
    BY <2>2, <2>5
  <2>6. CASE q[x].priority = p /\ i \in Boosted(queue, t)
    <3>1. id \in PendingIds(queue')
      BY <1>2, <1>3, <2>2, <2>3 DEF Arranged
    <3>2. PICK k \in DOMAIN queue' : queue'[k].id = id
      BY <3>1 DEF PendingIds
    <3>3. PICK y \in DOMAIN q : queue'[k] = q[y]
      BY <1>2
    <3>4. \A w \in DOMAIN queue : queue[w].id # id
      BY <1>3 DEF PendingIds
    <3>5. queue'[k] = t
      BY <1>2, <3>2, <3>3, <3>4 DEF Arranged
    <3>6. QED
      BY <1>3, <2>2, <2>6, <3>2, <3>5
  <2>7. QED
    BY <2>4, <2>5, <2>6
<1>5. QED
  BY <1>1, <1>4 DEF OrderInv, StartsBest

\* Resume and Finish look for work in the queue as it is.
LEMMA ProcessNextOrder ==
  ASSUME OrderInv, NEW act \in SUBSET active, NEW cnt, NEW psd, NEW drn,
         ProcessNext(queue, act, cnt, psd, drn, FALSE),
         completed' = completed, late' = late
  PROVE  Descending(queue') /\ NoPriorityInversion' /\ StartsBest
<1>1. queue \in Seq(Task) /\ UniqueIds(queue) /\ Descending(queue) /\ NoInversion(queue, late)
  BY DEF OrderInv, IInv, WellFormed, NoPriorityInversion, NoInversion
<1>2. /\ Descending(queue')
      /\ \A k \in DOMAIN queue' : \E j \in DOMAIN queue : queue'[k] = queue[j]
      /\ StartsAtMostOne(queue, act)
  BY <1>1, ProcessNextTasks
<1>3. NoInversion(queue', late')
  BY <1>1, <1>2, NoInversionOfTasks
<1>4. StartsBest
  BY <1>1, <1>2 DEF StartsBest, StartsAtMostOne, Starts, UniqueIds
<1>5. QED
  BY <1>2, <1>3, <1>4 DEF NoPriorityInversion, NoInversion

LEMMA CancelOrder ==
  ASSUME OrderInv, NEW id \in Ids, Cancel(id)
  PROVE  Descending(queue') /\ NoPriorityInversion'
<1>1. PICK i \in DOMAIN queue : queue' = RemoveAt(queue, i)
  BY DEF Cancel
<1>2. queue \in Seq(Task) /\ UniqueIds(queue) /\ NoInversion(queue, late) /\ late' = late
  BY DEF OrderInv, IInv, WellFormed, NoPriorityInversion, NoInversion, Cancel, historyVars
<1>3. \A k \in DOMAIN queue' : \E j \in DOMAIN queue : queue'[k] = queue[j]
  BY <1>1, <1>2, RemoveAtTasks
<1>4. NoInversion(queue', late')
  BY <1>2, <1>3, NoInversionOfTasks
<1>5. Descending(queue')
  <2>. SUFFICES ASSUME NEW k \in DOMAIN queue', NEW l \in DOMAIN queue', k < l
                PROVE  queue'[k].priority >= queue'[l].priority
    BY DEF Descending
  <2>1. PICK y \in DOMAIN queue, z \in DOMAIN queue :
          y < z /\ queue'[k] = queue[y] /\ queue'[l] = queue[z]
    BY <1>1, <1>2, RemoveAtOrder
  <2>2. QED
    BY <2>1 DEF OrderInv, Descending
<1>6. QED
  BY <1>4, <1>5 DEF NoPriorityInversion, NoInversion

LEMMA NextOrder == OrderInv /\ [Next]_vars => OrderInv' /\ [StartsBest]_vars
<1>. SUFFICES ASSUME OrderInv, [Next]_vars PROVE OrderInv' /\ [StartsBest]_vars
  OBVIOUS
<1>1. IInv'
  BY NextIInv DEF OrderInv
<1>2. active' \subseteq active => StartsBest
  BY DEF StartsBest
<1>3. ASSUME NEW id \in Ids, NEW p \in Priorities, NEW deps \in SUBSET Ids, Add(id, p, deps)
      PROVE  OrderInv' /\ StartsBest
  BY <1>3, AddOrder
<1>4. ASSUME NEW id \in Ids, Cancel(id)
      PROVE  OrderInv' /\ StartsBest
  <2>1. active' = active
    BY <1>4 DEF Cancel
  <2>2. QED
    BY <1>1, <1>2, <1>4, <2>1, CancelOrder DEF OrderInv
<1>5. ASSUME NEW id \in Ids, Finish(id)
      PROVE  OrderInv' /\ StartsBest
  <2>1. /\ ProcessNext(queue, active \ {id}, activeCount - 1, paused, drainWaiting, FALSE)
        /\ completed' = completed /\ late' = late /\ active \ {id} \in SUBSET active
    BY <1>5 DEF Finish, historyVars
  <2>2. QED
    BY <1>1, <2>1, ProcessNextOrder DEF OrderInv
<1>6. CASE Resume
  <2>1. /\ ProcessNext(queue, active, activeCount, FALSE, drainWaiting, FALSE)
        /\ completed' = completed /\ late' = late /\ active \in SUBSET active
    BY <1>6 DEF Resume, historyVars
  <2>2. QED
    BY <1>1, <2>1, ProcessNextOrder DEF OrderInv
<1>7. CASE Clear \/ Restart
  <2>1. queue' = <<>> /\ active' \subseteq active
    BY <1>7 DEF Clear, Restart
  <2>2. Descending(queue') /\ NoPriorityInversion'
    BY <2>1 DEF Descending, NoPriorityInversion
  <2>3. QED
    BY <1>1, <1>2, <2>1, <2>2 DEF OrderInv
<1>8. ASSUME \/ Pause \/ Drain \/ LoadQueue \/ UNCHANGED vars
             \/ \E id \in Ids, ok \in BOOLEAN : Settle(id, ok)
      PROVE  OrderInv' /\ StartsBest
  <2>1. UNCHANGED <<queue, late, active>>
    BY <1>8 DEF Pause, Drain, LoadQueue, Settle, vars, schedVars, historyVars
  <2>2. QED
    BY <1>1, <1>2, <2>1 DEF OrderInv, Descending, NoPriorityInversion
<1>9. QED
  BY <1>3, <1>4, <1>5, <1>6, <1>7, <1>8 DEF Next

LEMMA Order == Spec => []OrderInv
BY InitOrder, NextOrder, PTL DEF Spec

\* A pending task waits, directly or through others, for no pending task of lower
\* priority that was there when it was added: applyPriorityInheritance is
\* transitive and no later call undoes it.
THEOREM PrioritiesInherited == Spec => []NoPriorityInversion
<1>1. OrderInv => NoPriorityInversion
  BY DEF OrderInv
<1>2. QED
  BY <1>1, Order, PTL

\* processNext starts the best task it could start, counting the priority a task
\* inherits from one being added, whatever came before.
THEOREM BestTaskStarts == Spec => StartsHighestPriority
<1>1. [StartsBest]_vars => [\A i \in DOMAIN queue : queue[i].id \in active' \ active =>
        \A j \in DOMAIN queue' : Runnable(queue'[j], completed') =>
          \/ queue'[j].priority <= queue[i].priority
          \/ \E k \in DOMAIN queue' : /\ queue'[k].id \notin PendingIds(queue)
                                      /\ i \in Boosted(queue, queue'[k])
                                      /\ queue'[j].priority <= queue'[k].priority]_vars
  BY DEF StartsBest
<1>2. QED
  BY <1>1, Order, NextOrder, PTL DEF Spec, StartsHighestPriority

-----------------------------------------------------------------------------
(***************************************************************************)
(* The queue implements WorkPool.  That a promise settles once is that the *)
(* promises of what is pending or runs are unsettled.                      *)
(***************************************************************************)
PromisesOpen == \A id \in PendingIds(queue) \cup (active \ settled) : promise[id] = "pending"

\* processNext() starts an item of the pool in a free slot, or leaves it as it is.
LEMMA ProcessNextIsStart ==
  ASSUME NEW q, NEW act, NEW cnt, NEW psd, NEW drn, NEW saved,
         WellFormed(q, act, cnt), settled' \in SUBSET act,
         ProcessNext(q, act, cnt, psd, drn, saved)
  PROVE  Pool!Start(PendingIds(q), act \ settled', Concurrency - cnt)
<1>1. CASE ProcessNextIdle(q, act, cnt, psd, drn)
  BY <1>1 DEF ProcessNextIdle, Pool!Start
<1>2. CASE ProcessNextStart(q, act, cnt, psd, drn)
  <2>1. PICK i \in DOMAIN q : queue' = RemoveAt(q, i) /\ active' = act \cup {q[i].id}
    BY <1>2 DEF ProcessNextStart
  <2>2. PendingIds(queue') = PendingIds(q) \ {q[i].id}
    BY <2>1, RemoveAtTasks DEF WellFormed
  <2>3. q[i].id \in PendingIds(q) /\ q[i].id \notin act
    BY DEF PendingIds, WellFormed
  <2>4. active' \ settled' = (act \ settled') \cup {q[i].id}
    BY <2>1, <2>3
  <2>5. cnt \in Nat /\ cnt < Concurrency /\ activeCount' = cnt + 1
    BY <1>2, FS_CardinalityType, ConcurrencyAssumption
       DEF WellFormed, ProcessNextStart, CannotStart
  <2>6. Concurrency - cnt > 0 /\ Concurrency - activeCount' = Concurrency - cnt - 1
    BY <2>5, ConcurrencyAssumption
  <2>7. QED
    BY <2>2, <2>3, <2>4, <2>6 DEF Pool!Start
<1>3. QED
  BY <1>1, <1>2 DEF ProcessNext

\* What is pending or runs after that was pending or running before.
LEMMA StartKeepsItems ==
  ASSUME NEW w, NEW r, NEW f, Pool!Start(w, r, f)
  PROVE  PendingIds(queue') \cup (active' \ settled') \subseteq w \cup r
BY DEF Pool!Start

LEMMA AddSubmits ==
  ASSUME OrderInv, PromisesOpen, NEW id \in Ids, NEW p \in Priorities, NEW deps \in SUBSET Ids,
         Add(id, p, deps)
  PROVE  Pool!Submit(id) /\ PromisesOpen'
<1> DEFINE t == [id |-> id, priority |-> p, dependencies |-> deps]
           b == Inherit(Append(queue, t), t)
<1>1. t \in Task /\ t.id = id
  BY DEF Task
<1>2. /\ queue \in Seq(Task) /\ UniqueIds(queue) /\ id \notin PendingIds(queue) /\ id \notin active
      /\ promise' = [promise EXCEPT ![id] = "pending"] /\ settled' = settled
      /\ settled \in SUBSET active /\ promise \in [Ids -> {"none", "pending", "resolved", "rejected", "abandoned"}]
  BY DEF OrderInv, IInv, WellFormed, TypeOK, Add, Queued
<1>3. PICK q \in Sorted(b) :
        IF AutoStart /\ ~paused
        THEN ProcessNext(q, active, activeCount, paused, drainWaiting, TRUE)
        ELSE queue' = q /\ UNCHANGED <<active, activeCount>>
  BY DEF Add
<1>. HIDE DEF t
<1>4. q \in Seq(Task) /\ UniqueIds(q) /\ PendingIds(q) = PendingIds(queue) \cup {id}
  <2>1. PendingIds(Append(queue, t)) = PendingIds(queue) \cup {id}
        /\ Append(queue, t) \in Seq(Task) /\ UniqueIds(Append(queue, t))
    BY <1>1, <1>2, AppendTask
  <2>2. b \in Seq(Task) /\ UniqueIds(b) /\ PendingIds(b) = PendingIds(Append(queue, t))
    BY <1>1, <2>1, InheritTasks
  <2>. HIDE DEF b
  <2>3. QED
    BY <2>1, <2>2, SortedTasks
<1>. HIDE DEF b
<1>5. Pool!Start(PendingIds(queue) \cup {id}, active \ settled, Concurrency - activeCount)
  <2>1. CASE AutoStart /\ ~paused
    <3>1. ProcessNext(q, active, activeCount, paused, drainWaiting, TRUE)
      BY <1>3, <2>1
    <3>2. WellFormed(q, active, activeCount)
      BY <1>2, <1>4 DEF OrderInv, IInv, WellFormed
    <3>3. settled' \in SUBSET active
      BY <1>2
    <3>4. Pool!Start(PendingIds(q), active \ settled', Concurrency - activeCount)
      BY <3>1, <3>2, <3>3, ProcessNextIsStart
    <3>5. QED
      BY <1>2, <1>4, <3>4
  <2>2. CASE ~(AutoStart /\ ~paused)
    BY <1>2, <1>3, <1>4, <2>2 DEF Pool!Start
  <2>3. QED
    BY <2>1, <2>2
<1>6. Pool!Submit(id)
  BY <1>2, <1>5 DEF Pool!Submit
<1>7. PendingIds(queue') \cup (active' \ settled') \subseteq PendingIds(queue) \cup {id} \cup (active \ settled)
  BY <1>5, StartKeepsItems
<1>8. PendingIds(queue) \in SUBSET Ids /\ active \in SUBSET Ids
  BY PendingIdsAreIds DEF OrderInv, IInv, TypeOK
<1>9. PromisesOpen'
  BY <1>2, <1>7, <1>8 DEF PromisesOpen
<1>10. QED
  BY <1>6, <1>9

\* cancel() and clear() withdraw what is pending.
LEMMA RemovalWithdraws ==
  ASSUME OrderInv, PromisesOpen, (\E id \in Ids : Cancel(id)) \/ Clear
  PROVE  (\E items \in SUBSET Ids : Pool!Withdraw(items)) /\ PromisesOpen'
<1>1. /\ queue \in Seq(Task) /\ UniqueIds(queue) /\ PendingIds(queue) \in SUBSET Ids
      /\ active \in SUBSET Ids /\ PendingIds(queue) \cap active = {}
      /\ promise \in [Ids -> {"none", "pending", "resolved", "rejected", "abandoned"}]
  BY PendingIdsAreIds DEF OrderInv, IInv, TypeOK, WellFormed
<1>2. PICK items \in SUBSET PendingIds(queue) :
        /\ PendingIds(queue') = PendingIds(queue) \ items
        /\ promise' = [i \in Ids |-> IF i \in items THEN "abandoned" ELSE promise[i]]
        /\ UNCHANGED <<active, settled, activeCount>>
  <2>1. ASSUME NEW id \in Ids, Cancel(id)
        PROVE  /\ {id} \in SUBSET PendingIds(queue)
               /\ PendingIds(queue') = PendingIds(queue) \ {id}
               /\ promise' = [i \in Ids |-> IF i \in {id} THEN "abandoned" ELSE promise[i]]
               /\ UNCHANGED <<active, settled, activeCount>>
    <3>1. PICK i \in DOMAIN queue : queue[i].id = id /\ queue' = RemoveAt(queue, i)
      BY <2>1 DEF Cancel
    <3>2. PendingIds(queue') = PendingIds(queue) \ {id}
      BY <1>1, <3>1, RemoveAtTasks
    <3>3. id \in PendingIds(queue)
      BY <3>1 DEF PendingIds
    <3>4. QED
      BY <1>1, <2>1, <3>2, <3>3 DEF Cancel
  <2>2. ASSUME Clear
        PROVE  /\ PendingIds(queue') = PendingIds(queue) \ PendingIds(queue)
               /\ promise' = [i \in Ids |-> IF i \in PendingIds(queue) THEN "abandoned" ELSE promise[i]]
               /\ UNCHANGED <<active, settled, activeCount>>
    BY <2>2 DEF Clear, PendingIds, Queued
  <2>3. QED
    BY <2>1, <2>2
<1>3. Pool!Withdraw(items)
  BY <1>2 DEF Pool!Withdraw
<1>4. PromisesOpen'
  BY <1>1, <1>2 DEF PromisesOpen
<1>5. QED
  BY <1>1, <1>2, <1>3, <1>4

LEMMA StepIsPooled ==
  OrderInv /\ PromisesOpen /\ [Next]_vars => [Pool!Next]_(Pool!vars) /\ PromisesOpen'
<1>. SUFFICES ASSUME OrderInv, PromisesOpen, [Next]_vars
              PROVE  [Pool!Next]_(Pool!vars) /\ PromisesOpen'
  OBVIOUS
<1>1. /\ WellFormed(queue, active, activeCount) /\ settled \in SUBSET active
      /\ active \in SUBSET Ids /\ PendingIds(queue) \in SUBSET Ids
      /\ PendingIds(queue) \cap active = {} /\ activeCount \in Nat
      /\ promise \in [Ids -> {"none", "pending", "resolved", "rejected", "abandoned"}]
  BY PendingIdsAreIds DEF OrderInv, IInv, TypeOK, WellFormed
<1>2. ASSUME NEW id \in Ids, NEW p \in Priorities, NEW deps \in SUBSET Ids, Add(id, p, deps)
      PROVE  Pool!Next /\ PromisesOpen'
  BY <1>2, AddSubmits DEF Pool!Next
<1>3. CASE (\E id \in Ids : Cancel(id)) \/ Clear
  BY <1>3, RemovalWithdraws DEF Pool!Next
<1>4. ASSUME NEW id \in Ids, NEW ok \in BOOLEAN, Settle(id, ok)
      PROVE  Pool!Next /\ PromisesOpen'
  <2>1. PICK outcome \in {"resolved", "rejected"} : promise' = [promise EXCEPT ![id] = outcome]
    BY <1>4 DEF Settle
  <2>2. /\ id \in active \ settled /\ settled' = settled \cup {id}
        /\ UNCHANGED <<queue, active, activeCount>> /\ promise[id] = "pending"
    BY <1>4 DEF Settle, PromisesOpen
  <2>3. active' \ settled' = (active \ settled) \ {id}
    BY <2>2
  <2>4. Pool!Answer(id, outcome)
    BY <2>1, <2>2, <2>3 DEF Pool!Answer
  <2>5. PromisesOpen'
    BY <1>1, <2>1, <2>2, <2>3 DEF PromisesOpen
  <2>6. QED
    BY <2>4, <2>5 DEF Pool!Next
<1>5. ASSUME NEW id \in Ids, Finish(id)
      PROVE  Pool!Next /\ PromisesOpen'
  <2>1. /\ id \in settled /\ settled' = settled \ {id} /\ promise' = promise
        /\ ProcessNext(queue, active \ {id}, activeCount - 1, paused, drainWaiting, FALSE)
    BY <1>5 DEF Finish
  <2>2. WellFormed(queue, active \ {id}, activeCount - 1)
    <3>1. IsFiniteSet(active \ {id}) /\ Cardinality(active \ {id}) = activeCount - 1
      BY <1>1, <2>1, FS_RemoveElement DEF WellFormed
    <3>2. QED
      BY <1>1, <3>1, ConcurrencyAssumption DEF WellFormed
  <2>3. Pool!Start(PendingIds(queue), (active \ {id}) \ settled', Concurrency - (activeCount - 1))
    <3>1. settled' \in SUBSET (active \ {id})
      BY <1>1, <2>1
    <3>2. QED
      BY <2>1, <2>2, <3>1, ProcessNextIsStart
  <2>4. /\ (active \ {id}) \ settled' = active \ settled
        /\ Concurrency - (activeCount - 1) = Concurrency - activeCount + 1
    BY <1>1, <2>1, ConcurrencyAssumption
  <2>5. Pool!Start(PendingIds(queue), active \ settled, Concurrency - activeCount + 1)
    BY <2>3, <2>4
  <2>6. Pool!Release(id)
    BY <2>1, <2>5 DEF Pool!Release
  <2>7. PromisesOpen'
    BY <2>1, <2>5, StartKeepsItems DEF PromisesOpen
  <2>8. QED
    BY <2>6, <2>7 DEF Pool!Next
<1>6. ASSUME Resume PROVE Pool!Next /\ PromisesOpen'
  <2>1. /\ ProcessNext(queue, active, activeCount, FALSE, drainWaiting, FALSE)
        /\ UNCHANGED <<settled, promise>>
    BY <1>6 DEF Resume
  <2>2. Pool!Start(PendingIds(queue), active \ settled, Concurrency - activeCount)
    BY <1>1, <2>1, ProcessNextIsStart
  <2>3. Pool!Look
    BY <2>1, <2>2 DEF Pool!Look
  <2>4. PromisesOpen'
    BY <2>1, <2>2, StartKeepsItems DEF PromisesOpen
  <2>5. QED
    BY <2>3, <2>4 DEF Pool!Next
<1>7. ASSUME Restart PROVE Pool!Next /\ PromisesOpen'
  <2>1. PendingIds(queue') = {} /\ active' \ settled' = {} /\ Concurrency - activeCount' = Concurrency
    BY <1>7, ConcurrencyAssumption DEF Restart, PendingIds
  <2>2. Pool!Restart
    BY <1>7, <2>1 DEF Restart, Pool!Restart
  <2>3. QED
    BY <2>1, <2>2 DEF Pool!Next, PromisesOpen
<1>8. CASE Pause \/ Drain \/ LoadQueue \/ UNCHANGED vars
  <2>1. UNCHANGED <<queue, active, activeCount, settled, promise>>
    BY <1>8 DEF Pause, Drain, LoadQueue, vars, schedVars, clientVars
  <2>2. QED
    BY <2>1 DEF Pool!vars, PromisesOpen
<1>9. QED
  BY <1>2, <1>3, <1>4, <1>5, <1>6, <1>7, <1>8 DEF Next

\* The task queue implements WorkPool, for any ids, priorities and concurrency, whether or
\* not ids are used again: a task starts in a free slot, holds it until the finally block
\* gives it back, and its promise settles once, while it runs, or never.
THEOREM QueueIsWorkPool == Spec => ImplementsWorkPool
<1>1. Init => Pool!Init /\ PromisesOpen
  <2>. SUFFICES ASSUME Init PROVE Pool!Init /\ PromisesOpen
    OBVIOUS
  <2>1. PendingIds(queue) = {} /\ active \ settled = {} /\ Concurrency - activeCount = Concurrency
    BY ConcurrencyAssumption DEF Init, PendingIds
  <2>2. QED
    BY <2>1 DEF Init, Pool!Init, PromisesOpen
<1>2. QED
  BY <1>1, InitOrder, NextOrder, StepIsPooled, PTL DEF Spec, ImplementsWorkPool, Pool!Spec
-----------------------------------------------------------------------------
(***************************************************************************)
(* Storage: what is stored is the queue, unless a reload has emptied the   *)
(* queue and nothing was added since; what callers who wait for loadQueue  *)
(* are owed is stored.                                                     *)
(***************************************************************************)
StoreInv ==
  /\ stored = queue \/ (queue = <<>> /\ active = {})
  /\ UniqueIds(stored)
  /\ loaded => owed = {}
  /\ WaitForLoad /\ ~loaded => queue = <<>> /\ owed \subseteq PendingIds(stored)

StoredInv == OrderInv /\ StoreInv

LEMMA InitStored == Init => StoredInv
BY InitOrder DEF Init, StoredInv, StoreInv, PendingIds, UniqueIds

\* With nothing pending, processNext neither starts a task nor saves.
LEMMA ProcessNextNothing ==
  ASSUME NEW act, NEW cnt, NEW psd, NEW drn, queue = <<>>,
         ProcessNext(queue, act, cnt, psd, drn, FALSE)
  PROVE  queue' = <<>> /\ stored' = stored /\ active' = act
BY DEF ProcessNext, ProcessNextIdle, ProcessNextStart, CannotStart

LEMMA ProcessNextStored ==
  ASSUME StoredInv, NEW act \in SUBSET active, NEW cnt, NEW psd, NEW drn,
         ProcessNext(queue, act, cnt, psd, drn, FALSE), UNCHANGED <<loaded, owed>>,
         UniqueIds(queue')
  PROVE  StoreInv'
<1>1. queue \in Seq(Task) /\ UniqueIds(queue) /\ Descending(queue)
  BY DEF StoredInv, OrderInv, IInv, WellFormed
<1>2. stored' = queue' \/ (queue' = queue /\ stored' = stored)
  BY <1>1, ProcessNextTasks
<1>3. queue = <<>> => queue' = <<>> /\ stored' = stored /\ active' = act
  BY ProcessNextNothing
<1>4. stored' = queue' \/ (queue' = <<>> /\ active' = {})
  BY <1>2, <1>3 DEF StoredInv, StoreInv
<1>5. UniqueIds(stored')
  BY <1>2 DEF StoredInv, StoreInv
<1>6. WaitForLoad /\ ~loaded' => queue' = <<>> /\ owed' \subseteq PendingIds(stored')
  BY <1>3 DEF StoredInv, StoreInv, PendingIds
<1>7. QED
  BY <1>4, <1>5, <1>6 DEF StoredInv, StoreInv, UniqueIds

LEMMA NextStored == StoredInv /\ [Next]_vars => StoredInv'
<1>. SUFFICES ASSUME StoredInv, [Next]_vars PROVE StoreInv'
  BY NextOrder DEF StoredInv
<1>0. UniqueIds(queue')
  BY NextOrder DEF StoredInv, OrderInv, IInv, WellFormed
<1>1. ASSUME NEW id \in Ids, NEW p \in Priorities, NEW deps \in SUBSET Ids, Add(id, p, deps)
      PROVE  StoreInv'
  <2>1. stored' = queue'
    BY <1>1, AddTasks DEF StoredInv, OrderInv
  <2>2. (WaitForLoad => loaded) /\ loaded' = loaded /\ owed' = owed
    BY <1>1 DEF Add
  <2>3. QED
    BY <1>0, <2>1, <2>2 DEF StoredInv, StoreInv, UniqueIds
<1>2. ASSUME NEW id \in Ids, Cancel(id)
      PROVE  StoreInv'
  <2>1. stored' = queue' /\ queue # <<>> /\ loaded' = loaded /\ owed' = owed
    BY <1>2 DEF Cancel, SaveQueue, historyVars
  <2>2. QED
    BY <1>0, <2>1 DEF StoredInv, StoreInv, UniqueIds
<1>3. ASSUME NEW id \in Ids, Finish(id)
      PROVE  StoreInv'
  <2>1. /\ ProcessNext(queue, active \ {id}, activeCount - 1, paused, drainWaiting, FALSE)
        /\ UNCHANGED <<loaded, owed>> /\ active \ {id} \in SUBSET active
    BY <1>3 DEF Finish, historyVars
  <2>2. QED
    BY <1>0, <2>1, ProcessNextStored
<1>4. CASE Resume
  <2>1. /\ ProcessNext(queue, active, activeCount, FALSE, drainWaiting, FALSE)
        /\ UNCHANGED <<loaded, owed>> /\ active \in SUBSET active
    BY <1>4 DEF Resume, historyVars
  <2>2. QED
    BY <1>0, <2>1, ProcessNextStored
<1>5. CASE Clear
  <2>1. queue' = <<>> /\ stored' = queue' /\ owed' = {} /\ loaded' = loaded
    BY <1>5 DEF Clear, SaveQueue
  <2>2. QED
    BY <2>1 DEF StoreInv, UniqueIds
<1>6. CASE Restart
  <2>1. /\ queue' = <<>> /\ active' = {} /\ stored' = stored /\ ~loaded'
        /\ owed' = PendingIds(queue) \cup owed
    BY <1>6 DEF Restart
  <2>2. PendingIds(queue) \subseteq PendingIds(stored)
    BY DEF StoredInv, StoreInv, PendingIds
  <2>3. QED
    BY <2>1, <2>2 DEF StoredInv, StoreInv, UniqueIds
<1>7. CASE LoadQueue
  <2>1. UNCHANGED <<queue, stored, active>> /\ loaded' /\ owed' = {}
    BY <1>7 DEF LoadQueue, schedVars
  <2>2. QED
    BY <2>1 DEF StoredInv, StoreInv, UniqueIds
<1>8. ASSUME \/ Pause \/ Drain \/ UNCHANGED vars
             \/ \E id \in Ids, ok \in BOOLEAN : Settle(id, ok)
      PROVE  StoreInv'
  <2>1. UNCHANGED <<queue, stored, active, loaded, owed>>
    BY <1>8 DEF Pause, Drain, Settle, vars, schedVars, historyVars
  <2>2. QED
    BY <2>1 DEF StoredInv, StoreInv, PendingIds, UniqueIds
<1>9. QED
  BY <1>1, <1>2, <1>3, <1>4, <1>5, <1>6, <1>7, <1>8 DEF Next

\* Callers who wait for loadQueue lose nothing to a reload: whatever was pending
\* when the page went away is among what loadQueue reads, however many reloads
\* came before it ran.
THEOREM ReloadKeepsPending == ASSUME WaitForLoad PROVE Spec => PendingSurvivesReload
<1>1. Spec => []StoredInv
  BY InitStored, NextStored, PTL DEF Spec
<1>2. StoredInv => [~loaded /\ loaded' => owed \subseteq PendingIds(stored)]_vars
  BY DEF StoredInv, StoreInv
<1>3. QED
  BY <1>1, <1>2, PTL DEF PendingSurvivesReload

-----------------------------------------------------------------------------
(***************************************************************************)
(* Promises: with ids used once, what is in completedTasks has resolved.   *)
(***************************************************************************)
PromiseInv ==
  /\ \A id \in completed : promise[id] = "resolved"
  /\ \A id \in PendingIds(queue) \cup (active \ settled) : promise[id] = "pending"

PromisedInv == OrderInv /\ PromiseInv

\* The body of StartsAfterDependencies.
StartsResolved ==
  \A i \in DOMAIN queue : queue[i].id \in active' \ active =>
    \A d \in queue[i].dependencies : promise[d] = "resolved"

LEMMA InitPromised == Init => PromisedInv
<1>1. Init => PromiseInv
  BY DEF Init, PromiseInv, PendingIds
<1>2. QED
  BY <1>1, InitOrder DEF PromisedInv

LEMMA AddPromised ==
  ASSUME PromisedInv, ~Reuse, NEW id \in Ids, NEW p \in Priorities, NEW deps \in SUBSET Ids,
         Add(id, p, deps)
  PROVE  PromiseInv' /\ StartsResolved
<1> DEFINE t == [id |-> id, priority |-> p, dependencies |-> deps]
<1>1. PICK q : Arranged(q, t) /\ StartsAtMostOne(q, active)
  BY AddTasks DEF PromisedInv, OrderInv
<1>2. t.id = id /\ UniqueIds(queue) /\ completed \subseteq Ids
      /\ promise \in [Ids -> {"none", "pending", "resolved", "rejected", "abandoned"}]
  BY DEF PromisedInv, OrderInv, IInv, TypeOK, WellFormed
<1>3. /\ promise[id] = "none" /\ promise' = [promise EXCEPT ![id] = "pending"]
      /\ completed' = completed /\ settled' = settled /\ id \notin PendingIds(queue)
  BY DEF Add, Queued
<1>. HIDE DEF t
<1>4. /\ PendingIds(queue') \subseteq PendingIds(queue) \cup {id}
      /\ active' \subseteq active \cup PendingIds(queue) \cup {id}
  BY <1>1, <1>2 DEF StartsAtMostOne, Starts, Arranged, PendingIds
<1>5. PromiseInv'
  <2>1. \A x \in completed' : promise'[x] = "resolved"
    BY <1>2, <1>3 DEF PromisedInv, PromiseInv
  <2>2. PendingIds(queue) \subseteq Ids /\ active \subseteq Ids
    BY PendingIdsAreIds DEF PromisedInv, OrderInv, IInv, TypeOK
  <2>3. ASSUME NEW x \in PendingIds(queue') \cup (active' \ settled')
        PROVE  promise'[x] = "pending"
    <3>1. x = id \/ x \in PendingIds(queue) \cup (active \ settled)
      BY <1>3, <1>4
    <3>2. QED
      BY <1>2, <1>3, <2>2, <3>1 DEF PromisedInv, PromiseInv
  <2>4. QED
    BY <2>1, <2>3 DEF PromiseInv
<1>6. ASSUME NEW i \in DOMAIN queue, queue[i].id \in active' \ active,
             NEW d \in queue[i].dependencies
      PROVE  promise[d] = "resolved"
  <2>1. PICK x \in DOMAIN q : Starts(q, active, x)
    BY <1>1, <1>6 DEF StartsAtMostOne
  <2>2. q[x].id = queue[i].id /\ Runnable(q[x], completed)
    BY <1>6, <2>1 DEF Starts
  <2>3. queue[i].id # id
    BY <1>3 DEF PendingIds
  <2>4. q[x].dependencies = queue[i].dependencies
    BY <1>1, <1>2, <2>2, <2>3 DEF Arranged, UniqueIds
  <2>5. QED
    BY <1>6, <2>2, <2>4 DEF Runnable, PromisedInv, PromiseInv
<1>7. QED
  BY <1>5, <1>6 DEF StartsResolved

LEMMA ProcessNextPromised ==
  ASSUME PromisedInv, NEW act \in SUBSET active, NEW cnt, NEW psd, NEW drn,
         ProcessNext(queue, act, cnt, psd, drn, FALSE), UNCHANGED <<completed, promise>>,
         act \ settled' \subseteq active \ settled
  PROVE  PromiseInv' /\ StartsResolved
<1>1. queue \in Seq(Task) /\ UniqueIds(queue) /\ Descending(queue)
  BY DEF PromisedInv, OrderInv, IInv, WellFormed
<1>2. StartsAtMostOne(queue, act)
  BY <1>1, ProcessNextTasks
<1>3. /\ PendingIds(queue') \subseteq PendingIds(queue)
      /\ active' \subseteq act \cup PendingIds(queue)
  BY <1>2 DEF StartsAtMostOne, Starts, PendingIds
<1>4. PromiseInv'
  <2>1. ASSUME NEW x \in PendingIds(queue') \cup (active' \ settled')
        PROVE  x \in PendingIds(queue) \cup (active \ settled)
    BY <1>3
  <2>2. QED
    BY <2>1 DEF PromisedInv, PromiseInv
<1>5. StartsResolved
  <2>. SUFFICES ASSUME NEW i \in DOMAIN queue, queue[i].id \in active' \ active,
                       NEW d \in queue[i].dependencies
                PROVE  promise[d] = "resolved"
    BY DEF StartsResolved
  <2>1. Runnable(queue[i], completed)
    BY <1>1, <1>2 DEF StartsAtMostOne, Starts, UniqueIds
  <2>2. QED
    BY <2>1 DEF Runnable, PromisedInv, PromiseInv
<1>6. QED
  BY <1>4, <1>5

LEMMA NextPromised ==
  ASSUME ~Reuse
  PROVE  PromisedInv /\ [Next]_vars => PromisedInv' /\ [StartsResolved]_vars
<1>. SUFFICES ASSUME PromisedInv, [Next]_vars PROVE PromiseInv' /\ [StartsResolved]_vars
  BY NextOrder DEF PromisedInv
<1>. USE DEF PromisedInv
<1>1. active' \subseteq active => StartsResolved
  BY DEF StartsResolved
<1>2. /\ promise \in [Ids -> {"none", "pending", "resolved", "rejected", "abandoned"}]
      /\ completed \subseteq Ids /\ PendingIds(queue) \subseteq Ids /\ active \subseteq Ids
      /\ PendingIds(queue) \cap active = {}
  BY PendingIdsAreIds DEF OrderInv, IInv, TypeOK, WellFormed
<1>3. ASSUME NEW id \in Ids, NEW p \in Priorities, NEW deps \in SUBSET Ids, Add(id, p, deps)
      PROVE  PromiseInv' /\ StartsResolved
  BY <1>3, AddPromised
<1>4. ASSUME NEW id \in Ids, Cancel(id)
      PROVE  PromiseInv' /\ StartsResolved
  <2>1. PICK i \in DOMAIN queue : queue[i].id = id /\ queue' = RemoveAt(queue, i)
    BY <1>4 DEF Cancel
  <2>2. PendingIds(queue') = PendingIds(queue) \ {id} /\ id \in PendingIds(queue)
    <3>1. PendingIds(queue') = PendingIds(queue) \ {id}
      BY <2>1, RemoveAtTasks DEF OrderInv, IInv, WellFormed
    <3>2. id \in PendingIds(queue)
      BY <2>1 DEF PendingIds
    <3>3. QED
      BY <3>1, <3>2
  <2>3. /\ promise' = [promise EXCEPT ![id] = "abandoned"]
        /\ UNCHANGED <<active, settled, completed>>
    BY <1>4 DEF Cancel
  <2>4. id \notin completed
    BY <2>2 DEF PromiseInv
  <2>5. \A x \in Ids : x # id => promise'[x] = promise[x]
    BY <1>2, <2>3
  <2>6. PromiseInv'
    <3>1. \A x \in completed' : promise'[x] = "resolved"
      BY <1>2, <2>3, <2>4, <2>5 DEF PromiseInv
    <3>2. \A x \in PendingIds(queue') \cup (active' \ settled') : promise'[x] = "pending"
      BY <1>2, <2>2, <2>3, <2>5 DEF PromiseInv
    <3>3. QED
      BY <3>1, <3>2 DEF PromiseInv
  <2>7. QED
    BY <1>1, <2>3, <2>6
<1>5. ASSUME NEW id \in Ids, Finish(id)
      PROVE  PromiseInv' /\ StartsResolved
  <2>1. /\ ProcessNext(queue, active \ {id}, activeCount - 1, paused, drainWaiting, FALSE)
        /\ UNCHANGED <<completed, promise>> /\ settled' = settled \ {id}
    BY <1>5 DEF Finish
  <2>2. active \ {id} \in SUBSET active /\ (active \ {id}) \ settled' \subseteq active \ settled
    BY <2>1
  <2>3. QED
    BY <2>1, <2>2, ProcessNextPromised
<1>6. CASE Resume
  <2>1. /\ ProcessNext(queue, active, activeCount, FALSE, drainWaiting, FALSE)
        /\ UNCHANGED <<completed, promise, settled>>
    BY <1>6 DEF Resume
  <2>2. active \in SUBSET active /\ active \ settled' \subseteq active \ settled
    BY <2>1
  <2>3. QED
    BY <2>1, <2>2, ProcessNextPromised
<1>7. ASSUME NEW id \in Ids, NEW ok \in BOOLEAN, Settle(id, ok)
      PROVE  PromiseInv' /\ StartsResolved
  <2>1. /\ id \in active \ settled /\ settled' = settled \cup {id}
        /\ completed' = IF ok THEN completed \cup {id} ELSE completed
        /\ promise' = [promise EXCEPT ![id] = IF ok THEN "resolved" ELSE "rejected"]
        /\ UNCHANGED <<queue, active>>
    BY <1>7 DEF Settle
  <2>2. id \notin completed /\ id \notin PendingIds(queue)
    BY <1>2, <2>1 DEF PromiseInv
  <2>3. /\ \A x \in Ids : x # id => promise'[x] = promise[x]
        /\ ok => promise'[id] = "resolved"
    BY <1>2, <2>1
  <2>4. PromiseInv'
    <3>1. \A x \in completed' : promise'[x] = "resolved"
      BY <1>2, <2>1, <2>2, <2>3 DEF PromiseInv
    <3>2. PendingIds(queue') = PendingIds(queue)
      BY <2>1 DEF PendingIds
    <3>3. \A x \in PendingIds(queue') \cup (active' \ settled') : promise'[x] = "pending"
      BY <1>2, <2>1, <2>2, <2>3, <3>2 DEF PromiseInv
    <3>4. QED
      BY <3>1, <3>3 DEF PromiseInv
  <2>5. QED
    BY <1>1, <2>1, <2>4
<1>8. CASE Clear
  <2>1. /\ queue' = <<>> /\ completed' = {} /\ UNCHANGED <<active, settled>>
        /\ promise' = [x \in Ids |-> IF Queued(x) THEN "abandoned" ELSE promise[x]]
    BY <1>8 DEF Clear
  <2>2. PendingIds(queue') = {}
    BY <2>1 DEF PendingIds
  <2>3. \A x \in active \ settled : promise'[x] = promise[x]
    BY <1>2, <2>1 DEF Queued
  <2>4. QED
    BY <1>1, <2>1, <2>2, <2>3 DEF PromiseInv
<1>9. CASE Restart
  <2>1. queue' = <<>> /\ completed' = {} /\ active' = {}
    BY <1>9 DEF Restart
  <2>2. PendingIds(queue') = {}
    BY <2>1 DEF PendingIds
  <2>3. QED
    BY <1>1, <2>1, <2>2 DEF PromiseInv
<1>10. CASE Pause \/ Drain \/ LoadQueue \/ UNCHANGED vars
  <2>1. UNCHANGED <<queue, active, settled, completed, promise>>
    BY <1>10 DEF Pause, Drain, LoadQueue, vars, schedVars, clientVars
  <2>2. QED
    BY <1>1, <2>1 DEF PromiseInv, PendingIds
<1>11. QED
  BY <1>3, <1>4, <1>5, <1>6, <1>7, <1>8, <1>9, <1>10 DEF Next

\* With ids used once, no task starts before the promise of each of its
\* dependencies has resolved: a failure, a cancellation or clear() never counts.
THEOREM DependenciesFirst == ASSUME ~Reuse PROVE Spec => StartsAfterDependencies
<1>1. PromisedInv /\ [Next]_vars => PromisedInv' /\ [StartsResolved]_vars
  BY NextPromised
<1>2. [StartsResolved]_vars =>
        [\A i \in DOMAIN queue : queue[i].id \in active' \ active =>
           \A d \in queue[i].dependencies : promise[d] = "resolved"]_vars
  BY DEF StartsResolved
<1>3. QED
  BY <1>1, <1>2, InitPromised, PTL DEF Spec, StartsAfterDependencies

-----------------------------------------------------------------------------
(***************************************************************************)
(* The offline queue.  Its steps are steps of the task queue, so what is   *)
(* proved of the task queue holds of it.                                   *)
(***************************************************************************)
LEMMA KeyInIds ==
  ASSUME OfflineTypeOK, NEW c \in Callers
  PROVE  RequestOf(c) \in Requests /\ (Key(c) # NoKey => Key(c) \in Ids /\ Key(c) \in Keys)
<1>1. RequestOf(c) \in Requests
  BY DEF OfflineTypeOK, Callers, RequestOf
<1>2. QED
  BY <1>1, KeyAssumption DEF Key, Keys

LEMMA CompleteIsNext ==
  ASSUME NEW C, NEW ok \in BOOLEAN, Complete(C, ok)
  PROVE  [Next]_vars
<1>1. CASE UNCHANGED queueVars
  BY <1>1 DEF queueVars, vars
<1>2. CASE \E id \in C \cap Ids : Settle(id, ok)
  BY <1>2 DEF Next
<1>3. QED
  BY <1>1, <1>2 DEF Complete

LEMMA QueueOfflineIsNext ==
  ASSUME NEW c, NEW id \in Ids, QueueOffline(c, id)
  PROVE  [Next]_vars
<1>1. CASE Complete({c}, FALSE)
  BY <1>1, CompleteIsNext
<1>2. CASE Add(id, 0, {})
  BY <1>2, PriorityAssumption DEF Next
<1>3. QED
  BY <1>1, <1>2 DEF QueueOffline

LEMMA ExecuteIsNext ==
  ASSUME OfflineTypeOK, NEW c \in Callers, Execute(c)
  PROVE  [Next]_vars
<1>1. CASE UNCHANGED queueVars
  BY <1>1 DEF queueVars, vars
<1>2. CASE Key(c) # NoKey /\ QueueOffline(c, Key(c))
  BY <1>2, KeyInIds, QueueOfflineIsNext
<1>3. CASE \E id \in Ids \ (made \cup Keys) : QueueOffline(c, id)
  BY <1>3, QueueOfflineIsNext
<1>4. QED
  BY <1>1, <1>2, <1>3 DEF Execute

LEMMA OfflineIsNext ==
  ASSUME OfflineTypeOK, [OfflineNext]_offlineVars
  PROVE  [Next]_vars
<1>1. ASSUME NEW r \in Requests, Request(r)
      PROVE  [Next]_vars
  BY <1>1, ExecuteIsNext DEF Request, Callers, queueVars, vars
<1>2. ASSUME NEW c \in Callers, Token(c)
      PROVE  [Next]_vars
  BY <1>2, ExecuteIsNext DEF Token
<1>3. ASSUME NEW c \in Callers, NEW ok \in BOOLEAN, Answer(c, ok)
      PROVE  [Next]_vars
  BY <1>3, CompleteIsNext DEF Answer
<1>4. ASSUME NEW c \in Callers, Propagate(c)
      PROVE  [Next]_vars
  <2>1. (promise[call[c]] = "resolved") \in BOOLEAN
    OBVIOUS
  <2>2. QED
    BY <1>4, <2>1, CompleteIsNext DEF Propagate
<1>5. ASSUME NEW id \in Ids, Retire(id)
      PROVE  [Next]_vars
  BY <1>5 DEF Retire, Next
<1>6. CASE Online
  BY <1>6 DEF Online, Next
<1>7. CASE Offline
  BY <1>7 DEF Offline, Next
<1>8. CASE Load
  BY <1>8 DEF Load, Next
<1>9. CASE NewPage
  BY <1>9 DEF NewPage, Next
<1>10. ASSUME NEW reason, Dispose(reason)
       PROVE  [Next]_vars
  BY <1>10 DEF Dispose, Next, queueVars, vars
<1>11. CASE RestoreNext
  <2>1. restoring \in Seq(Task) /\ restoring # <<>>
    BY <1>11 DEF RestoreNext, OfflineTypeOK
  <2>2. Head(restoring) \in Task
    BY <2>1, HeadTailProperties
  <2>3. Head(restoring).id \in Ids
    BY <2>2 DEF Task
  <2>4. UNCHANGED queueVars \/ Add(Head(restoring).id, 0, {})
    BY <1>11 DEF RestoreNext
  <2>5. QED
    BY <2>3, <2>4, PriorityAssumption DEF Next, queueVars, vars
<1>12. CASE UNCHANGED offlineVars
  BY <1>12 DEF offlineVars, queueVars, vars
<1>13. QED
  BY <1>1, <1>2, <1>3, <1>4, <1>5, <1>6, <1>7, <1>8, <1>9, <1>10, <1>11, <1>12
     DEF OfflineNext, Microtask, Proceeds

-----------------------------------------------------------------------------
(***************************************************************************)
(* QueuedProgresses needs to know what the calls and the queue say of each *)
(* other: a pending promise has a task behind it, a task that runs has a   *)
(* request under way, free slots are not left unused, and tasks that wait  *)
(* for one another do not wait in a circle.                                *)
(***************************************************************************)
\* The request() of a running task has not returned.
Busy(id) == id \in active \ settled

PromisesKept ==
  /\ \A id \in Ids : promise[id] = "pending" => Queued(id) \/ Busy(id)
  /\ \A c \in Callers : call[c] \in Ids => promise[call[c]] \in {"pending", "resolved", "rejected"}

TasksCall ==
  \A id \in Ids :
    /\ ~Busy(id) => call[id] = "none"
    /\ Busy(id) => call[id] \notin {"none", "done", "gone"}
    /\ Busy(id) /\ ~limiter => call[id] = "sent"

\* A deduplication key is the id of the one task that repeats its requests.
KeyMatches(id) == KeyOf[data[id]] = IF id \in Keys THEN id ELSE NoKey

KeysMatch ==
  \A id \in PendingIds(queue) \cup active \cup PendingIds(stored) \cup PendingIds(restoring) :
    KeyMatches(id)

RestoresFirst == restoring # <<>> => settled = {} /\ \A c \in Callers : ~Answered(c)

NoCircle == \A S \in SUBSET active : S # {} => \E id \in S : call[id] \notin S

UnderWay(id) == id \in settled \/ call[id] \in {"limited", "sent"}

SlotsUsed ==
  AutoStart /\ ~paused /\ activeCount < Concurrency /\ queue # <<>> =>
    \E id \in active : UnderWay(id)

NoDependencies == \A i \in DOMAIN queue : queue[i].dependencies = {}

CallsInv ==
  /\ OfflineTypeOK /\ NoDependencies /\ PromisesKept /\ TasksCall /\ KeysMatch
  /\ RestoresFirst /\ NoCircle /\ SlotsUsed

QueuedInv == StoredInv /\ CallsInv

-----------------------------------------------------------------------------
(***************************************************************************)
(* Steps that start tasks.                                                 *)
(***************************************************************************)
\* processNext over the pending ids pend: it starts one, or has a reason not to.
LookedForWork(pend, act) ==
  \/ /\ \E x \in pend : active' = act \cup {x} /\ PendingIds(queue') = pend \ {x}
     /\ stored' = queue'
  \/ /\ active' = act /\ PendingIds(queue') = pend
     /\ AutoStart => paused' \/ activeCount' >= Concurrency \/ queue' = <<>>

LEMMA ProcessNextLooks ==
  ASSUME NEW q \in Seq(Task), UniqueIds(q), Descending(q),
         \A i \in DOMAIN q : q[i].dependencies = {},
         NEW act, NEW cnt, NEW drn, NEW saved \in BOOLEAN,
         ProcessNext(q, act, cnt, paused', drn, saved)
  PROVE  /\ LookedForWork(PendingIds(q), act)
         /\ \A i \in DOMAIN queue' : queue'[i].dependencies = {}
         /\ stored' = queue' \/ stored' = stored
<1>1. \A k \in DOMAIN queue' : \E j \in DOMAIN q : queue'[k] = q[j]
  BY ProcessNextTasks
<1>2. stored' = queue' \/ stored' = stored
  BY ProcessNextTasks
<1>3. CASE ProcessNextIdle(q, act, cnt, paused', drn)
  <2>1. queue' = q /\ active' = act /\ activeCount' = cnt
    BY <1>3 DEF ProcessNextIdle
  <2>2. paused' \/ cnt >= Concurrency \/ q = <<>> \/ \A i \in DOMAIN q : ~Runnable(q[i], completed)
    BY <1>3 DEF ProcessNextIdle, CannotStart
  <2>3. \A i \in DOMAIN q : Runnable(q[i], completed)
    BY DEF Runnable
  <2>4. DOMAIN q = {} => q = <<>>
    BY EmptySeq, LenProperties
  <2>5. paused' \/ cnt >= Concurrency \/ q = <<>>
    BY <2>2, <2>3, <2>4
  <2>6. QED
    BY <1>1, <1>2, <2>1, <2>5 DEF LookedForWork
<1>4. CASE ProcessNextStart(q, act, cnt, paused', drn) /\ SaveQueue
  <2>1. PICK x \in DOMAIN q : queue' = RemoveAt(q, x) /\ active' = act \cup {q[x].id}
    BY <1>4 DEF ProcessNextStart
  <2>2. PendingIds(queue') = PendingIds(q) \ {q[x].id}
    BY <2>1, RemoveAtTasks
  <2>3. q[x].id \in PendingIds(q)
    BY DEF PendingIds
  <2>4. stored' = queue'
    BY <1>4 DEF SaveQueue
  <2>5. LookedForWork(PendingIds(q), act)
    BY <2>1, <2>2, <2>3, <2>4 DEF LookedForWork
  <2>6. QED
    BY <1>1, <1>2, <2>5
<1>5. QED
  BY <1>3, <1>4 DEF ProcessNext

\* add() of a task without dependencies.
LEMMA AddLooks ==
  ASSUME StoredInv, NoDependencies, NEW id \in Ids, Add(id, 0, {})
  PROVE  /\ LookedForWork(PendingIds(queue) \cup {id}, active)
         /\ NoDependencies' /\ stored' = queue'
         /\ paused => active' = active /\ PendingIds(queue') = PendingIds(queue) \cup {id}
<1> DEFINE t == [id |-> id, priority |-> 0, dependencies |-> {}]
<1>1. t \in Task /\ t.id = id /\ t.dependencies = {}
  BY PriorityAssumption DEF Task
<1>2. /\ queue \in Seq(Task) /\ UniqueIds(queue) /\ id \notin PendingIds(queue)
      /\ \E q \in Sorted(Inherit(Append(queue, t), t)) :
           IF AutoStart /\ ~paused
           THEN ProcessNext(q, active, activeCount, paused, drainWaiting, TRUE)
           ELSE queue' = q /\ stored' = queue' /\ active' = active
  BY DEF StoredInv, OrderInv, IInv, WellFormed, Add, Queued, SaveQueue
<1>3. stored' = queue' /\ paused' = paused
  <2>1. IInv /\ NoPriorityInversion /\ 0 \in Priorities /\ {} \in SUBSET Ids
    BY PriorityAssumption DEF StoredInv, OrderInv
  <2>2. stored' = queue'
    BY <2>1, AddTasks
  <2>3. QED
    BY <2>2 DEF Add
<1>4. PICK q \in Sorted(Inherit(Append(queue, t), t)) :
        IF AutoStart /\ ~paused
        THEN ProcessNext(q, active, activeCount, paused, drainWaiting, TRUE)
        ELSE queue' = q /\ stored' = queue' /\ active' = active
  BY <1>2
<1>. HIDE DEF t
<1>5. Arranged(q, t)
  BY <1>1, <1>2, AddedTasks DEF Arranged
<1>6. q \in Seq(Task) /\ UniqueIds(q) /\ Descending(q) /\ PendingIds(q) = PendingIds(queue) \cup {id}
  BY <1>1, <1>5 DEF Arranged
<1>7. \A k \in DOMAIN q : q[k].dependencies = {}
  BY <1>1, <1>5 DEF Arranged, NoDependencies
<1>8. CASE AutoStart /\ ~paused
  <2>1. ProcessNext(q, active, activeCount, paused', drainWaiting, TRUE)
    BY <1>3, <1>4, <1>8
  <2>2. LookedForWork(PendingIds(q), active) /\ \A i \in DOMAIN queue' : queue'[i].dependencies = {}
    BY <1>6, <1>7, <2>1, ProcessNextLooks
  <2>3. QED
    BY <1>3, <1>6, <1>8, <2>2 DEF NoDependencies
<1>9. CASE ~(AutoStart /\ ~paused)
  <2>1. queue' = q /\ active' = active
    BY <1>4, <1>9
  <2>2. QED
    BY <1>3, <1>6, <1>7, <1>9, <2>1 DEF NoDependencies, LookedForWork
<1>10. QED
  BY <1>8, <1>9

LEMMA WorkStep ==
  ASSUME QueuedInv, StoredInv',
         NEW new \in SUBSET Ids, new \cap active = {},
         NEW act \in SUBSET active, active \ act \subseteq settled, settled' = settled \cap act,
         LookedForWork(PendingIds(queue) \cup new, act), NoDependencies',
         stored' = queue' \/ stored' = stored,
         \A x \in Ids : promise'[x] = IF x \in new THEN "pending" ELSE promise[x],
         UNCHANGED <<limiter, data, made, page>>,
         call' = WithStarted(call),
         restoring' \in Seq(Task), new \subseteq PendingIds(restoring),
         PendingIds(restoring') \subseteq PendingIds(restoring),
         restoring' # <<>> => restoring # <<>>,
         RecordSent
  PROVE  QueuedInv'
<1> DEFINE pend == PendingIds(queue) \cup new
<1>1. /\ PendingIds(queue) \subseteq Ids /\ active \subseteq Ids /\ settled \subseteq active
      /\ PendingIds(queue) \cap active = {}
  BY PendingIdsAreIds DEF QueuedInv, StoredInv, OrderInv, IInv, TypeOK, WellFormed
<1>2. /\ active' \subseteq act \cup pend /\ act \subseteq active'
      /\ \A x \in active' \ active : x \in pend
      /\ \A x \in active' : x \in act \/ x \in active' \ active
      /\ \A x \in pend : x \in PendingIds(queue') \/ x \in active' \ active
      /\ PendingIds(queue') \subseteq pend
  <2>1. pend \cap active = {} /\ act \subseteq active
    BY <1>1
  <2>. HIDE DEF pend
  <2>2. CASE \E x \in pend : active' = act \cup {x} /\ PendingIds(queue') = pend \ {x}
    BY <2>1, <2>2
  <2>3. CASE active' = act /\ PendingIds(queue') = pend
    BY <2>1, <2>3
  <2>4. QED
    BY <2>2, <2>3 DEF LookedForWork, pend
<1>. HIDE DEF pend
<1>3. /\ \A c \in Callers : call'[c] = IF c \in active' \ active
                              THEN (IF limiter THEN "limited" ELSE "sent") ELSE call[c]
      /\ call' \in [Callers -> Statuses \cup Ids]
  BY DEF WithStarted, QueuedInv, CallsInv, OfflineTypeOK, Statuses
<1>4. Ids \subseteq Callers /\ Requests \subseteq Callers /\ Statuses \cap Ids = {}
  BY KeyAssumption DEF Callers
<1>5. \A c \in Callers : call'[c] \in Ids => call'[c] = call[c]
  BY <1>3, <1>4 DEF Statuses
<1>6. OfflineTypeOK'
  <2>1. sent' \in SUBSET Requests
    BY DEF RecordSent, QueuedInv, CallsInv, OfflineTypeOK, Callers
  <2>2. TypeOK'
    BY DEF StoredInv, OrderInv, IInv
  <2>3. QED
    BY <1>3, <2>1, <2>2 DEF QueuedInv, CallsInv, OfflineTypeOK
<1>7. \A x \in Ids : Busy(x)' <=> x \in active' \ active \/ Busy(x)
  BY <1>1, <1>2 DEF Busy
<1>8. PromisesKept'
  <2>1. ASSUME NEW x \in Ids, promise'[x] = "pending"
        PROVE  Queued(x)' \/ Busy(x)'
    <3>1. x \in pend \/ Busy(x)
      BY <2>1 DEF pend, QueuedInv, CallsInv, PromisesKept, Queued
    <3>2. QED
      BY <1>2, <1>7, <3>1 DEF Queued
  <2>2. ASSUME NEW c \in Callers, call'[c] \in Ids
        PROVE  promise'[call'[c]] \in {"pending", "resolved", "rejected"}
    BY <1>5, <2>2 DEF QueuedInv, CallsInv, PromisesKept
  <2>3. QED
    BY <2>1, <2>2 DEF PromisesKept
<1>9. TasksCall'
  <2>. SUFFICES ASSUME NEW x \in Ids
                PROVE  /\ ~Busy(x)' => call'[x] = "none"
                       /\ Busy(x)' => call'[x] \notin {"none", "done", "gone"}
                       /\ Busy(x)' /\ ~limiter' => call'[x] = "sent"
    BY DEF TasksCall
  <2>1. CASE x \in active' \ active
    BY <1>3, <1>4, <1>7, <2>1
  <2>2. CASE x \notin active' \ active
    BY <1>3, <1>4, <1>7, <2>2 DEF QueuedInv, CallsInv, TasksCall
  <2>3. QED
    BY <2>1, <2>2
<1>10. KeysMatch'
  <2>1. /\ PendingIds(stored') \subseteq PendingIds(stored) \cup pend
        /\ PendingIds(queue') \subseteq pend /\ active' \subseteq active \cup pend
        /\ pend \subseteq PendingIds(queue) \cup PendingIds(restoring)
    BY <1>2 DEF pend
  <2>2. QED
    BY <2>1 DEF QueuedInv, CallsInv, KeysMatch, KeyMatches
<1>11. RestoresFirst'
  <2>. SUFFICES ASSUME restoring' # <<>> PROVE settled' = {} /\ \A c \in Callers : ~Answered(c)'
    BY DEF RestoresFirst
  <2>1. settled = {} /\ \A c \in Callers : ~Answered(c)
    BY DEF QueuedInv, CallsInv, RestoresFirst
  <2>2. ASSUME NEW c \in Callers PROVE ~Answered(c)'
    BY <1>5, <2>1 DEF Answered
  <2>3. QED
    BY <2>1, <2>2
<1>12. NoCircle'
  <2>. SUFFICES ASSUME NEW S \in SUBSET active', S # {} PROVE \E x \in S : call'[x] \notin S
    BY DEF NoCircle
  <2>1. S \subseteq Ids
    BY DEF StoredInv, OrderInv, IInv, TypeOK
  <2>2. CASE \E x \in S : x \in active' \ active
    BY <1>3, <1>4, <2>1, <2>2 DEF Statuses
  <2>3. CASE \A x \in S : x \notin active' \ active
    <3>1. S \in SUBSET active
      BY <2>3
    <3>2. PICK x \in S : call[x] \notin S
      BY <3>1 DEF QueuedInv, CallsInv, NoCircle
    <3>3. call'[x] = call[x]
      BY <1>3, <1>4, <2>1, <2>3
    <3>4. QED
      BY <3>2, <3>3
  <2>4. QED
    BY <2>2, <2>3
<1>13. SlotsUsed'
  <2>. SUFFICES ASSUME AutoStart, ~paused', activeCount' < Concurrency, queue' # <<>>
                PROVE  \E x \in active' : UnderWay(x)'
    BY DEF SlotsUsed
  <2>1. ~(activeCount' >= Concurrency)
    BY ConcurrencyAssumption DEF StoredInv, OrderInv, IInv, TypeOK
  <2>2. PICK x \in pend : x \in active'
    BY <2>1 DEF LookedForWork, pend
  <2>3. x \notin active /\ x \in Ids
    BY <1>1, <2>2 DEF pend
  <2>4. QED
    BY <1>3, <1>4, <2>2, <2>3 DEF UnderWay
<1>14. QED
  BY <1>6, <1>8, <1>9, <1>10, <1>11, <1>12, <1>13 DEF QueuedInv, CallsInv

LEMMA HeadTailIds ==
  ASSUME NEW q \in Seq(Task), q # <<>>
  PROVE  /\ Head(q) \in Task /\ Tail(q) \in Seq(Task)
         /\ PendingIds(q) = {Head(q).id} \cup PendingIds(Tail(q))
         /\ UniqueIds(q) => UniqueIds(Tail(q)) /\ Head(q).id \notin PendingIds(Tail(q))
<1> DEFINE t == Tail(q)
           n == Len(q)
<1>1. /\ Head(q) \in Task /\ t \in Seq(Task) /\ Len(t) = n-1
      /\ \A i \in 1 .. Len(t) : t[i] = q[i+1]
  BY HeadTailProperties
<1>2. n \in Nat /\ n # 0 /\ DOMAIN q = 1 .. n /\ Head(q) = q[1]
  BY LenProperties, EmptySeq
<1>3. DOMAIN t = 1 .. n-1
  <2>. HIDE DEF t, n
  <2>1. QED
    BY <1>1, <1>2, LenProperties
<1>. HIDE DEF t, n
<1>4. \A i \in 1 .. n-1 : i+1 \in 1 .. n /\ i+1 # 1 /\ t[i] = q[i+1]
  BY <1>1, <1>2
<1>5. \A i \in 1 .. n : i = 1 \/ (i-1 \in 1 .. n-1 /\ (i-1)+1 = i)
  BY <1>2
<1>6. 1 \in 1 .. n
  BY <1>2
<1>7. PendingIds(q) = {Head(q).id} \cup PendingIds(t)
  <2>1. ASSUME NEW i \in 1 .. n PROVE q[i].id \in {Head(q).id} \cup PendingIds(t)
    <3>1. CASE i = 1
      BY <1>2, <3>1
    <3>2. CASE i # 1
      <4>1. i-1 \in 1 .. n-1 /\ (i-1)+1 = i
        BY <1>5, <3>2
      <4>2. t[i-1] = q[i]
        BY <1>4, <4>1
      <4>3. QED
        BY <1>3, <4>1, <4>2 DEF PendingIds
    <3>3. QED
      BY <3>1, <3>2
  <2>2. ASSUME NEW i \in 1 .. n-1 PROVE t[i].id \in PendingIds(q)
    BY <1>2, <1>4 DEF PendingIds
  <2>3. Head(q).id \in PendingIds(q)
    BY <1>2, <1>6 DEF PendingIds
  <2>4. QED
    BY <1>2, <1>3, <2>1, <2>2, <2>3 DEF PendingIds
<1>8. ASSUME UniqueIds(q)
      PROVE  UniqueIds(t) /\ Head(q).id \notin PendingIds(t)
  <2>1. ASSUME NEW i \in 1 .. n-1, NEW j \in 1 .. n-1, t[i].id = t[j].id
        PROVE  i = j
    <3>1. i+1 = j+1
      BY <1>2, <1>4, <1>8, <2>1 DEF UniqueIds
    <3>2. QED
      BY <3>1
  <2>2. ASSUME NEW i \in 1 .. n-1 PROVE t[i].id # Head(q).id
    BY <1>2, <1>4, <1>6, <1>8 DEF UniqueIds
  <2>3. QED
    BY <1>3, <2>1, <2>2 DEF UniqueIds, PendingIds
<1>9. QED
  BY <1>1, <1>7, <1>8 DEF t

LEMMA RestoreQueued == ASSUME QueuedInv, StoredInv', RestoreNext PROVE QueuedInv'
<1> DEFINE id == Head(restoring).id
<1>1. /\ restoring \in Seq(Task) /\ restoring # <<>> /\ restoring' = Tail(restoring)
      /\ UNCHANGED <<limiter, data, made, page>> /\ RecordSent
  BY DEF RestoreNext, QueuedInv, CallsInv, OfflineTypeOK
<1>2. /\ id \in Ids /\ restoring' \in Seq(Task)
      /\ PendingIds(restoring) = {id} \cup PendingIds(restoring')
  BY <1>1, HeadTailIds DEF Task
<1>. HIDE DEF id
<1>3. CASE UNCHANGED <<queueVars, call>>
  <2>1. UNCHANGED <<queue, active, activeCount, settled, paused, promise, stored, call>>
    BY <1>3 DEF queueVars, schedVars, clientVars
  <2>2. OfflineTypeOK'
    <3>1. sent' \in SUBSET Requests
      BY <1>1 DEF RecordSent, QueuedInv, CallsInv, OfflineTypeOK, Callers
    <3>2. TypeOK'
      BY DEF StoredInv, OrderInv, IInv
    <3>3. QED
      BY <1>1, <1>2, <2>1, <3>1, <3>2 DEF QueuedInv, CallsInv, OfflineTypeOK
  <2>3. KeysMatch'
    BY <1>1, <1>2, <2>1 DEF QueuedInv, CallsInv, KeysMatch, KeyMatches, PendingIds
  <2>4. NoDependencies' /\ NoCircle' /\ SlotsUsed' /\ RestoresFirst'
    BY <1>1, <2>1 DEF QueuedInv, CallsInv, NoDependencies, NoCircle, SlotsUsed, UnderWay,
                      RestoresFirst, Answered
  <2>5. PromisesKept' /\ TasksCall'
    BY <1>1, <2>1 DEF QueuedInv, CallsInv, PromisesKept, TasksCall, Busy, Queued, PendingIds
  <2>6. QED
    BY <2>2, <2>3, <2>4, <2>5 DEF QueuedInv, CallsInv
<1>4. CASE Add(id, 0, {}) /\ call' = WithStarted(call)
  <2>1. /\ LookedForWork(PendingIds(queue) \cup {id}, active)
        /\ NoDependencies' /\ stored' = queue'
    BY <1>2, <1>4, AddLooks DEF QueuedInv, CallsInv
  <2>2. id \notin active /\ settled' = settled /\ promise' = [promise EXCEPT ![id] = "pending"]
    BY <1>4 DEF Add
  <2>3. \A x \in Ids : promise'[x] = IF x \in {id} THEN "pending" ELSE promise[x]
    BY <1>2, <2>2 DEF QueuedInv, CallsInv, OfflineTypeOK, TypeOK
  <2>4. settled' = settled \cap active /\ active \ active \subseteq settled /\ active \in SUBSET active
        /\ {id} \in SUBSET Ids /\ {id} \cap active = {}
    BY <1>2, <2>2 DEF QueuedInv, CallsInv, OfflineTypeOK, TypeOK
  <2>5. /\ {id} \subseteq PendingIds(restoring) /\ PendingIds(restoring') \subseteq PendingIds(restoring)
        /\ restoring' # <<>> => restoring # <<>>
    BY <1>1, <1>2
  <2>6. QED
    BY <1>1, <1>2, <1>4, <2>1, <2>3, <2>4, <2>5, WorkStep
<1>5. QED
  BY <1>3, <1>4 DEF RestoreNext, id

LEMMA ResumedQueued ==
  ASSUME QueuedInv, StoredInv', NEW act \in SUBSET active, NEW cnt, NEW drn,
         active \ act \subseteq settled, settled' = settled \cap act,
         ProcessNext(queue, act, cnt, paused', drn, FALSE), promise' = promise,
         call' = WithStarted(call), UNCHANGED clientOnly, RecordSent
  PROVE  QueuedInv'
<1>1. /\ queue \in Seq(Task) /\ UniqueIds(queue) /\ Descending(queue)
      /\ \A i \in DOMAIN queue : queue[i].dependencies = {}
  BY DEF QueuedInv, StoredInv, OrderInv, IInv, WellFormed, CallsInv, NoDependencies
<1>2. /\ LookedForWork(PendingIds(queue), act) /\ NoDependencies'
      /\ stored' = queue' \/ stored' = stored
  BY <1>1, ProcessNextLooks DEF NoDependencies
<1>3. PendingIds(queue) \cup {} = PendingIds(queue)
  OBVIOUS
<1>4. UNCHANGED <<limiter, data, made, page, restoring>> /\ restoring \in Seq(Task)
  BY DEF clientOnly, QueuedInv, CallsInv, OfflineTypeOK
<1>5. \A x \in Ids : promise'[x] = IF x \in {} THEN "pending" ELSE promise[x]
  OBVIOUS
<1>6. LookedForWork(PendingIds(queue) \cup {}, act)
  BY <1>2, <1>3
<1>7. /\ {} \in SUBSET Ids /\ {} \cap active = {} /\ {} \subseteq PendingIds(restoring)
      /\ restoring' \in Seq(Task) /\ PendingIds(restoring') \subseteq PendingIds(restoring)
      /\ restoring' # <<>> => restoring # <<>>
  BY <1>4
<1>8. UNCHANGED <<limiter, data, made, page>>
  BY <1>4
<1>9. QED
  BY <1>2, <1>5, <1>6, <1>7, <1>8, WorkStep

LEMMA RetireQueued == ASSUME QueuedInv, StoredInv', NEW id \in Ids, Retire(id) PROVE QueuedInv'
<1>1. /\ ProcessNext(queue, active \ {id}, activeCount - 1, paused', drainWaiting, FALSE)
      /\ id \in settled /\ settled' = settled \ {id} /\ promise' = promise
      /\ call' = WithStarted(call) /\ UNCHANGED clientOnly /\ RecordSent
  BY DEF Retire, Finish
<1>2. /\ active \ {id} \in SUBSET active /\ active \ (active \ {id}) \subseteq settled
      /\ settled' = settled \cap (active \ {id})
  BY <1>1 DEF QueuedInv, CallsInv, OfflineTypeOK, TypeOK
<1>3. QED
  BY <1>1, <1>2, ResumedQueued

LEMMA OnlineQueued == ASSUME QueuedInv, StoredInv', Online PROVE QueuedInv'
<1>1. /\ ProcessNext(queue, active, activeCount, paused', drainWaiting, FALSE)
      /\ settled' = settled /\ promise' = promise
      /\ call' = WithStarted(call) /\ UNCHANGED clientOnly /\ RecordSent
  BY DEF Online, Resume
<1>2. /\ active \in SUBSET active /\ active \ active \subseteq settled
      /\ settled' = settled \cap active
  BY <1>1 DEF QueuedInv, CallsInv, OfflineTypeOK, TypeOK
<1>3. QED
  BY <1>1, <1>2, ResumedQueued

-----------------------------------------------------------------------------
(***************************************************************************)
(* The other steps.                                                        *)
(***************************************************************************)
\* A call passes to the rate limiter or to the network.
LEMMA StatusStep ==
  ASSUME QueuedInv, StoredInv', NEW c \in Callers, NEW s \in {"limited", "sent"},
         c \in Ids => call[c] = "limited" /\ s = "sent",
         call' = [call EXCEPT ![c] = s], UNCHANGED <<queueVars, clientOnly>>,
         sent' \in SUBSET Requests
  PROVE  QueuedInv'
<1>1. /\ UNCHANGED <<queue, active, activeCount, settled, paused, promise, stored>>
      /\ UNCHANGED <<limiter, data, made, restoring, page>>
  BY DEF queueVars, clientOnly, schedVars, clientVars
<1>2. /\ call' \in [Callers -> Statuses \cup Ids] /\ call'[c] = s /\ s \notin Ids
      /\ \A x \in Callers : x # c => call'[x] = call[x]
      /\ Ids \subseteq Callers
  BY KeyAssumption DEF QueuedInv, CallsInv, OfflineTypeOK, Statuses, Callers
<1>3. OfflineTypeOK'
  <2>1. TypeOK'
    BY DEF StoredInv, OrderInv, IInv
  <2>2. QED
    BY <1>1, <1>2, <2>1 DEF QueuedInv, CallsInv, OfflineTypeOK
<1>4. NoDependencies' /\ KeysMatch'
  BY <1>1 DEF QueuedInv, CallsInv, NoDependencies, KeysMatch, KeyMatches, PendingIds
<1>5. PromisesKept'
  BY <1>1, <1>2 DEF QueuedInv, CallsInv, PromisesKept, Busy, Queued, PendingIds
<1>6. TasksCall'
  BY <1>1, <1>2 DEF QueuedInv, CallsInv, TasksCall, Busy
<1>7. RestoresFirst'
  BY <1>1, <1>2 DEF QueuedInv, CallsInv, RestoresFirst, Answered
<1>8. NoCircle'
  <2>. SUFFICES ASSUME NEW S \in SUBSET active, S # {} PROVE \E x \in S : call'[x] \notin S
    BY <1>1 DEF NoCircle
  <2>1. S \subseteq Ids
    BY DEF QueuedInv, CallsInv, OfflineTypeOK, TypeOK
  <2>2. PICK x \in S : call[x] \notin S
    BY DEF QueuedInv, CallsInv, NoCircle
  <2>3. QED
    BY <1>2, <2>1, <2>2
<1>9. SlotsUsed'
  <2>1. \A x \in active : UnderWay(x) => UnderWay(x)'
    BY <1>1, <1>2 DEF UnderWay, QueuedInv, CallsInv, OfflineTypeOK, TypeOK
  <2>2. QED
    BY <1>1, <2>1 DEF QueuedInv, CallsInv, SlotsUsed
<1>10. QED
  BY <1>3, <1>4, <1>5, <1>6, <1>7, <1>8, <1>9 DEF QueuedInv, CallsInv

\* Calls are answered, and with them at most one task.
LEMMA CompleteStep ==
  ASSUME QueuedInv, StoredInv', restoring = <<>>, NEW C \in SUBSET Callers, NEW ok \in BOOLEAN,
         \A x, y \in C \cap Ids : x = y, Complete(C, ok), made' \in SUBSET (Ids \ Keys)
  PROVE  QueuedInv'
<1>1. /\ call' = [c \in Callers |-> IF c \notin C THEN call[c] ELSE IF c \in Ids THEN "none" ELSE "done"]
      /\ IF C \cap Ids = {} THEN UNCHANGED queueVars ELSE \E id \in C \cap Ids : Settle(id, ok)
      /\ UNCHANGED <<limiter, data, restoring, page, sent>>
  BY DEF Complete
<1>2. UNCHANGED <<queue, active, activeCount, paused, stored>>
  BY <1>1 DEF queueVars, Settle, schedVars, clientVars
<1>3. /\ \A x \in C \cap Ids : x \in active /\ promise'[x] \in {"resolved", "rejected"}
      /\ \A x \in Ids : x \notin C => promise'[x] = promise[x]
      /\ settled' = settled \cup (C \cap Ids)
  <2>1. CASE C \cap Ids = {}
    BY <1>1, <2>1 DEF queueVars, schedVars, clientVars
  <2>2. CASE C \cap Ids # {}
    <3>1. PICK id \in C \cap Ids : Settle(id, ok)
      BY <1>1, <2>2
    <3>2. C \cap Ids = {id}
      OBVIOUS
    <3>3. /\ id \in active /\ settled' = settled \cup {id}
          /\ promise' = [promise EXCEPT ![id] = IF ok THEN "resolved" ELSE "rejected"]
      BY <3>1 DEF Settle
    <3>4. \A x \in Ids : promise'[x] = IF x = id THEN (IF ok THEN "resolved" ELSE "rejected") ELSE promise[x]
      BY <3>3 DEF QueuedInv, CallsInv, OfflineTypeOK, TypeOK
    <3>5. QED
      BY <3>2, <3>3, <3>4
  <2>3. QED
    BY <2>1, <2>2
<1>4. /\ \A x \in Callers : call'[x] = IF x \notin C THEN call[x] ELSE IF x \in Ids THEN "none" ELSE "done"
      /\ Ids \subseteq Callers /\ "none" \notin Ids /\ "done" \notin Ids
  BY <1>1, KeyAssumption DEF Callers, Statuses
<1>5. OfflineTypeOK'
  <2>1. TypeOK'
    BY DEF StoredInv, OrderInv, IInv
  <2>2. call' \in [Callers -> Statuses \cup Ids]
    BY <1>1 DEF QueuedInv, CallsInv, OfflineTypeOK, Statuses
  <2>3. QED
    BY <1>1, <2>1, <2>2 DEF QueuedInv, CallsInv, OfflineTypeOK
<1>6. NoDependencies' /\ KeysMatch'
  BY <1>1, <1>2 DEF QueuedInv, CallsInv, NoDependencies, KeysMatch, KeyMatches, PendingIds
<1>7. PromisesKept'
  <2>1. ASSUME NEW x \in Ids, promise'[x] = "pending"
        PROVE  Queued(x)' \/ Busy(x)'
    <3>1. x \notin C /\ promise[x] = "pending"
      BY <1>3, <2>1
    <3>2. QED
      BY <1>2, <1>3, <3>1 DEF QueuedInv, CallsInv, PromisesKept, Busy, Queued, PendingIds
  <2>2. ASSUME NEW c \in Callers, call'[c] \in Ids
        PROVE  promise'[call'[c]] \in {"pending", "resolved", "rejected"}
    <3>1. call'[c] = call[c]
      BY <1>4, <2>2
    <3>2. QED
      BY <1>3, <2>2, <3>1 DEF QueuedInv, CallsInv, PromisesKept
  <2>3. QED
    BY <2>1, <2>2 DEF PromisesKept
<1>8. TasksCall'
  BY <1>1, <1>2, <1>3, <1>4 DEF QueuedInv, CallsInv, TasksCall, Busy
<1>9. RestoresFirst'
  BY <1>1 DEF RestoresFirst
<1>10. NoCircle'
  <2>. SUFFICES ASSUME NEW S \in SUBSET active, S # {} PROVE \E x \in S : call'[x] \notin S
    BY <1>2 DEF NoCircle
  <2>1. S \subseteq Ids
    BY DEF QueuedInv, CallsInv, OfflineTypeOK, TypeOK
  <2>2. PICK x \in S : call[x] \notin S
    BY DEF QueuedInv, CallsInv, NoCircle
  <2>3. QED
    BY <1>4, <2>1, <2>2
<1>11. SlotsUsed'
  <2>1. \A x \in active : UnderWay(x) => UnderWay(x)'
    BY <1>3, <1>4 DEF UnderWay, QueuedInv, CallsInv, OfflineTypeOK, TypeOK
  <2>2. QED
    BY <1>2, <2>1 DEF QueuedInv, CallsInv, SlotsUsed
<1>12. QED
  BY <1>5, <1>6, <1>7, <1>8, <1>9, <1>10, <1>11 DEF QueuedInv, CallsInv

\* A call is queued, and awaits the promise of its task.
LEMMA EnqueueStep ==
  ASSUME QueuedInv, StoredInv', restoring = <<>>, paused, NEW c \in Callers, NEW id \in Ids,
         c \in Ids => call[c] = "limited",
         Key(c) = IF id \in Keys THEN id ELSE NoKey,
         Add(id, 0, {}), data' = [data EXCEPT ![id] = RequestOf(c)],
         call' = [call EXCEPT ![c] = id], UNCHANGED <<limiter, restoring, page, sent>>,
         made' \in SUBSET (Ids \ Keys)
  PROVE  QueuedInv'
<1>1. /\ NoDependencies' /\ stored' = queue' /\ active' = active
      /\ PendingIds(queue') = PendingIds(queue) \cup {id}
  BY AddLooks DEF QueuedInv, CallsInv
<1>2. /\ id \notin active /\ settled' = settled /\ paused' = paused
      /\ promise' = [promise EXCEPT ![id] = "pending"]
  BY DEF Add
<1>3. \A x \in Ids : promise'[x] = IF x = id THEN "pending" ELSE promise[x]
  BY <1>2 DEF QueuedInv, CallsInv, OfflineTypeOK, TypeOK
<1>4. /\ \A x \in Callers : call'[x] = IF x = c THEN id ELSE call[x]
      /\ Ids \subseteq Callers /\ Statuses \cap Ids = {}
  BY KeyAssumption DEF QueuedInv, CallsInv, OfflineTypeOK, Callers
<1>5. RequestOf(c) \in Requests
  BY KeyInIds DEF QueuedInv, CallsInv
<1>6. \A x \in Ids : data'[x] = IF x = id THEN RequestOf(c) ELSE data[x]
  BY DEF QueuedInv, CallsInv, OfflineTypeOK
<1>7. OfflineTypeOK'
  <2>1. TypeOK'
    BY DEF StoredInv, OrderInv, IInv
  <2>2. call' \in [Callers -> Statuses \cup Ids] /\ data' \in [Ids -> Requests]
    BY <1>5 DEF QueuedInv, CallsInv, OfflineTypeOK
  <2>3. QED
    BY <2>1, <2>2 DEF QueuedInv, CallsInv, OfflineTypeOK
<1>8. PromisesKept'
  <2>1. ASSUME NEW x \in Ids, promise'[x] = "pending"
        PROVE  Queued(x)' \/ Busy(x)'
    <3>1. x = id \/ Queued(x) \/ Busy(x)
      BY <1>3, <2>1 DEF QueuedInv, CallsInv, PromisesKept
    <3>2. QED
      BY <1>1, <1>2, <3>1 DEF Queued, Busy
  <2>2. ASSUME NEW x \in Callers, call'[x] \in Ids
        PROVE  promise'[call'[x]] \in {"pending", "resolved", "rejected"}
    <3>1. call'[x] = id \/ call'[x] = call[x]
      BY <1>4
    <3>2. QED
      BY <1>3, <2>2, <3>1 DEF QueuedInv, CallsInv, PromisesKept
  <2>3. QED
    BY <2>1, <2>2 DEF PromisesKept
<1>9. TasksCall'
  BY <1>1, <1>2, <1>4 DEF QueuedInv, CallsInv, TasksCall, Busy, Statuses
<1>10. KeysMatch'
  <2>1. Key(c) = KeyOf[RequestOf(c)]
    BY DEF Key
  <2>2. KeyMatches(id)'
    BY <1>6, <2>1 DEF KeyMatches
  <2>3. ASSUME NEW x \in Ids, x # id, KeyMatches(x)
        PROVE  KeyMatches(x)'
    BY <1>6, <2>3 DEF KeyMatches
  <2>4. /\ PendingIds(queue) \subseteq Ids /\ active \subseteq Ids
        /\ PendingIds(restoring') = PendingIds(restoring) /\ PendingIds(restoring) \subseteq Ids
    BY PendingIdsAreIds DEF QueuedInv, CallsInv, OfflineTypeOK, TypeOK
  <2>5. QED
    BY <1>1, <2>2, <2>3, <2>4 DEF QueuedInv, CallsInv, KeysMatch
<1>11. RestoresFirst'
  BY DEF RestoresFirst
<1>12. NoCircle'
  <2>. SUFFICES ASSUME NEW S \in SUBSET active, S # {} PROVE \E x \in S : call'[x] \notin S
    BY <1>1 DEF NoCircle
  <2>1. S \subseteq Ids
    BY DEF QueuedInv, CallsInv, OfflineTypeOK, TypeOK
  <2>2. PICK x \in S : call[x] \notin S
    BY DEF QueuedInv, CallsInv, NoCircle
  <2>3. id \notin S
    BY <1>2
  <2>4. QED
    BY <1>4, <2>1, <2>2, <2>3
<1>13. SlotsUsed'
  BY <1>2 DEF SlotsUsed
<1>14. QED
  BY <1>1, <1>7, <1>8, <1>9, <1>10, <1>11, <1>12, <1>13 DEF QueuedInv, CallsInv

\* queueOfflineRequest() while the client is offline.
LEMMA QueueOfflineQueued ==
  ASSUME QueuedInv, StoredInv', restoring = <<>>, paused, NEW c \in Callers, NEW id \in Ids,
         c \in Ids => call[c] = "limited",
         Key(c) = IF id \in Keys THEN id ELSE NoKey,
         QueueOffline(c, id), made' \in SUBSET (Ids \ Keys)
  PROVE  QueuedInv'
<1>1. CASE Complete({c}, FALSE)
  <2>1. {c} \in SUBSET Callers /\ \A x, y \in {c} \cap Ids : x = y
    OBVIOUS
  <2>2. QED
    BY <1>1, <2>1, CompleteStep
<1>2. CASE /\ Add(id, 0, {}) /\ data' = [data EXCEPT ![id] = RequestOf(c)]
           /\ call' = [call EXCEPT ![c] = id] /\ UNCHANGED <<limiter, restoring, page, sent>>
  BY <1>2, EnqueueStep
<1>3. QED
  BY <1>1, <1>2 DEF QueueOffline

LEMMA SentAreRequests == ASSUME OfflineTypeOK, data' = data, RecordSent PROVE sent' \in SUBSET Requests
  BY DEF RecordSent, OfflineTypeOK, Callers

LEMMA ExecuteQueued ==
  ASSUME QueuedInv, StoredInv', restoring = <<>>, NEW c \in Callers,
         c \in Ids => call[c] = "limited", Execute(c)
  PROVE  QueuedInv'
<1>1. CASE /\ call' = [call EXCEPT ![c] = "sent"]
           /\ UNCHANGED <<queueVars, clientOnly>> /\ RecordSent
  <2>1. sent' \in SUBSET Requests
    BY <1>1, SentAreRequests DEF clientOnly, QueuedInv, CallsInv
  <2>2. "sent" \in {"limited", "sent"} /\ (c \in Ids => call[c] = "limited" /\ "sent" = "sent")
    OBVIOUS
  <2>3. QED
    BY <1>1, <2>1, <2>2, StatusStep
<1>2. CASE /\ paused
           /\ \/ Key(c) # NoKey /\ QueueOffline(c, Key(c)) /\ UNCHANGED made
              \/ /\ Key(c) = NoKey
                 /\ \E id \in Ids \ (made \cup Keys) : QueueOffline(c, id) /\ made' = made \cup {id}
  <2>1. made \in SUBSET (Ids \ Keys)
    BY DEF QueuedInv, CallsInv, OfflineTypeOK
  <2>2. CASE Key(c) # NoKey /\ QueueOffline(c, Key(c)) /\ UNCHANGED made
    <3>1. Key(c) \in Ids /\ Key(c) \in Keys
      BY <2>2, KeyInIds DEF QueuedInv, CallsInv
    <3>2. Key(c) = IF Key(c) \in Keys THEN Key(c) ELSE NoKey
      BY <3>1
    <3>3. QED
      BY <1>2, <2>1, <2>2, <3>1, <3>2, QueueOfflineQueued
  <2>3. CASE /\ Key(c) = NoKey
             /\ \E id \in Ids \ (made \cup Keys) : QueueOffline(c, id) /\ made' = made \cup {id}
    <3>1. PICK id \in Ids \ (made \cup Keys) : QueueOffline(c, id) /\ made' = made \cup {id}
      BY <2>3
    <3>2. Key(c) = (IF id \in Keys THEN id ELSE NoKey) /\ made' \in SUBSET (Ids \ Keys)
      BY <2>1, <2>3, <3>1
    <3>3. QED
      BY <1>2, <3>1, <3>2, QueueOfflineQueued
  <2>4. QED
    BY <1>2, <2>2, <2>3
<1>3. QED
  BY <1>1, <1>2 DEF Execute

LEMMA RequestQueued == ASSUME QueuedInv, StoredInv', NEW r \in Requests, Request(r) PROVE QueuedInv'
<1>1. r \in Callers /\ r \notin Ids /\ restoring = <<>>
  BY KeyAssumption DEF Callers, Request, Quiet
<1>2. CASE call' = [call EXCEPT ![r] = "limited"] /\ UNCHANGED <<queueVars, clientOnly, sent>>
  <2>1. "limited" \in {"limited", "sent"} /\ sent' \in SUBSET Requests
    BY <1>2 DEF QueuedInv, CallsInv, OfflineTypeOK
  <2>2. QED
    BY <1>1, <1>2, <2>1, StatusStep
<1>3. CASE Execute(r)
  BY <1>1, <1>3, ExecuteQueued
<1>4. QED
  BY <1>2, <1>3 DEF Request

\* One task at most waits for the answer to a shared request: the one whose id is its key.
LEMMA OneTaskAnswered ==
  ASSUME QueuedInv, NEW k, k # NoKey
  PROVE  \A x, y \in SentFor(k) \cap Ids : x = y
<1>1. ASSUME NEW x \in SentFor(k) \cap Ids
      PROVE  x = k
  <2>1. call[x] = "sent" /\ Key(x) = k
    BY DEF SentFor
  <2>2. x \in active
    BY <2>1 DEF QueuedInv, CallsInv, TasksCall, Busy
  <2>3. KeyOf[data[x]] = k
    BY <2>1, KeyAssumption DEF Key, RequestOf
  <2>4. KeyMatches(x)
    BY <2>2 DEF QueuedInv, CallsInv, KeysMatch
  <2>5. QED
    BY <2>3, <2>4 DEF KeyMatches
<1>2. QED
  BY <1>1

LEMMA AnswerQueued ==
  ASSUME QueuedInv, StoredInv', NEW c \in Callers, NEW ok \in BOOLEAN, Answer(c, ok)
  PROVE  QueuedInv'
<1> DEFINE C == IF Key(c) = NoKey THEN {c} ELSE SentFor(Key(c))
<1>1. C \in SUBSET Callers /\ \A x, y \in C \cap Ids : x = y
  BY OneTaskAnswered DEF SentFor
<1>2. restoring = <<>> /\ Complete(C, ok) /\ made' \in SUBSET (Ids \ Keys)
  BY DEF Answer, Quiet, QueuedInv, CallsInv, OfflineTypeOK
<1>. HIDE DEF C
<1>3. QED
  BY <1>1, <1>2, CompleteStep

LEMMA PropagateQueued ==
  ASSUME QueuedInv, StoredInv', NEW c \in Callers, Propagate(c)
  PROVE  QueuedInv'
<1>1. {c} \in SUBSET Callers /\ \A x, y \in {c} \cap Ids : x = y
  OBVIOUS
<1>2. PICK ok \in BOOLEAN : Complete({c}, ok)
  BY DEF Propagate
<1>3. restoring = <<>> /\ made' \in SUBSET (Ids \ Keys)
  BY DEF Propagate, QueuedInv, CallsInv, OfflineTypeOK
<1>4. QED
  BY <1>1, <1>2, <1>3, CompleteStep
LEMMA OfflineQueued == ASSUME QueuedInv, StoredInv', Offline PROVE QueuedInv'
<1>1. /\ UNCHANGED <<queue, active, activeCount, settled, promise, stored>> /\ paused' = TRUE
      /\ UNCHANGED <<limiter, call, data, made, restoring, page, sent>>
  BY DEF Offline, Pause, clientVars, clientOnly
<1>2. TypeOK'
  BY DEF StoredInv, OrderInv, IInv
<1>3. OfflineTypeOK' /\ NoDependencies' /\ SlotsUsed' /\ NoCircle'
  BY <1>1, <1>2 DEF QueuedInv, CallsInv, OfflineTypeOK, NoDependencies, SlotsUsed, NoCircle
<1>4. PromisesKept' /\ TasksCall' /\ RestoresFirst'
  BY <1>1 DEF QueuedInv, CallsInv, PromisesKept, TasksCall, RestoresFirst, Busy, Queued,
              PendingIds, Answered
<1>5. KeysMatch'
  BY <1>1 DEF QueuedInv, CallsInv, KeysMatch, KeyMatches, PendingIds
<1>6. QED
  BY <1>3, <1>4, <1>5 DEF QueuedInv, CallsInv

LEMMA LoadQueued == ASSUME QueuedInv, StoredInv', Load PROVE QueuedInv'
<1>1. /\ UNCHANGED <<queue, active, activeCount, settled, paused, promise, stored>>
      /\ UNCHANGED <<limiter, call, data, made, page, sent>> /\ restoring' = stored
      /\ settled = {} /\ \A c \in Callers : ~Answered(c)
  BY DEF Load, LoadQueue, Quiet, schedVars, clientVars
<1>2. TypeOK'
  BY DEF StoredInv, OrderInv, IInv
<1>3. OfflineTypeOK' /\ NoDependencies' /\ NoCircle'
  BY <1>1, <1>2 DEF QueuedInv, CallsInv, OfflineTypeOK, TypeOK, NoDependencies, NoCircle
<1>4. SlotsUsed'
  BY <1>1 DEF QueuedInv, CallsInv, SlotsUsed, UnderWay
<1>5. PromisesKept' /\ TasksCall' /\ RestoresFirst'
  BY <1>1 DEF QueuedInv, CallsInv, PromisesKept, TasksCall, RestoresFirst, Busy, Queued,
              PendingIds, Answered
<1>6. KeysMatch'
  BY <1>1 DEF QueuedInv, CallsInv, KeysMatch, KeyMatches, PendingIds
<1>7. QED
  BY <1>3, <1>4, <1>5, <1>6 DEF QueuedInv, CallsInv

\* No task is pending in an empty array.
LEMMA NothingPending == PendingIds(<<>>) = {}
<1>1. DOMAIN <<>> = {}
  OBVIOUS
<1>2. QED
  BY <1>1 DEF PendingIds

LEMMA DisposeQueued == ASSUME QueuedInv, StoredInv', NEW reason \in {"disposed", "unloaded"}, Dispose(reason)
                       PROVE  QueuedInv'
<1>1. /\ UNCHANGED <<limiter, data, made, restoring, sent>> /\ restoring = <<>>
      /\ page' \in {"live", "disposed", "unloaded"} /\ TypeOK'
  BY DEF Dispose, Quiet, StoredInv, OrderInv, IInv
<1>2. CASE UNCHANGED <<queueVars, call>>
  <2>1. UNCHANGED <<queue, active, activeCount, settled, paused, promise, stored, call>>
    BY <1>2 DEF queueVars, schedVars, clientVars
  <2>2. OfflineTypeOK' /\ NoDependencies' /\ NoCircle'
    BY <1>1, <2>1 DEF QueuedInv, CallsInv, OfflineTypeOK, NoDependencies, NoCircle
  <2>3. SlotsUsed'
    BY <2>1 DEF QueuedInv, CallsInv, SlotsUsed, UnderWay
  <2>4. PromisesKept' /\ TasksCall' /\ RestoresFirst'
    BY <1>1, <2>1 DEF QueuedInv, CallsInv, PromisesKept, TasksCall, RestoresFirst, Busy, Queued,
                      PendingIds, Answered
  <2>5. KeysMatch'
    BY <1>1, <2>1 DEF QueuedInv, CallsInv, KeysMatch, KeyMatches, PendingIds
  <2>6. QED
    BY <2>2, <2>3, <2>4, <2>5 DEF QueuedInv, CallsInv
<1>3. CASE /\ Clear
           /\ call' = [c \in Callers |-> IF call[c] \in PendingIds(queue) THEN "lost" ELSE call[c]]
  <2>1. /\ queue' = <<>> /\ stored' = <<>> /\ UNCHANGED <<active, activeCount, settled, paused>>
        /\ promise' = [id \in Ids |-> IF Queued(id) THEN "abandoned" ELSE promise[id]]
    BY <1>3 DEF Clear, SaveQueue
  <2>2. /\ \A c \in Callers : call'[c] = IF call[c] \in PendingIds(queue) THEN "lost" ELSE call[c]
        /\ PendingIds(queue) \subseteq Ids /\ Ids \subseteq Callers /\ Statuses \cap Ids = {}
        /\ active \subseteq Ids
    BY <1>3, PendingIdsAreIds, KeyAssumption
       DEF QueuedInv, CallsInv, OfflineTypeOK, TypeOK, Callers
  <2>3. OfflineTypeOK'
    <3>1. call' \in [Callers -> Statuses \cup Ids]
      BY <1>3 DEF QueuedInv, CallsInv, OfflineTypeOK, Statuses
    <3>2. QED
      BY <1>1, <3>1 DEF QueuedInv, CallsInv, OfflineTypeOK
  <2>4. NoDependencies' /\ SlotsUsed' /\ RestoresFirst'
    BY <1>1, <2>1 DEF NoDependencies, SlotsUsed, RestoresFirst
  <2>5. PromisesKept'
    <3>1. ASSUME NEW x \in Ids, promise'[x] = "pending"
          PROVE  Busy(x)'
      BY <2>1, <3>1 DEF QueuedInv, CallsInv, PromisesKept, Busy
    <3>2. ASSUME NEW c \in Callers, call'[c] \in Ids
          PROVE  promise'[call'[c]] \in {"pending", "resolved", "rejected"}
      <4>1. call'[c] = call[c] /\ ~Queued(call[c])
        BY <2>2, <3>2 DEF Statuses, Queued
      <4>2. QED
        BY <2>1, <3>2, <4>1 DEF QueuedInv, CallsInv, PromisesKept
    <3>3. QED
      BY <3>1, <3>2 DEF PromisesKept
  <2>6. TasksCall'
    BY <1>1, <2>1, <2>2 DEF QueuedInv, CallsInv, TasksCall, Busy, Statuses
  <2>7. KeysMatch'
    BY <1>1, <2>1, NothingPending DEF QueuedInv, CallsInv, KeysMatch, KeyMatches
  <2>8. NoCircle'
    <3>. SUFFICES ASSUME NEW S \in SUBSET active, S # {} PROVE \E x \in S : call'[x] \notin S
      BY <2>1 DEF NoCircle
    <3>1. PICK x \in S : call[x] \notin S
      BY DEF QueuedInv, CallsInv, NoCircle
    <3>2. QED
      BY <2>2, <3>1 DEF Statuses
  <2>9. QED
    BY <2>3, <2>4, <2>5, <2>6, <2>7, <2>8 DEF QueuedInv, CallsInv
<1>4. QED
  BY <1>2, <1>3 DEF Dispose

LEMMA NewPageQueued == ASSUME QueuedInv, StoredInv', NewPage PROVE QueuedInv'
<1>1. /\ queue' = <<>> /\ active' = {} /\ settled' = {} /\ stored' = stored
      /\ promise' = [id \in Ids |-> "none"] /\ restoring = <<>>
      /\ call' = [c \in Callers |-> IF c \in Ids \/ call[c] = "none" THEN "none" ELSE "gone"]
      /\ made' = {} /\ page' = "live" /\ UNCHANGED <<limiter, data, restoring, sent>>
  BY DEF NewPage, Restart, Quiet
<1>2. /\ \A c \in Callers : call'[c] \in {"none", "gone"} /\ call'[c] \notin Ids
      /\ \A x \in Ids : call'[x] = "none"
  BY <1>1, KeyAssumption DEF Callers, Statuses
<1>3. OfflineTypeOK'
  <2>1. TypeOK' /\ call' \in [Callers -> Statuses \cup Ids]
    BY <1>1 DEF StoredInv, OrderInv, IInv, Statuses
  <2>2. QED
    BY <1>1, <2>1 DEF QueuedInv, CallsInv, OfflineTypeOK
<1>4. NoDependencies' /\ SlotsUsed' /\ RestoresFirst' /\ NoCircle'
  BY <1>1 DEF NoDependencies, SlotsUsed, RestoresFirst, NoCircle
<1>5. PromisesKept' /\ TasksCall'
  BY <1>1, <1>2 DEF PromisesKept, TasksCall, Busy
<1>6. KeysMatch'
  BY <1>1, NothingPending DEF QueuedInv, CallsInv, KeysMatch, KeyMatches
<1>7. QED
  BY <1>3, <1>4, <1>5, <1>6 DEF QueuedInv, CallsInv

LEMMA StutterQueued == ASSUME QueuedInv, StoredInv', UNCHANGED offlineVars PROVE QueuedInv'
<1>1. /\ UNCHANGED <<queue, active, activeCount, settled, paused, promise, stored>>
      /\ UNCHANGED <<limiter, call, data, made, restoring, page, sent>>
  BY DEF offlineVars, queueVars, schedVars, clientVars
<1>2. TypeOK'
  BY DEF StoredInv, OrderInv, IInv
<1>3. OfflineTypeOK' /\ NoDependencies' /\ NoCircle'
  BY <1>1, <1>2 DEF QueuedInv, CallsInv, OfflineTypeOK, NoDependencies, NoCircle
<1>4. SlotsUsed'
  BY <1>1 DEF QueuedInv, CallsInv, SlotsUsed, UnderWay
<1>5. PromisesKept' /\ TasksCall' /\ RestoresFirst'
  BY <1>1 DEF QueuedInv, CallsInv, PromisesKept, TasksCall, RestoresFirst, Busy, Queued,
              PendingIds, Answered
<1>6. KeysMatch'
  BY <1>1 DEF QueuedInv, CallsInv, KeysMatch, KeyMatches, PendingIds
<1>7. QED
  BY <1>3, <1>4, <1>5, <1>6 DEF QueuedInv, CallsInv

-----------------------------------------------------------------------------
LEMMA InitQueued == OfflineInit => QueuedInv
<1>. SUFFICES ASSUME OfflineInit PROVE QueuedInv
  OBVIOUS
<1>1. StoredInv
  BY InitStored DEF OfflineInit
<1>2. TypeOK /\ queue = <<>> /\ active = {} /\ stored = <<>> /\ settled = {}
      /\ promise = [id \in Ids |-> "none"]
  BY <1>1 DEF StoredInv, OrderInv, IInv, OfflineInit, Init
<1>3. /\ call = [c \in Callers |-> "none"] /\ \A c \in Callers : call[c] = "none"
      /\ "none" \notin Ids /\ Ids \subseteq Callers /\ restoring = <<>>
  BY KeyAssumption DEF OfflineInit, Statuses, Callers
<1>4. OfflineTypeOK
  <2>1. Requests # {}
    BY KeyAssumption
  <2>2. QED
    BY <1>2, <1>3, <2>1 DEF OfflineInit, OfflineTypeOK, Statuses
<1>5. NoDependencies /\ SlotsUsed /\ RestoresFirst /\ NoCircle
  BY <1>2, <1>3 DEF NoDependencies, SlotsUsed, RestoresFirst, NoCircle
<1>6. PromisesKept /\ TasksCall
  BY <1>2, <1>3 DEF PromisesKept, TasksCall, Busy
<1>7. KeysMatch
  BY <1>2, <1>3, NothingPending DEF KeysMatch
<1>8. QED
  BY <1>1, <1>4, <1>5, <1>6, <1>7 DEF QueuedInv, CallsInv

LEMMA NextQueued == QueuedInv /\ [OfflineNext]_offlineVars => QueuedInv'
<1>. SUFFICES ASSUME QueuedInv, [OfflineNext]_offlineVars PROVE QueuedInv'
  OBVIOUS
<1>1. StoredInv'
  <2>1. [Next]_vars
    BY OfflineIsNext DEF QueuedInv, CallsInv
  <2>2. QED
    BY <2>1, NextStored DEF QueuedInv
<1>2. ASSUME NEW c \in Callers, Proceeds(c)
      PROVE  QueuedInv'
  <2>1. CASE Token(c)
    BY <1>1, <2>1, ExecuteQueued DEF Token, Quiet
  <2>2. CASE \E ok \in BOOLEAN : Answer(c, ok)
    BY <1>1, <2>2, AnswerQueued
  <2>3. QED
    BY <1>2, <2>1, <2>2 DEF Proceeds
<1>3. CASE Microtask
  BY <1>1, <1>3, RestoreQueued, PropagateQueued, RetireQueued DEF Microtask
<1>4. QED
  BY <1>1, <1>2, <1>3, RequestQueued, OnlineQueued, OfflineQueued, LoadQueued, NewPageQueued,
     DisposeQueued, StutterQueued DEF OfflineNext

-----------------------------------------------------------------------------
\* With the invariant, a queue that could work and does not has nothing to wait for.
LEMMA WaitsForSomething == QueuedInv /\ AutoStart => QueuedProgresses
<1>. SUFFICES ASSUME QueuedInv, AutoStart, Quiet, ~paused, ~Wedged,
                     \A c \in Callers : call[c] \notin {"limited", "sent"},
                     NEW r \in Requests, call[r] \in Ids
              PROVE  FALSE
  BY DEF QueuedProgresses
<1>1. /\ settled = {} /\ Ids \subseteq Callers /\ r \in Callers /\ active \subseteq Ids
      /\ \A x \in active : Busy(x) /\ call[x] \in Statuses \cup Ids
  BY DEF Quiet, Callers, QueuedInv, CallsInv, OfflineTypeOK, TypeOK, Busy
<1>2. ASSUME NEW c \in Callers, call[c] \in Ids
      PROVE  Queued(call[c]) \/ call[c] \in active
  <2>1. promise[call[c]] = "pending"
    BY <1>2 DEF Quiet, Answered, QueuedInv, CallsInv, PromisesKept
  <2>2. QED
    BY <1>2, <2>1 DEF QueuedInv, CallsInv, PromisesKept, Busy
<1>3. \A x \in active : ~UnderWay(x)
  BY <1>1 DEF UnderWay
<1>4. active # {} => limiter
  BY <1>1 DEF QueuedInv, CallsInv, TasksCall
<1>5. \A x \in active : call[x] \in Ids
  BY <1>1, <1>4 DEF Wedged, Statuses, QueuedInv, CallsInv, TasksCall
<1>6. activeCount < Concurrency
  <2>1. activeCount \in Nat /\ Concurrency \in Nat \ {0} /\ activeCount <= Concurrency
    BY ConcurrencyAssumption DEF QueuedInv, StoredInv, OrderInv, IInv, TypeOK, WellFormed
  <2>2. CASE active = {}
    <3>1. activeCount = 0
      BY <2>2, FS_EmptySet DEF QueuedInv, StoredInv, OrderInv, IInv, WellFormed
    <3>2. QED
      BY <2>1, <3>1
  <2>3. CASE active # {}
    <3>1. activeCount # Concurrency
      BY <1>4, <1>5, <2>3 DEF Wedged
    <3>2. QED
      BY <2>1, <3>1
  <2>4. QED
    BY <2>2, <2>3
<1>7. queue = <<>>
  BY <1>3, <1>6 DEF QueuedInv, CallsInv, SlotsUsed
<1>8. \A x \in Ids : ~Queued(x)
  BY <1>7, NothingPending DEF Queued
<1>9. \A x \in active : call[x] \in active
  BY <1>1, <1>2, <1>5, <1>8
<1>10. active = {}
  BY <1>9 DEF QueuedInv, CallsInv, NoCircle
<1>11. QED
  BY <1>1, <1>2, <1>8, <1>10

\* The offline queue uses the task queue as TaskQueue.tla lets its callers use it, so what
\* is proved of the task queue holds of it (queueOfflineRequest, loadQueue's listener).
THEOREM OfflineQueueIsTaskQueue == OfflineSpec => Spec
<1>1. OfflineInit => Init
  BY DEF OfflineInit
<1>2. QueuedInv /\ [OfflineNext]_offlineVars => [Next]_vars
  BY OfflineIsNext DEF QueuedInv, CallsInv
<1>3. QED
  BY <1>1, <1>2, InitQueued, NextQueued, PTL DEF OfflineSpec, Spec

\* The offline queue implements WorkPool too: every step of its is one of the task queue's.
COROLLARY OfflineQueueIsWorkPool == OfflineSpec => ImplementsWorkPool
BY QueueIsWorkPool, OfflineQueueIsTaskQueue

\* A request that was queued is not forgotten (queueOfflineRequest); the client leaves
\* autoStart at its default, true.
THEOREM QueuedRequestsProgress == ASSUME AutoStart PROVE OfflineSpec => []QueuedProgresses
<1>1. QueuedInv => QueuedProgresses
  BY WaitsForSomething
<1>2. QED
  BY <1>1, InitQueued, NextQueued, PTL DEF OfflineSpec
-----------------------------------------------------------------------------
(***************************************************************************)
(* SentAtMostOnce needs to know where a request that has not been sent can *)
(* come from: the application, or one task, pending, stored or still at    *)
(* the rate limiter.                                                       *)
(***************************************************************************)
Unkeyed == {r \in Requests : KeyOf[r] = NoKey}
Waits(r) == call[r] \in {"none", "limited"}

\* The tasks that may yet send the request they repeat.
Carried ==
  PendingIds(queue) \cup PendingIds(stored) \cup PendingIds(restoring)
    \cup {id \in active : call[id] = "limited"}

\* The listener adds tasks that are all known or, on a fresh page, all unknown.
RestoresOnce ==
  /\ UniqueIds(restoring)
  /\ \/ PendingIds(restoring) \cap (PendingIds(queue) \cup active) = {}
     \/ PendingIds(restoring) \subseteq PendingIds(queue)

OnceInv ==
  /\ RestoresOnce
  /\ \A r \in Unkeyed :
       /\ r \in sent \/ Waits(r) => \A id \in Carried : data[id] # r
       /\ r \in sent => ~Waits(r)
       /\ \A i, j \in Carried : data[i] = r /\ data[j] = r => i = j

SentInv == QueuedInv /\ OnceInv

JustSent == {c \in Callers : call'[c] = "sent" /\ call[c] # "sent"}

\* What a step sends has not been sent before.
SendsFresh ==
  \A c \in Callers : call[c] # "sent" /\ call'[c] = "sent" =>
    LET r == IF c \in Requests THEN c ELSE data'[c] IN KeyOf[r] = NoKey => r \notin sent

\* A step that queues nothing: the application's request is sent when it stops waiting, a
\* task's when the task is no longer carried.
LEMMA CarryStep ==
  ASSUME SentInv, data' = data, Carried' \subseteq Carried, Carried \subseteq Ids, RestoresOnce',
         sent' = sent \cup {RequestOf(c) : c \in JustSent},
         \A r \in Requests : Waits(r)' => Waits(r),
         \A c \in JustSent : \/ c \in Requests /\ Waits(c)
                             \/ c \in Carried \ Carried'
  PROVE  OnceInv' /\ SendsFresh
<1>1. ASSUME NEW c \in JustSent, RequestOf(c) \in Unkeyed
      PROVE  /\ RequestOf(c) \notin sent /\ call'[RequestOf(c)] \notin {"none", "limited"}
             /\ \A id \in Carried' : data'[id] # RequestOf(c)
  <2>1. CASE c \in Requests /\ Waits(c)
    <3>1. RequestOf(c) = c /\ c \in Unkeyed /\ call'[c] = "sent"
      BY <1>1, <2>1 DEF RequestOf, JustSent
    <3>2. c \notin sent /\ \A id \in Carried : data[id] # c
      BY <2>1, <3>1 DEF SentInv, OnceInv
    <3>3. QED
      BY <3>1, <3>2
  <2>2. CASE c \in Carried \ Carried'
    <3>1. RequestOf(c) = data[c]
      BY <2>2, KeyAssumption DEF RequestOf
    <3>2. data[c] \in Unkeyed /\ data[c] \in Requests
      BY <1>1, <3>1 DEF Unkeyed
    <3>3. data[c] \notin sent /\ ~Waits(data[c])
      BY <2>2, <3>2 DEF SentInv, OnceInv
    <3>4. \A id \in Carried' : data[id] # data[c]
      BY <2>2, <3>2 DEF SentInv, OnceInv
    <3>5. call'[data[c]] \notin {"none", "limited"}
      BY <3>2, <3>3 DEF Waits
    <3>6. QED
      BY <3>1, <3>3, <3>4, <3>5
  <2>3. QED
    BY <2>1, <2>2
<1>2. ASSUME NEW r \in Unkeyed'
      PROVE  /\ r \in sent' \/ Waits(r)' => \A id \in Carried' : data'[id] # r
             /\ r \in sent' => ~Waits(r)'
             /\ \A i, j \in Carried' : data'[i] = r /\ data'[j] = r => i = j
  <2>1. r \in Unkeyed /\ r \in Requests
    BY DEF Unkeyed
  <2>2. CASE \E c \in JustSent : r = RequestOf(c)
    <3>1. call'[r] \notin {"none", "limited"} /\ \A id \in Carried' : data'[id] # r
      BY <1>1, <2>1, <2>2
    <3>2. QED
      BY <3>1 DEF Waits
  <2>3. CASE r \in sent' => r \in sent
    BY <2>1, <2>3 DEF SentInv, OnceInv
  <2>4. QED
    BY <2>2, <2>3
<1>3. SendsFresh
  <2>. SUFFICES ASSUME NEW c \in JustSent,
                       KeyOf[IF c \in Requests THEN c ELSE data'[c]] = NoKey
                PROVE  (IF c \in Requests THEN c ELSE data'[c]) \notin sent
    BY DEF SendsFresh, JustSent
  <2>1. RequestOf(c) = IF c \in Requests THEN c ELSE data'[c]
    BY DEF RequestOf
  <2>2. RequestOf(c) \in Requests
    BY KeyInIds DEF JustSent, SentInv, QueuedInv, CallsInv
  <2>3. QED
    BY <1>1, <2>1, <2>2 DEF Unkeyed
<1>4. QED
  BY <1>2, <1>3 DEF OnceInv

LEMMA CarriedIds == QueuedInv => Carried \subseteq Ids
BY PendingIdsAreIds DEF QueuedInv, CallsInv, OfflineTypeOK, TypeOK, Carried

\* A step that sends nothing and starts nothing.
LEMMA QuietStep ==
  ASSUME SentInv, data' = data, Carried' \subseteq Carried, RestoresOnce', sent' = sent,
         \A r \in Requests : Waits(r)' => Waits(r),
         \A c \in Callers : call'[c] = "sent" => call[c] = "sent"
  PROVE  OnceInv' /\ SendsFresh
<1>1. JustSent = {}
  BY DEF JustSent
<1>2. sent' = sent \cup {RequestOf(c) : c \in JustSent} /\ Carried \subseteq Ids
  BY <1>1, CarriedIds DEF SentInv
<1>3. \A c \in JustSent : (c \in Requests /\ Waits(c)) \/ c \in Carried \ Carried'
  BY <1>1
<1>4. QED
  BY <1>2, <1>3, CarryStep

LEMMA SentByRecord ==
  ASSUME RecordSent, data' = data PROVE sent' = sent \cup {RequestOf(c) : c \in JustSent}
BY DEF RecordSent, JustSent, RequestOf

\* A step that looks for work, after taking tasks new from those to be restored.
LEMMA WorkOnce ==
  ASSUME SentInv, NEW new \in SUBSET Ids, NEW act \in SUBSET active,
         LookedForWork(PendingIds(queue) \cup new, act),
         stored' = queue' \/ stored' = stored, data' = data,
         active' \subseteq Ids, call' = WithStarted(call), new \subseteq PendingIds(restoring),
         PendingIds(restoring') \subseteq PendingIds(restoring), RecordSent,
         \A x \in active' \ active : x \notin PendingIds(restoring'), RestoresOnce'
  PROVE  OnceInv' /\ SendsFresh
<1>1. \A c \in Callers : call'[c] = IF c \in active' \ active
                                    THEN (IF limiter THEN "limited" ELSE "sent") ELSE call[c]
  BY DEF WithStarted
<1>2. Ids \subseteq Callers /\ Requests \subseteq Callers /\ Requests \cap Ids = {}
  BY KeyAssumption DEF Callers
<1>3. /\ \A x \in active' \ active : /\ x \in PendingIds(queue) \cup new
                                    /\ x \notin PendingIds(queue') /\ stored' = queue'
      /\ PendingIds(queue') \subseteq PendingIds(queue) \cup new
  <2>1. \A x \in active' \ active : active' # act
    OBVIOUS
  <2>2. QED
    BY <2>1 DEF LookedForWork
<1>4. PendingIds(stored') \subseteq PendingIds(queue') \cup PendingIds(stored)
  OBVIOUS
<1>5. \A x \in active' : call'[x] = "limited" => x \in Carried
  BY <1>1, <1>2, <1>3 DEF Carried
<1>6. Carried' \subseteq Carried
  BY <1>3, <1>4, <1>5 DEF Carried
<1>7. ASSUME NEW c \in JustSent PROVE c \in Carried \ Carried'
  <2>1. c \in active' \ active /\ call'[c] = "sent"
    BY <1>1 DEF JustSent
  <2>2. c \in Carried
    BY <1>3, <2>1 DEF Carried
  <2>3. c \notin Carried'
    BY <1>3, <2>1 DEF Carried
  <2>4. QED
    BY <2>2, <2>3
<1>8. \A r \in Requests : Waits(r)' => Waits(r)
  BY <1>1, <1>2 DEF Waits
<1>9. Carried \subseteq Ids /\ sent' = sent \cup {RequestOf(c) : c \in JustSent}
  BY CarriedIds, SentByRecord DEF SentInv
<1>10. QED
  BY <1>6, <1>7, <1>8, <1>9, CarryStep

\* Nothing is being restored.
LEMMA NothingHeld == DOMAIN <<>> = {} /\ PendingIds(<<>>) = {}
BY NothingPending

LEMMA ResumedOnce ==
  ASSUME SentInv, restoring = <<>>, restoring' = restoring, data' = data,
         NEW act \in SUBSET active, NEW cnt, NEW drn,
         ProcessNext(queue, act, cnt, paused', drn, FALSE), active' \subseteq Ids,
         call' = WithStarted(call), RecordSent
  PROVE  OnceInv' /\ SendsFresh
<1>1. /\ queue \in Seq(Task) /\ UniqueIds(queue) /\ Descending(queue)
      /\ \A i \in DOMAIN queue : queue[i].dependencies = {}
  BY DEF SentInv, QueuedInv, StoredInv, OrderInv, IInv, WellFormed, CallsInv, NoDependencies
<1>2. LookedForWork(PendingIds(queue), act) /\ (stored' = queue' \/ stored' = stored)
  BY <1>1, ProcessNextLooks
<1>3. LookedForWork(PendingIds(queue) \cup {}, act)
  <2>1. PendingIds(queue) \cup {} = PendingIds(queue)
    OBVIOUS
  <2>2. QED
    BY <1>2, <2>1
<1>4. /\ {} \in SUBSET Ids /\ {} \subseteq PendingIds(restoring)
      /\ PendingIds(restoring') \subseteq PendingIds(restoring)
      /\ \A x \in active' \ active : x \notin PendingIds(restoring')
  BY NothingPending
<1>5. RestoresOnce'
  <2>1. restoring' = <<>>
    OBVIOUS
  <2>2. QED
    BY <2>1, NothingHeld DEF RestoresOnce, UniqueIds
<1>6. QED
  BY <1>2, <1>3, <1>4, <1>5, WorkOnce
LEMMA HoldsNothing == restoring' = <<>> => RestoresOnce'
BY NothingHeld DEF RestoresOnce, UniqueIds

LEMMA RestoreOnce == ASSUME SentInv, QueuedInv', RestoreNext PROVE OnceInv' /\ SendsFresh
<1> DEFINE id == Head(restoring).id
<1>1. /\ restoring \in Seq(Task) /\ restoring # <<>> /\ restoring' = Tail(restoring)
      /\ UNCHANGED <<limiter, data, made, page>> /\ RecordSent
  BY DEF RestoreNext, SentInv, QueuedInv, CallsInv, OfflineTypeOK
<1>2. /\ id \in Ids /\ PendingIds(restoring) = {id} \cup PendingIds(restoring')
      /\ UniqueIds(restoring') /\ id \notin PendingIds(restoring')
  BY <1>1, HeadTailIds DEF Task, SentInv, OnceInv, RestoresOnce
<1>3. CASE UNCHANGED <<queueVars, call>> /\ (Queued(id) \/ id \in active)
  <2>1. UNCHANGED <<queue, active, stored, call>>
    BY <1>3 DEF queueVars, schedVars
  <2>2. sent' = sent
    <3>1. JustSent = {}
      BY <2>1 DEF JustSent
    <3>2. QED
      BY <1>1, <3>1, SentByRecord
  <2>3. PendingIds(queue') = PendingIds(queue) /\ PendingIds(stored') = PendingIds(stored)
    BY <2>1
  <2>. HIDE DEF id
  <2>4. RestoresOnce'
    <3>1. PendingIds(restoring) \subseteq PendingIds(queue)
      BY <1>2, <1>3 DEF SentInv, OnceInv, RestoresOnce, Queued
    <3>2. QED
      BY <1>2, <2>3, <3>1 DEF RestoresOnce
  <2>5. Carried' \subseteq Carried
    BY <1>2, <2>1, <2>3 DEF Carried
  <2>6. (\A r \in Requests : Waits(r)' => Waits(r)) /\ \A c \in Callers : call'[c] = "sent" => call[c] = "sent"
    BY <2>1 DEF Waits
  <2>7. QED
    BY <1>1, <2>2, <2>4, <2>5, <2>6, QuietStep
<1>4. CASE Add(id, 0, {}) /\ call' = WithStarted(call)
  <2>1. /\ LookedForWork(PendingIds(queue) \cup {id}, active) /\ stored' = queue'
    BY <1>2, <1>4, AddLooks DEF SentInv, QueuedInv, CallsInv
  <2>2. id \notin active /\ id \notin PendingIds(queue)
    BY <1>4 DEF Add, Queued
  <2>. HIDE DEF id
  <2>3. PendingIds(restoring) \cap (PendingIds(queue) \cup active) = {}
    BY <1>2, <2>2 DEF SentInv, OnceInv, RestoresOnce
  <2>4. /\ active' \subseteq active \cup PendingIds(queue) \cup {id}
        /\ PendingIds(queue') \subseteq PendingIds(queue) \cup {id}
        /\ \A x \in active' \ active : x \in PendingIds(queue) \cup {id}
    BY <2>1 DEF LookedForWork
  <2>5. /\ \A x \in active' \ active : x \notin PendingIds(restoring')
        /\ PendingIds(restoring') \cap (PendingIds(queue') \cup active') = {}
    BY <1>2, <2>3, <2>4
  <2>6. RestoresOnce'
    BY <1>2, <2>5 DEF RestoresOnce
  <2>7. /\ {id} \in SUBSET Ids /\ active \in SUBSET active /\ active' \subseteq Ids
        /\ {id} \subseteq PendingIds(restoring)
        /\ PendingIds(restoring') \subseteq PendingIds(restoring)
    BY <1>2 DEF QueuedInv, CallsInv, OfflineTypeOK, TypeOK
  <2>8. QED
    BY <1>1, <1>4, <2>1, <2>5, <2>6, <2>7, WorkOnce
<1>5. QED
  BY <1>3, <1>4 DEF RestoreNext, id

LEMMA RetireOnce == ASSUME SentInv, QueuedInv', NEW id \in Ids, Retire(id) PROVE OnceInv' /\ SendsFresh
<1>1. /\ ProcessNext(queue, active \ {id}, activeCount - 1, paused', drainWaiting, FALSE)
      /\ call' = WithStarted(call) /\ RecordSent /\ active \ {id} \in SUBSET active
      /\ restoring = <<>> /\ restoring' = restoring /\ data' = data
  BY DEF Retire, Finish, clientOnly
<1>2. active' \subseteq Ids
  BY DEF QueuedInv, CallsInv, OfflineTypeOK, TypeOK
<1>3. QED
  BY <1>1, <1>2, ResumedOnce

LEMMA OnlineOnce == ASSUME SentInv, QueuedInv', Online PROVE OnceInv' /\ SendsFresh
<1>1. /\ ProcessNext(queue, active, activeCount, paused', drainWaiting, FALSE)
      /\ call' = WithStarted(call) /\ RecordSent /\ active \in SUBSET active
      /\ restoring = <<>> /\ restoring' = restoring /\ data' = data
  BY DEF Online, Resume, clientOnly, Quiet
<1>2. active' \subseteq Ids
  BY DEF QueuedInv, CallsInv, OfflineTypeOK, TypeOK
<1>3. QED
  BY <1>1, <1>2, ResumedOnce

LEMMA SendOnce ==
  ASSUME SentInv, QueuedInv', restoring = <<>>, NEW c \in Callers,
         c \in Ids => call[c] = "limited", c \in Requests => Waits(c),
         call' = [call EXCEPT ![c] = "sent"], UNCHANGED <<queueVars, clientOnly>>, RecordSent
  PROVE  OnceInv' /\ SendsFresh
<1>1. /\ UNCHANGED <<queue, active, stored>> /\ UNCHANGED <<data, restoring>>
  BY DEF queueVars, clientOnly, schedVars
<1>2. /\ \A x \in Callers : call'[x] = IF x = c THEN "sent" ELSE call[x]
      /\ Ids \subseteq Callers /\ active \subseteq Ids /\ Requests \subseteq Callers
  BY DEF SentInv, QueuedInv, CallsInv, OfflineTypeOK, TypeOK, Callers
<1>3. \A x \in active' : call'[x] = "limited" => x \in active /\ call[x] = "limited" /\ x # c
  BY <1>1, <1>2
<1>4. /\ Carried' = PendingIds(queue) \cup PendingIds(stored) \cup {x \in active : call'[x] = "limited"}
      /\ Carried = PendingIds(queue) \cup PendingIds(stored) \cup {x \in active : call[x] = "limited"}
  BY <1>1, NothingHeld DEF Carried
<1>5. Carried' \subseteq Carried
  BY <1>1, <1>3, <1>4
<1>6. ASSUME c \in Ids PROVE c \in Carried \ Carried'
  <2>1. call[c] = "limited" /\ c \in active
    BY <1>6 DEF SentInv, QueuedInv, CallsInv, TasksCall, Busy
  <2>2. c \notin PendingIds(queue) /\ stored = queue
    BY <2>1 DEF SentInv, QueuedInv, StoredInv, OrderInv, IInv, WellFormed, StoreInv
  <2>3. QED
    BY <1>1, <1>3, <1>4, <2>1, <2>2
<1>7. JustSent \subseteq {c}
  BY <1>2 DEF JustSent
<1>8. \A x \in JustSent : (x \in Requests /\ Waits(x)) \/ x \in Carried \ Carried'
  BY <1>6, <1>7 DEF Callers
<1>9. \A r \in Requests : Waits(r)' => Waits(r)
  BY <1>2 DEF Waits
<1>10. RestoresOnce'
  BY <1>1, HoldsNothing
<1>11. Carried \subseteq Ids /\ sent' = sent \cup {RequestOf(x) : x \in JustSent} /\ data' = data
  BY <1>1, CarriedIds, SentByRecord DEF SentInv
<1>12. QED
  BY <1>5, <1>8, <1>9, <1>10, <1>11, CarryStep

\* Calls that are queued, answered, aborted or forgotten: none is sent.
LEMMA CompleteOnce ==
  ASSUME SentInv, restoring = <<>>, NEW C \in SUBSET Callers, NEW ok, Complete(C, ok)
  PROVE  OnceInv' /\ SendsFresh
<1>1. /\ UNCHANGED <<queue, active, stored>> /\ UNCHANGED <<data, restoring, sent>>
      /\ call' = [x \in Callers |-> IF x \notin C THEN call[x] ELSE IF x \in Ids THEN "none" ELSE "done"]
  BY DEF Complete, queueVars, schedVars, Settle
<1>2. Ids \subseteq Callers /\ Requests \subseteq Callers /\ Requests \cap Ids = {} /\ active \subseteq Ids
  BY KeyAssumption DEF Callers, SentInv, QueuedInv, CallsInv, OfflineTypeOK, TypeOK
<1>3. /\ \A x \in Callers : call'[x] \in {"limited", "sent"} => call'[x] = call[x]
      /\ \A r \in Requests : Waits(r)' => Waits(r)
  BY <1>1, <1>2 DEF Waits
<1>4. PendingIds(queue') = PendingIds(queue) /\ PendingIds(stored') = PendingIds(stored)
      /\ PendingIds(restoring') = PendingIds(restoring)
  BY <1>1
<1>5. \A x \in active' : call'[x] = "limited" => x \in active /\ call[x] = "limited"
  BY <1>1, <1>2, <1>3
<1>6. Carried' \subseteq Carried
  BY <1>4, <1>5 DEF Carried
<1>7. RestoresOnce'
  BY <1>1, HoldsNothing
<1>8. QED
  BY <1>1, <1>3, <1>6, <1>7, QuietStep

LEMMA EnqueueOnce ==
  ASSUME SentInv, QueuedInv', restoring = <<>>, paused, NEW c \in Callers, NEW id \in Ids,
         c \in Ids => call[c] = "limited", c \in Requests => Waits(c),
         Add(id, 0, {}), data' = [data EXCEPT ![id] = RequestOf(c)],
         call' = [call EXCEPT ![c] = id], UNCHANGED <<limiter, restoring, page, sent>>
  PROVE  OnceInv' /\ SendsFresh
<1>1. /\ stored' = queue' /\ active' = active
      /\ PendingIds(queue') = PendingIds(queue) \cup {id}
  BY AddLooks DEF SentInv, QueuedInv, CallsInv
<1>2. id \notin active /\ id \notin PendingIds(queue)
  BY DEF Add, Queued
<1>3. /\ \A x \in Callers : call'[x] = IF x = c THEN id ELSE call[x]
      /\ Ids \subseteq Callers /\ Requests \subseteq Callers /\ active \subseteq Ids
      /\ Statuses \cap Ids = {} /\ Requests \cap Ids = {}
  BY KeyAssumption DEF SentInv, QueuedInv, CallsInv, OfflineTypeOK, TypeOK, Callers
<1>4. RequestOf(c) \in Requests /\ \A x \in Ids : data'[x] = IF x = id THEN RequestOf(c) ELSE data[x]
  BY KeyInIds DEF SentInv, QueuedInv, CallsInv, OfflineTypeOK
<1>5. \A x \in active : call'[x] = "limited" => call[x] = "limited" /\ x # c
  BY <1>3 DEF Statuses
<1>6. /\ Carried' = PendingIds(queue) \cup {id} \cup {x \in active : call'[x] = "limited"}
      /\ PendingIds(queue) \cup {x \in active : call[x] = "limited"} \subseteq Carried
      /\ Carried \subseteq Ids
  BY <1>1, NothingHeld, CarriedIds DEF Carried, SentInv
<1>7. Carried' \subseteq Carried \cup {id}
  BY <1>5, <1>6
<1>8. ASSUME RequestOf(c) \in Unkeyed
      PROVE  /\ RequestOf(c) \notin sent /\ call'[RequestOf(c)] \notin {"none", "limited"}
             /\ \A x \in Carried' : data'[x] = RequestOf(c) => x = id
  <2>1. CASE c \in Requests
    <3>1. RequestOf(c) = c /\ c \in Unkeyed /\ Waits(c)
      BY <1>8, <2>1 DEF RequestOf
    <3>2. c \notin sent /\ \A x \in Carried : data[x] # c
      BY <3>1 DEF SentInv, OnceInv
    <3>3. call'[c] = id /\ id \notin {"none", "limited"}
      BY <1>3 DEF Statuses
    <3>4. QED
      BY <1>4, <1>6, <1>7, <3>1, <3>2, <3>3
  <2>2. CASE c \in Ids
    <3>1. RequestOf(c) = data[c] /\ data[c] \in Unkeyed /\ c \notin Requests
      BY <1>3, <1>8, <2>2 DEF RequestOf
    <3>2. c \in active /\ c \in Carried /\ c \notin PendingIds(queue) /\ c # id
      BY <1>2, <1>6, <2>2 DEF SentInv, QueuedInv, CallsInv, TasksCall, Busy, StoredInv, OrderInv,
                              IInv, WellFormed
    <3>3. data[c] \notin sent /\ ~Waits(data[c]) /\ \A x \in Carried : data[x] = data[c] => x = c
      BY <3>1, <3>2 DEF SentInv, OnceInv
    <3>4. c \notin Carried'
      BY <1>5, <1>6, <3>2
    <3>5. call'[data[c]] = call[data[c]]
      BY <1>3, <3>1 DEF Unkeyed
    <3>6. \A x \in Carried' : data'[x] = data[c] => x = id
      BY <1>4, <1>6, <1>7, <3>3, <3>4
    <3>7. QED
      BY <3>1, <3>3, <3>5, <3>6 DEF Waits
  <2>3. QED
    BY <2>1, <2>2 DEF Callers
<1>9. ASSUME NEW r \in Unkeyed
      PROVE  /\ r \in sent' \/ Waits(r)' => \A x \in Carried' : data'[x] # r
             /\ r \in sent' => ~Waits(r)'
             /\ \A i, j \in Carried' : data'[i] = r /\ data'[j] = r => i = j
  <2>1. CASE r = RequestOf(c)
    BY <1>8, <2>1 DEF Waits
  <2>2. CASE r # RequestOf(c)
    <3>1. \A x \in Carried' : data'[x] = r => x \in Carried /\ data[x] = r
      BY <1>4, <1>6, <1>7, <2>2
    <3>2. Waits(r)' => Waits(r)
      BY <1>3 DEF Waits, Unkeyed, Statuses
    <3>3. QED
      BY <3>1, <3>2 DEF SentInv, OnceInv
  <2>3. QED
    BY <2>1, <2>2
<1>10. OnceInv'
  BY <1>9, HoldsNothing DEF OnceInv, Unkeyed
<1>11. SendsFresh
  BY <1>3 DEF SendsFresh, Statuses
<1>12. QED
  BY <1>10, <1>11
LEMMA QueueOfflineOnce ==
  ASSUME SentInv, QueuedInv', restoring = <<>>, paused, NEW c \in Callers, NEW id \in Ids,
         c \in Ids => call[c] = "limited", c \in Requests => Waits(c), QueueOffline(c, id)
  PROVE  OnceInv' /\ SendsFresh
<1>1. CASE Complete({c}, FALSE)
  <2>1. {c} \in SUBSET Callers
    OBVIOUS
  <2>2. QED
    BY <1>1, <2>1, CompleteOnce
<1>2. CASE /\ Add(id, 0, {}) /\ data' = [data EXCEPT ![id] = RequestOf(c)]
           /\ call' = [call EXCEPT ![c] = id] /\ UNCHANGED <<limiter, restoring, page, sent>>
  BY <1>2, EnqueueOnce
<1>3. QED
  BY <1>1, <1>2 DEF QueueOffline

LEMMA ExecuteOnce ==
  ASSUME SentInv, QueuedInv', restoring = <<>>, NEW c \in Callers,
         c \in Ids => call[c] = "limited", c \in Requests => Waits(c), Execute(c)
  PROVE  OnceInv' /\ SendsFresh
<1>1. CASE /\ call' = [call EXCEPT ![c] = "sent"]
           /\ UNCHANGED <<queueVars, clientOnly>> /\ RecordSent
  BY <1>1, SendOnce
<1>2. CASE paused /\ Key(c) # NoKey /\ QueueOffline(c, Key(c))
  BY <1>2, KeyInIds, QueueOfflineOnce DEF SentInv, QueuedInv, CallsInv
<1>3. CASE paused /\ \E id \in Ids \ (made \cup Keys) : QueueOffline(c, id)
  BY <1>3, QueueOfflineOnce
<1>4. QED
  BY <1>1, <1>2, <1>3 DEF Execute

LEMMA RequestOnce ==
  ASSUME SentInv, QueuedInv', NEW r \in Requests, Request(r)
  PROVE  OnceInv' /\ SendsFresh
<1>1. r \in Callers /\ r \notin Ids /\ restoring = <<>> /\ Waits(r)
  BY KeyAssumption DEF Callers, Request, Quiet, Waits
<1>2. CASE call' = [call EXCEPT ![r] = "limited"] /\ UNCHANGED <<queueVars, clientOnly, sent>>
  <2>1. UNCHANGED <<queue, active, stored>> /\ UNCHANGED <<data, restoring, sent>>
    BY <1>2 DEF queueVars, clientOnly, schedVars
  <2>2. /\ \A x \in Callers : call'[x] = IF x = r THEN "limited" ELSE call[x]
        /\ Ids \subseteq Callers /\ Requests \subseteq Callers /\ active \subseteq Ids
    BY <1>2 DEF SentInv, QueuedInv, CallsInv, OfflineTypeOK, TypeOK, Callers
  <2>3. PendingIds(queue') = PendingIds(queue) /\ PendingIds(stored') = PendingIds(stored)
        /\ PendingIds(restoring') = PendingIds(restoring)
    BY <2>1
  <2>4. \A x \in active' : call'[x] = call[x] /\ x \in active
    BY <1>1, <2>1, <2>2
  <2>5. Carried' \subseteq Carried
    BY <2>3, <2>4 DEF Carried
  <2>6. (\A x \in Requests : Waits(x)' => Waits(x)) /\ \A x \in Callers : call'[x] = "sent" => call[x] = "sent"
    BY <1>1, <2>2 DEF Waits
  <2>7. RestoresOnce'
    BY <1>1, <2>1, HoldsNothing
  <2>8. QED
    BY <2>1, <2>5, <2>6, <2>7, QuietStep
<1>3. CASE Execute(r)
  BY <1>1, <1>3, ExecuteOnce
<1>4. QED
  BY <1>2, <1>3 DEF Request

LEMMA TokenOnce ==
  ASSUME SentInv, QueuedInv', NEW c \in Callers, Token(c)
  PROVE  OnceInv' /\ SendsFresh
BY ExecuteOnce DEF Token, Quiet, Waits

LEMMA AnswerOnce ==
  ASSUME SentInv, NEW c \in Callers, NEW ok, Answer(c, ok) \/ Propagate(c)
  PROVE  OnceInv' /\ SendsFresh
<1>1. {c} \in SUBSET Callers /\ SentFor(Key(c)) \in SUBSET Callers
  BY DEF SentFor
<1>2. CASE Answer(c, ok)
  BY <1>1, <1>2, CompleteOnce DEF Answer, Quiet
<1>3. CASE Propagate(c)
  BY <1>1, <1>3, CompleteOnce DEF Propagate
<1>4. QED
  BY <1>2, <1>3

LEMMA LoadOnce == ASSUME SentInv, Load PROVE OnceInv' /\ SendsFresh
<1>1. /\ UNCHANGED <<queue, active, stored>> /\ UNCHANGED <<call, data, sent>> /\ restoring' = stored
  BY DEF Load, LoadQueue, schedVars
<1>2. PendingIds(queue') = PendingIds(queue) /\ PendingIds(stored') = PendingIds(stored)
      /\ PendingIds(restoring') = PendingIds(stored)
  BY <1>1
<1>3. Carried' \subseteq Carried
  BY <1>1, <1>2 DEF Carried
<1>4. RestoresOnce'
  <2>1. UniqueIds(restoring')
    BY <1>1 DEF SentInv, QueuedInv, StoredInv, StoreInv
  <2>2. CASE stored = queue
    BY <1>1, <1>2, <2>1, <2>2 DEF RestoresOnce
  <2>3. CASE queue = <<>> /\ active = {}
    BY <1>1, <1>2, <2>1, <2>3, NothingHeld DEF RestoresOnce
  <2>4. QED
    BY <2>2, <2>3 DEF SentInv, QueuedInv, StoredInv, StoreInv
<1>5. (\A r \in Requests : Waits(r)' => Waits(r)) /\ \A c \in Callers : call'[c] = "sent" => call[c] = "sent"
  BY <1>1 DEF Waits
<1>6. QED
  BY <1>1, <1>3, <1>4, <1>5, QuietStep

LEMMA DisposeOnce == ASSUME SentInv, NEW reason, Dispose(reason) PROVE OnceInv' /\ SendsFresh
<1>1. /\ UNCHANGED <<data, restoring, sent>> /\ restoring = <<>> /\ active' = active
      /\ \/ UNCHANGED <<queue, stored, call>>
         \/ /\ queue' = <<>> /\ stored' = <<>>
            /\ call' = [c \in Callers |-> IF call[c] \in PendingIds(queue) THEN "lost" ELSE call[c]]
  BY DEF Dispose, Quiet, Clear, SaveQueue, queueVars, schedVars
<1>2. \A x \in Callers : call'[x] = call[x] \/ call'[x] = "lost"
  BY <1>1
<1>3. Ids \subseteq Callers /\ Requests \subseteq Callers /\ active \subseteq Ids
  BY DEF Callers, SentInv, QueuedInv, CallsInv, OfflineTypeOK, TypeOK
<1>4. \A x \in active' : call'[x] = "limited" => x \in active /\ call[x] = "limited"
  BY <1>1, <1>2, <1>3
<1>5. /\ PendingIds(queue') \subseteq PendingIds(queue) /\ PendingIds(stored') \subseteq PendingIds(stored)
      /\ PendingIds(restoring') = PendingIds(restoring)
  BY <1>1, NothingHeld
<1>6. Carried' \subseteq Carried
  BY <1>4, <1>5 DEF Carried
<1>7. (\A r \in Requests : Waits(r)' => Waits(r)) /\ \A c \in Callers : call'[c] = "sent" => call[c] = "sent"
  BY <1>2, <1>3 DEF Waits
<1>8. RestoresOnce'
  BY <1>1, HoldsNothing
<1>9. QED
  BY <1>1, <1>6, <1>7, <1>8, QuietStep

LEMMA NewPageOnce == ASSUME SentInv, NewPage PROVE OnceInv' /\ SendsFresh
<1>1. /\ UNCHANGED <<data, restoring, sent, stored>> /\ restoring = <<>> /\ active' = {} /\ queue' = <<>>
      /\ call' = [c \in Callers |-> IF c \in Ids \/ call[c] = "none" THEN "none" ELSE "gone"]
  BY DEF NewPage, Quiet, Restart
<1>2. PendingIds(queue') = {} /\ PendingIds(stored') = PendingIds(stored)
      /\ PendingIds(restoring') = PendingIds(restoring)
  BY <1>1, NothingHeld
<1>3. Carried' \subseteq Carried
  BY <1>1, <1>2 DEF Carried
<1>4. (\A r \in Requests : Waits(r)' => Waits(r)) /\ \A c \in Callers : call'[c] # "sent"
  BY <1>1, KeyAssumption DEF Waits, Callers
<1>5. RestoresOnce'
  BY <1>1, HoldsNothing
<1>6. QED
  BY <1>1, <1>3, <1>4, <1>5, QuietStep

LEMMA StillOnce ==
  ASSUME SentInv, UNCHANGED <<queue, active, stored, call, data, restoring, sent>>
  PROVE  OnceInv' /\ SendsFresh
<1>1. Carried' = Carried /\ RestoresOnce'
  BY DEF Carried, PendingIds, SentInv, OnceInv, RestoresOnce, UniqueIds
<1>2. (\A r \in Requests : Waits(r)' => Waits(r)) /\ \A c \in Callers : call'[c] = "sent" => call[c] = "sent"
  BY DEF Waits
<1>3. QED
  BY <1>1, <1>2, QuietStep

LEMMA InitOnce == OfflineInit => SentInv
<1>. SUFFICES ASSUME OfflineInit PROVE OnceInv
  BY InitQueued DEF SentInv
<1>1. queue = <<>> /\ stored = <<>> /\ restoring = <<>> /\ active = {} /\ sent = {}
  BY DEF OfflineInit, Init
<1>2. Carried = {}
  BY <1>1, NothingHeld DEF Carried
<1>3. QED
  BY <1>1, <1>2, NothingHeld DEF OnceInv, RestoresOnce, UniqueIds

LEMMA NextOnce == SentInv /\ [OfflineNext]_offlineVars => SentInv' /\ SendsFresh
<1>. SUFFICES ASSUME SentInv, [OfflineNext]_offlineVars PROVE OnceInv' /\ SendsFresh
  BY NextQueued DEF SentInv
<1>1. QueuedInv'
  BY NextQueued DEF SentInv
<1>2. ASSUME NEW c \in Callers, Proceeds(c)
      PROVE  OnceInv' /\ SendsFresh
  BY <1>1, <1>2, TokenOnce, AnswerOnce DEF Proceeds
<1>3. CASE Microtask
  BY <1>1, <1>3, RestoreOnce, AnswerOnce, RetireOnce DEF Microtask
<1>4. CASE Offline \/ UNCHANGED offlineVars
  <2>1. UNCHANGED <<queue, active, stored, call, data, restoring, sent>>
    BY <1>4 DEF Offline, Pause, clientOnly, offlineVars, queueVars, schedVars
  <2>2. QED
    BY <2>1, StillOnce
<1>5. QED
  BY <1>1, <1>2, <1>3, <1>4, RequestOnce, OnlineOnce, LoadOnce, NewPageOnce, DisposeOnce
     DEF OfflineNext

\* A request that is not deduplicated reaches the server at most once, however often it is
\* queued, restored by another page or queued again by the limiter (queueOfflineRequest).
THEOREM RequestsSentOnce == OfflineSpec => SentAtMostOnce
<1>1. SentInv /\ [OfflineNext]_offlineVars => SendsFresh
  BY NextOnce
<1>2. QED
  BY <1>1, InitOnce, NextOnce, PTL DEF OfflineSpec, SentAtMostOnce, SendsFresh
=============================================================================
