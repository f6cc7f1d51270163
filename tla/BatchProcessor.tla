---------------------------- MODULE BatchProcessor ----------------------------
(***************************************************************************)
(* The batch processor of src/utils/batch.ts, and the batch transport of   *)
(* src/utils/batch-transport.ts, which adds the requests shouldBatch()     *)
(* picks and sends the others one by one.  Batches may be in the processor *)
(* at the same time and be answered in any order.                          *)
(***************************************************************************)
EXTENDS Integers, Sequences, SequencesExt

CONSTANTS Items, MaxBatchSize

VARIABLES
  queue,       \* the items of this.queue
  timeout,     \* this.timeout is set
  timer,       \* ... and its timer has not been cleared
  batches,     \* what executeBatch() was given and has not answered
  promise      \* what became of the promise of add()

vars == <<queue, timeout, timer, batches, promise>>

TypeOK ==
  /\ queue \in Seq(Items) /\ batches \in SUBSET Seq(Items)
  /\ timeout \in BOOLEAN /\ timer \in BOOLEAN
  /\ promise \in [Items -> {"none", "pending", "resolved", "rejected"}]

Init ==
  /\ queue = <<>> /\ timeout = FALSE /\ timer = FALSE /\ batches = {}
  /\ promise = [i \in Items |-> "none"]

-----------------------------------------------------------------------------
\* splice(0, maxBatchSize): the first items become a batch.
Splice(q) ==
  LET n == IF Len(q) < MaxBatchSize THEN Len(q) ELSE MaxBatchSize
  IN  /\ queue' = SubSeq(q, n + 1, Len(q))
      /\ batches' = IF n = 0 THEN batches ELSE batches \cup {SubSeq(q, 1, n)}

\* Mutant of Flush: the timer is cleared, this.timeout is not.
FlushKeepsTimeout(q) == timer' = FALSE /\ UNCHANGED timeout /\ Splice(q)

\* flush()
Flush(q) == timer' = FALSE /\ timeout' = FALSE /\ Splice(q)

\* add(): a full batch goes at once, another waits for the timer.
Add(i) ==
  /\ promise[i] = "none" /\ promise' = [promise EXCEPT ![i] = "pending"]
  /\ LET q == Append(queue, i)
     IN  IF Len(q) >= MaxBatchSize THEN Flush(q)
         ELSE queue' = q /\ timeout' = TRUE /\ timer' = (timer \/ ~timeout) /\ UNCHANGED batches

Timer == timer /\ Flush(queue) /\ UNCHANGED promise

Settle(b, outcome) ==
  /\ batches' = batches \ {b}
  /\ promise' = [i \in Items |-> IF i \in ToSet(b) THEN outcome ELSE promise[i]]
  /\ UNCHANGED <<queue, timeout, timer>>

\* The processor returns a result for each item; or fails, or returns too few or too many.
Processed(b) == Settle(b, "resolved")
BatchFails(b) == Settle(b, "rejected")

\* The batch transport passes a request on, unbatched.
SendAlone(i) ==
  /\ promise[i] = "none" /\ batches' = batches \cup {<<i>>}
  /\ promise' = [promise EXCEPT ![i] = "pending"]
  /\ UNCHANGED <<queue, timeout, timer>>

Next ==
  \/ \E i \in Items : Add(i) \/ SendAlone(i)
  \/ Timer
  \/ \E b \in batches : Processed(b) \/ BatchFails(b)

Spec == Init /\ [][Next]_vars

\* The timer fires, and a batch is answered or fails.
Fairness == WF_vars(Timer) /\ WF_vars(\E b \in batches : Processed(b) \/ BatchFails(b))

-----------------------------------------------------------------------------
\* Nobody who waits for add() is forgotten, and no item is processed twice: what is pending is
\* once in the queue, whose timer runs, or once in a batch the processor has room for.
ItemsHeld ==
  /\ \A i \in Items :
       promise[i] = "pending" <=> i \in ToSet(queue) \/ \E b \in batches : i \in ToSet(b)
  /\ \A b, c \in batches : b # c => ToSet(b) \cap ToSet(c) = {}
  /\ \A b \in batches : ToSet(b) \cap ToSet(queue) = {} /\ Len(b) \in 1 .. MaxBatchSize
  /\ \A s \in batches \cup {queue} : IsInjective(s)
  /\ queue # <<>> => timer

\* Every request that was added is settled, however additions, full batches, the timer and
\* answers out of order interleave: none is left in the queue without a timer.
ItemsSettle == \A i \in Items : (promise[i] = "pending") ~> (promise[i] \in {"resolved", "rejected"})
=============================================================================
