--------------------------- MODULE ResumableUploader ---------------------------
(***************************************************************************)
(* The uploader of src/utils/upload.ts: upload() sends the chunks of a     *)
(* file in order, at most Parallel at a time, each with its own retries    *)
(* (which HTTPTransport.tla models); one that fails for good fails the     *)
(* upload, while the others that are under way go on.                      *)
(*                                                                         *)
(* The loop awaits Promise.race() of the chunks under way.  A chunk that   *)
(* settles leaves the set at once, in the callback of its finally(); ticks *)
(* later its promise settles, then the race, then the loop goes on, and    *)
(* other chunks may settle between.  Their promises settle in the order of *)
(* the callbacks, so that the first callback since the race began decides  *)
(* it, and the promises of the others settle unheard.                      *)
(***************************************************************************)
EXTENDS Integers, FiniteSets

CONSTANTS
  MaxChunks,   \* bound on the size of a file
  Parallel     \* options.parallel

VARIABLES
  chunks,      \* the number of chunks of the file
  upload,      \* what became of the promise of upload()
  next,        \* the next chunk to send
  active,      \* the chunks under way
  winner,      \* the chunk that left active first since the race began, or None
  race,        \* what became of the race the loop awaits
  stored,      \* history: the chunks the server has accepted
  aborted,     \* chunks under way when abort() was called, whose signal is aborted
  overtaken    \* history: chunks that failed when another had already decided the race

None == -1
vars == <<chunks, upload, next, active, winner, race, stored, aborted, overtaken>>

Chunks == 0 .. MaxChunks - 1

TypeOK ==
  /\ chunks \in 0 .. MaxChunks /\ next \in 0 .. MaxChunks
  /\ upload \in {"none", "running", "resolved", "rejected"}
  /\ race \in {"pending", "fulfilled", "rejected"} /\ winner \in Chunks \cup {None}
  /\ active \in SUBSET Chunks /\ stored \in SUBSET Chunks
  /\ aborted \in SUBSET Chunks /\ overtaken \in SUBSET Chunks

Init ==
  /\ chunks \in 0 .. MaxChunks
  /\ upload = "none" /\ next = 0 /\ active = {} /\ winner = None /\ race = "pending"
  /\ stored = {} /\ aborted = {} /\ overtaken = {}

-----------------------------------------------------------------------------
\* Mutant of Finished: the loop ends with the last chunk that is sent.
FinishedSending(act) == next' = chunks

\* The loop of processInBatches() ends.
Finished(act) == next' = chunks /\ act = {}

\* The loop sends chunks up to the limit, then awaits the race of all that are under way,
\* or upload() resolves.  (With parallel = 1 the code awaits each chunk by itself, which is
\* a race of one.)
Proceed ==
  LET free == Parallel - Cardinality(active)
  IN  /\ next' = IF chunks - next < free THEN chunks ELSE next + free
      /\ active' = active \cup next .. next' - 1
      /\ upload' = IF Finished(active') THEN "resolved" ELSE "running"
      /\ winner' = None /\ race' = "pending"

Upload == upload = "none" /\ Proceed /\ UNCHANGED <<chunks, stored, aborted, overtaken>>

\* finally(() => active.delete(p))
Leave(c) == active' = active \ {c} /\ winner' = IF winner = None THEN c ELSE winner

ChunkStored(c) ==
  /\ c \in active \ aborted /\ Leave(c) /\ stored' = stored \cup {c}
  /\ UNCHANGED <<chunks, upload, next, race, aborted, overtaken>>

\* A chunk fails after its retries, or because it was aborted.
ChunkFails(c) ==
  /\ c \in active /\ Leave(c) /\ aborted' = aborted \ {c}
  /\ overtaken' = IF winner = None THEN overtaken ELSE overtaken \cup {c}
  /\ UNCHANGED <<chunks, upload, next, race, stored>>

\* The promise of the first chunk settles, and the race with it.
RaceSettles ==
  /\ winner # None /\ race = "pending"
  /\ race' = IF winner \in stored THEN "fulfilled" ELSE "rejected"
  /\ UNCHANGED <<chunks, upload, next, active, winner, stored, aborted, overtaken>>

\* The await of the race returns, and the loop looks at what is under way now, or throws.
LoopGoesOn ==
  /\ upload = "running" /\ race = "fulfilled"
  /\ Proceed /\ UNCHANGED <<chunks, stored, aborted, overtaken>>
LoopThrows ==
  /\ upload = "running" /\ race = "rejected" /\ upload' = "rejected"
  /\ UNCHANGED <<chunks, next, active, winner, race, stored, aborted, overtaken>>

\* abort(); the chunks to come, if any, get the signal of a new AbortController.
Abort ==
  /\ aborted' = active
  /\ UNCHANGED <<chunks, upload, next, active, winner, race, stored, overtaken>>

Next ==
  \/ Upload \/ RaceSettles \/ LoopGoesOn \/ LoopThrows \/ Abort
  \/ \E c \in active : ChunkStored(c) \/ ChunkFails(c)

Spec == Init /\ [][Next]_vars

-----------------------------------------------------------------------------
\* upload() resolves only when the server has every chunk, whichever finish first and
\* however many are aborted, but for those that failed in the ticks between another
\* chunk's success and the loop's next iteration, of which there are none unless chunks
\* are sent side by side; and no more than Parallel are ever under way.
ResolvedMeansStored ==
  /\ upload = "resolved" => stored \cup overtaken = 0 .. chunks - 1
  /\ Parallel = 1 => overtaken = {}
  /\ Cardinality(active) <= Parallel

\* "Throws immediately if any worker rejects" (upload.ts:120): upload() does not resolve if
\* a chunk has failed.
FailureRejects == upload = "resolved" => stored = 0 .. chunks - 1
=============================================================================
