------------------------- MODULE RequestDeduplicator -------------------------
(***************************************************************************)
(* The deduplicator of src/utils/dedup.ts, which programs use beside the   *)
(* client.  Callers ask for a request with one of a few body objects; the  *)
(* key of a body is cached by the identity of the object, so that it goes  *)
(* stale when the object changes.  Bodies that JSON.stringify() throws at  *)
(* have one key between them, whatever they hold.                          *)
(***************************************************************************)
EXTENDS Integers, FiniteSets

CONSTANTS
  Callers,
  Bodies,        \* body objects
  Circular,      \* those of them that cannot be serialized
  MaxContent     \* bound on the changes of a body

VARIABLES
  content,       \* what each body object holds now
  cachedKey,     \* _bodyStringCache: the key it was given first, or -1
  inflight,      \* the flight registered under each key, or None
  flights,       \* the live flights, each named by the caller who started it
  asked,         \* history: the body and content each caller asked for
  joined,        \* the flight each caller waits for, or None
  settledJoin,   \* history: somebody was given a flight that had settled
  forgotten,     \* history: keys evicted or cleared while one of their flights was live
  savedRequests

None == "none"
vars == <<content, cachedKey, inflight, flights, asked, joined, settledJoin, forgotten, savedRequests>>

\* Body objects that hold the same have the same key, which stands for their content; the
\* one that no content has is '[non-serializable:[object Object]]'.
Contents == 0 .. MaxContent
Fallback == MaxContent + 1
Keys == Contents \cup {Fallback}

TypeOK ==
  /\ content \in [Bodies -> Contents] /\ cachedKey \in [Bodies -> Keys \cup {-1}]
  /\ inflight \in [Keys -> Callers \cup {None}] /\ flights \in SUBSET Callers
  /\ asked \in [Callers -> [body : Bodies \cup {None}, content : Contents, key : Keys]]
  /\ joined \in [Callers -> Callers \cup {None}] /\ settledJoin \in BOOLEAN
  /\ forgotten \in SUBSET Keys /\ savedRequests \in Nat

Init ==
  /\ content = [b \in Bodies |-> 0] /\ cachedKey = [b \in Bodies |-> -1]
  /\ inflight = [k \in Keys |-> None] /\ flights = {}
  /\ asked = [c \in Callers |-> [body |-> None, content |-> 0, key |-> 0]]
  /\ joined = [c \in Callers |-> None] /\ settledJoin = FALSE
  /\ forgotten = {} /\ savedRequests = 0

-----------------------------------------------------------------------------
\* buildDedupKey(), by way of safeStringifyBody().
DedupKey(b) ==
  IF cachedKey[b] >= 0 THEN cachedKey[b] ELSE IF b \in Circular THEN Fallback ELSE content[b]

\* deduplicate(): the flight that is registered, or a new one.
Deduplicate(c, b) ==
  /\ joined[c] = None
  /\ LET key == DedupKey(b)
         existing == inflight[key]
     IN  /\ cachedKey' = [cachedKey EXCEPT ![b] = key]
         /\ asked' = [asked EXCEPT ![c] = [body |-> b, content |-> content[b], key |-> key]]
         /\ IF existing # None
            THEN /\ joined' = [joined EXCEPT ![c] = existing]
                 /\ settledJoin' = (settledJoin \/ existing \notin flights)
                 /\ savedRequests' = savedRequests + 1
                 /\ UNCHANGED <<inflight, flights>>
            ELSE /\ joined' = [joined EXCEPT ![c] = c]
                 /\ inflight' = [inflight EXCEPT ![key] = c] /\ flights' = flights \cup {c}
                 /\ UNCHANGED <<settledJoin, savedRequests>>
  /\ UNCHANGED <<content, forgotten>>

\* Mutant of Released: then() in place of finally() leaves the key to a rejected flight.
ReleasedIfFulfilled(key, fulfilled) ==
  IF fulfilled THEN [inflight EXCEPT ![key] = None] ELSE inflight

\* finally() deletes whatever is registered under the key, after an evict() a newer flight.
Released(key, fulfilled) == [inflight EXCEPT ![key] = None]

Settle(c, fulfilled) ==
  /\ c \in flights /\ flights' = flights \ {c}
  /\ inflight' = Released(asked[c].key, fulfilled)
  /\ UNCHANGED <<content, cachedKey, asked, joined, settledJoin, forgotten, savedRequests>>

Forget(keys) ==
  /\ inflight' = [k \in Keys |-> IF k \in keys THEN None ELSE inflight[k]]
  /\ forgotten' = forgotten \cup {k \in keys : inflight[k] # None}
  /\ UNCHANGED <<content, cachedKey, flights, asked, joined, settledJoin, savedRequests>>

Evict(key) == Forget({key})
Clear == Forget(Keys)

\* The program changes a body it has used.
ChangeBody(b) ==
  /\ content[b] < MaxContent /\ content' = [content EXCEPT ![b] = @ + 1]
  /\ UNCHANGED <<cachedKey, inflight, flights, asked, joined, settledJoin, forgotten, savedRequests>>

Next ==
  \/ \E c \in Callers : (\E b \in Bodies : Deduplicate(c, b)) \/ (\E ok \in BOOLEAN : Settle(c, ok))
  \/ \E key \in Keys : Evict(key)
  \/ Clear
  \/ \E b \in Bodies : ChangeBody(b)

Spec == Init /\ [][Next]_vars

-----------------------------------------------------------------------------
\* Nobody is given an outcome from before the call; callers who ask for the same share
\* one flight until a key is evicted or cleared under a live flight; and a flight is
\* shared only with a caller who asks for the same, unless one of their bodies was
\* changed after it was keyed, or neither body can be serialized.
FlightsShared ==
  /\ ~settledJoin
  /\ \A c, d \in flights : c # d /\ asked[c].key = asked[d].key => asked[c].key \in forgotten
  /\ \A c \in Callers :
       joined[c] # None /\ asked[joined[c]].content # asked[c].content =>
         \/ {asked[c].body, asked[joined[c]].body} \subseteq Circular
         \/ \E d \in {c, joined[c]} :
              asked[d].body \notin Circular /\ cachedKey[asked[d].body] # asked[d].content

\* "The request will not be deduplicated" (dedup.ts:76): one whose body cannot be serialized
\* does not share the flight of one with another body.
FallbackNotShared ==
  \A c \in Callers :
    asked[c].body \in Circular /\ joined[c] # None => asked[joined[c]].body = asked[c].body

\* A caller is the flight it has started or has joined the one it was given; when finally()
\* runs the flight has landed, and those who joined it hold the promise it returned.
AsCall(c) ==
  CASE joined[c] = None -> "idle" [] joined[c] = c /\ c \in flights -> "flying"
    [] joined[c] = c /\ c \notin flights -> "landed" [] OTHER -> "joined"

Shared == INSTANCE OneFlightPerKey WITH
  NoKey <- -1,
  call <- [c \in Callers |-> AsCall(c)],
  keyOf <- [c \in Callers |-> IF joined[c] = None THEN -1 ELSE asked[c].key],
  leader <- [c \in Callers |-> IF joined[c] = c THEN None ELSE joined[c]],
  flight <- inflight

\* deduplicate() implements the sharing of flights: nobody joins a flight that has landed or
\* one for another key, and a key that is not evicted or cleared has one flight at a time.
ImplementsOneFlightPerKey == Shared!Spec
=============================================================================
