----------------------------- MODULE CacheManager -----------------------------
(***************************************************************************)
(* The cache manager of src/utils/cache.ts over either of its adapters:    *)
(* MemoryAdapter, a Map whose order of insertion is the order of use, and  *)
(* WebStorageAdapter, which has no limit and no order, and may fail to     *)
(* save without telling.  An entry is its key, whether it is fresh, and    *)
(* whether it carries the tag.  A key may be the empty string, which       *)
(* eviction takes for no key at all.                                       *)
(***************************************************************************)
EXTENDS Integers, SequencesExt

CONSTANTS
  Keys, MaxEntries,
  EmptyKey   \* '', among the keys or not

VARIABLES
  memory,    \* the adapter is a MemoryAdapter
  cache,     \* the entries, in the order of the Map
  older,     \* history: <<j, k>> if k has been used since j was
  spared     \* history: a full adapter has kept the empty key, which it had to evict

vars == <<memory, cache, older, spared>>

Entries == [key : Keys, fresh : BOOLEAN, tagged : BOOLEAN]

TypeOK ==
  /\ memory \in BOOLEAN
  /\ cache \in Seq(Entries)
  /\ older \in SUBSET (Keys \X Keys) /\ spared \in BOOLEAN

Init == memory \in BOOLEAN /\ cache = <<>> /\ older = {} /\ spared = FALSE

-----------------------------------------------------------------------------
Cached(c) == {c[i].key : i \in DOMAIN c}
IndexOf(c, k) == CHOOSE i \in DOMAIN c : c[i].key = k
Entry(c, k) == c[IndexOf(c, k)]
Without(c, k) == IF k \in Cached(c) THEN RemoveAt(c, IndexOf(c, k)) ELSE c
Use(k) == older' = {p \in older : p[1] # k} \cup ((Keys \ {k}) \X {k})

\* Mutant of Insert: Map.set() alone leaves a key that is there where it is.
InsertInPlace(c, e) ==
  IF e.key \in Cached(c) THEN [i \in DOMAIN c |-> IF c[i].key = e.key THEN e ELSE c[i]]
  ELSE Append(c, e)

\* Map.delete() and Map.set(): the entry goes to the end.
Insert(c, e) == Append(Without(c, e.key), e)

\* MemoryAdapter.set(): a full adapter evicts its first entry for a new key, if (lruKey).
SetInMemory(e) ==
  LET full == Len(cache) >= MaxEntries /\ e.key \notin Cached(cache)
      lruKey == cache[1].key
  IN  /\ cache' = Insert(IF full /\ lruKey # EmptyKey THEN Tail(cache) ELSE cache, e)
      /\ spared' = (spared \/ (full /\ lruKey = EmptyKey))

\* WebStorageAdapter.set(): a full storage leaves all as it was, with a warning.
SetInStorage(e) == (cache' = Insert(cache, e) \/ UNCHANGED cache) /\ UNCHANGED spared

Set(k, tagged) ==
  LET e == [key |-> k, fresh |-> TRUE, tagged |-> tagged]
  IN  /\ IF memory THEN SetInMemory(e) ELSE SetInStorage(e)
      /\ Use(k) /\ UNCHANGED memory

\* adapter.get(): MemoryAdapter moves what is there to the end.
Touched(c, k) == IF memory /\ k \in Cached(c) THEN Insert(c, Entry(c, k)) ELSE c

GetEntry(k) ==
  /\ k \in Cached(cache)
  /\ cache' = Touched(cache, k) /\ Use(k) /\ UNCHANGED <<memory, spared>>

\* get() also deletes what has expired.
Get(k) ==
  /\ k \in Cached(cache)
  /\ cache' = IF Entry(cache, k).fresh THEN Touched(cache, k) ELSE Without(cache, k)
  /\ Use(k) /\ UNCHANGED <<memory, spared>>

Delete(k) == cache' = Without(cache, k) /\ UNCHANGED <<memory, older, spared>>

\* The cache after the loop of either invalidation over Array.from(adapter.keys()), each
\* of which it gets, if it has to look at the entry, and deletes if it is in K.
Pruned(K, gets) ==
  LET after[n \in 0 .. Len(cache)] ==
        IF n = 0 THEN cache
        ELSE LET k == cache[n].key
                 c == IF gets THEN Touched(after[n - 1], k) ELSE after[n - 1]
             IN  IF k \in K THEN Without(c, k) ELSE c
  IN  after[Len(cache)]

\* invalidateByTag() gets every entry, which moves each to the end in turn.
InvalidateByTag ==
  /\ cache' = Pruned({k \in Cached(cache) : Entry(cache, k).tagged}, TRUE)
  /\ UNCHANGED <<memory, older, spared>>

\* invalidateByPattern(), for a pattern that matches the keys of K.
InvalidateByPattern(K) == cache' = Pruned(K, FALSE) /\ UNCHANGED <<memory, older, spared>>

Clear == cache' = <<>> /\ UNCHANGED <<memory, older, spared>>

\* The expiry of an entry passes.
Expire(i) ==
  /\ cache[i].fresh /\ cache' = [cache EXCEPT ![i].fresh = FALSE]
  /\ UNCHANGED <<memory, older, spared>>

Next ==
  \/ \E k \in Keys : GetEntry(k) \/ Get(k) \/ Delete(k) \/ \E tagged \in BOOLEAN : Set(k, tagged)
  \/ InvalidateByTag \/ Clear \/ \E K \in SUBSET Keys : InvalidateByPattern(K)
  \/ \E i \in DOMAIN cache : Expire(i)

Spec == Init /\ [][Next]_vars

-----------------------------------------------------------------------------
\* What comes first in a memory cache, which is what it evicts first, is what has not been
\* used for longest, invalidation scans notwithstanding; and it keeps at most MaxEntries,
\* unless the empty key, once cached, has been what it had to evict.
EvictsLeastRecentlyUsed ==
  memory =>
    /\ Len(cache) <= MaxEntries \/ spared
    /\ \A i, j \in DOMAIN cache : i < j => <<cache[i].key, cache[j].key>> \in older
=============================================================================
