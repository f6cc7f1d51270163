------------------------------ MODULE QueryCache ------------------------------
(***************************************************************************)
(* The query cache of HTTPClient (src/core/http-client.ts): request() with *)
(* its cache strategies, read(), subscribe(), setQueryData(), mutate(),    *)
(* prefetch() and revalidateActiveQueries(), with the requests that are    *)
(* under way.  Keys meet in one place only: storing one may evict another, *)
(* which CacheManager.tla models and which is Evict here.                  *)
(*                                                                         *)
(* A key stands for a URL with its parameters; the data the server returns *)
(* for it is the version of the server's state when it answered, 0 being a *)
(* falsy value, and the data the application writes itself is Local.  An   *)
(* entry is fresh until its expiry has passed.                             *)
(***************************************************************************)
EXTENDS Integers, Sequences, FiniteSets

CONSTANTS
  Keys, Observers,
  Watches,        \* the key each observer subscribes to
  MaxVersion,     \* bound on the server's versions
  MaxFlights,     \* bound on the requests under way for a key
  Pending, Aborted, Local, NoEntry

ASSUME CacheAssumption ==
  /\ MaxVersion \in Nat
  /\ Watches \in [Observers -> Keys]
  /\ IsFiniteSet(Observers)
  /\ {Pending, Aborted} \cap Int = {}

VARIABLES
  dedup,      \* config.enableDeduplication
  cache,      \* key -> its entry in the cache manager, or NoEntry
  flights,    \* key -> the requests under way, in the order they were sent
  suspense,   \* the keys of suspenseRequests
  query,      \* key -> its query object in activeQueries, 0 for none
  obs,        \* observer -> the query object its unsubscribe() refers to, and whether it is in it
  server,     \* the version of the server's state
  behind,     \* history: observers not told of the last write of their key
  cut,        \* history: observers whose query another's unsubscribe() deleted
  kept,       \* history: key -> the last version a response put into the cache
  overlap,    \* history: keys with two requests at once since they last had none
  disposed    \* history: dispose() was called

clientVars == <<dedup, cache, flights, suspense, query, obs, server>>
history == <<behind, cut, kept, overlap, disposed>>
vars == <<clientVars, history>>

Versions == 0 .. MaxVersion
Strategies == {"cache-first", "stale-while-revalidate", "network-only"}
QueryIds == 1 .. Cardinality(Observers) + 1

Entries == [data : Versions \cup {Local}, fresh : BOOLEAN]
\* A request: the data it was answered with, whether inFlightRequests refers to it,
\* and whether it fills the cache and was sent by read().
Flights == [data : Versions \cup {Pending, Aborted}, mapped : BOOLEAN,
            store : BOOLEAN, read : BOOLEAN]

TypeOK ==
  /\ dedup \in BOOLEAN
  /\ cache \in [Keys -> Entries \cup {NoEntry}]
  /\ flights \in [Keys -> Seq(Flights)]
  /\ suspense \in SUBSET Keys
  /\ query \in [Keys -> QueryIds \cup {0}]
  /\ obs \in [Observers -> [q : QueryIds \cup {0}, live : BOOLEAN]]
  /\ server \in Versions
  /\ behind \in SUBSET Observers
  /\ cut \in SUBSET Observers
  /\ kept \in [Keys -> Versions]
  /\ overlap \in SUBSET Keys /\ disposed \in BOOLEAN

Init ==
  /\ dedup \in BOOLEAN
  /\ cache = [k \in Keys |-> NoEntry] /\ flights = [k \in Keys |-> <<>>] /\ suspense = {}
  /\ query = [k \in Keys |-> 0] /\ obs = [o \in Observers |-> [q |-> 0, live |-> FALSE]]
  /\ server = 0
  /\ behind = {} /\ cut = {}
  /\ kept = [k \in Keys |-> 0] /\ overlap = {} /\ disposed = FALSE

-----------------------------------------------------------------------------
Has(c, k) == c[k] # NoEntry

\* CacheManager.get() deletes an entry that has expired; getEntry() does not.
Get(k) == IF Has(cache, k) /\ ~cache[k].fresh THEN [cache EXCEPT ![k] = NoEntry] ELSE cache

\* Mutant of Notified: only the observer added first hears of new data.
NotifiedFirst(k) ==
  LET all == {o \in Observers : obs[o].live /\ obs[o].q = query[k]}
  IN  IF all = {} THEN {} ELSE {CHOOSE o \in all : TRUE}

\* notifyObservers(): the observers of the query found under the key.  (They are taken not
\* to throw: one that did would end the loop before the rest are told.)
Notified(k) == {o \in Observers : obs[o].live /\ obs[o].q = query[k]}

\* CacheManager.set() and notifyObservers().
Write(k, d) ==
  /\ cache' = [cache EXCEPT ![k] = [data |-> d, fresh |-> TRUE]]
  /\ behind' = (behind \cup {o \in Observers : obs[o].live /\ Watches[o] = k}) \ Notified(k)

\* inFlightRequests.has(key), consulted with deduplication only.
InFlight(k) == \E i \in DOMAIN flights[k] : flights[k][i].mapped

\* _executeRequest() for the keys of K: joins the request under way, or sends one.
Launch(K, store, read) ==
  LET sent == {k \in K : ~InFlight(k)}
      flight == [data |-> Pending, mapped |-> dedup,
                 store |-> store, read |-> read]
  IN  /\ \A k \in sent : Len(flights[k]) < MaxFlights
      /\ flights' = [k \in Keys |-> IF k \in sent THEN Append(flights[k], flight) ELSE flights[k]]
      /\ overlap' = overlap \cup {k \in sent : flights[k] # <<>>}

\* request(): what the cache c holds is returned, expired or not, unless the
\* strategy says otherwise; stale-while-revalidate sends a request besides.
Requested(c, k, strategy, read) ==
  LET served == strategy # "network-only" /\ Has(c, k)
  IN  /\ cache' = c
      /\ IF served /\ strategy = "cache-first"
         THEN UNCHANGED <<flights, overlap, suspense>>
         ELSE /\ Launch({k}, TRUE, read /\ ~served)
              /\ suspense' = IF read /\ ~served THEN suspense \cup {k} ELSE suspense

Request(k, strategy) ==
  /\ Requested(cache, k, strategy, FALSE)
  /\ UNCHANGED <<dedup, query, obs, server, behind, cut, kept, disposed>>

\* request() with cacheConfig: false neither reads nor fills the cache.
RequestUncached(k) ==
  /\ Launch({k}, FALSE, FALSE)
  /\ UNCHANGED <<dedup, cache, suspense, query, obs, server, behind, cut, kept, disposed>>

\* read() finds a promise to throw, of a request or of its own.
ReadThrows(k) == InFlight(k) \/ k \in suspense

\* read(): the cached data if it is truthy, else a promise, or a new request.
Read(k, strategy) ==
  LET c == Get(k)
      hit == Has(c, k) /\ c[k].data # 0
  IN  /\ IF hit \/ ReadThrows(k)
         THEN cache' = c /\ UNCHANGED <<flights, overlap, suspense>>
         ELSE Requested(c, k, strategy, TRUE)
      /\ UNCHANGED <<dedup, query, obs, server, behind, cut, kept, disposed>>

\* prefetch(), and mutate()'s revalidation: request() with strategy network-only.
Prefetch(k) == Request(k, "network-only")

SetQueryData(k) ==
  /\ Write(k, Local)
  /\ UNCHANGED <<dedup, flights, suspense, query, obs, server, cut, kept, overlap, disposed>>

\* mutate(): set, then, with revalidate, a request that may be one already under way.
MutateAndRevalidate(k) ==
  /\ Write(k, Local) /\ Launch({k}, TRUE, FALSE)
  /\ UNCHANGED <<dedup, suspense, query, obs, server, cut, kept, disposed>>

\* revalidateActiveQueries(), called by the application.
RevalidateActiveQueries ==
  /\ Launch({k \in Keys : query[k] # 0}, TRUE, FALSE)
  /\ UNCHANGED <<dedup, cache, suspense, query, obs, server, behind, cut, kept, disposed>>

\* The window gets the focus or goes online; dispose() has removed these listeners.
\* setupAutomaticCleanup() also calls dispose() itself when the page is left.
FocusOrOnline == ~disposed /\ RevalidateActiveQueries

-----------------------------------------------------------------------------
\* subscribe(): the query under the key, or a new object.
Subscribe(o) ==
  LET k == Watches[o]
      unused == {q \in QueryIds : (\A p \in Observers : obs[p].q # q) /\ \A j \in Keys : query[j] # q}
      q == IF query[k] # 0 THEN query[k] ELSE CHOOSE n \in unused : TRUE
  IN  /\ ~obs[o].live
      /\ query' = [query EXCEPT ![k] = q]
      /\ obs' = [obs EXCEPT ![o] = [q |-> q, live |-> TRUE]]
      /\ behind' = behind \ {o}
      /\ cut' = cut \ {o}
      /\ UNCHANGED <<dedup, cache, flights, suspense, server, kept, overlap, disposed>>

\* Mutant of Deserted: the query goes with the first observer that leaves.
DesertedAtOnce(o) == TRUE

\* The query object o refers to has no observer but, perhaps, o.
Deserted(o) == \A p \in Observers \ {o} : obs[p].live => obs[p].q # obs[o].q

\* The function subscribe() returned, which may be called again: it deletes the
\* query under its key when its own object is empty, whichever object is there.
Unsubscribe(o) ==
  LET k == Watches[o]
      foreign == Deserted(o) /\ query[k] # obs[o].q
  IN  /\ obs[o].q # 0
      /\ obs' = [obs EXCEPT ![o].live = FALSE] /\ behind' = behind \ {o}
      /\ query' = IF Deserted(o) THEN [query EXCEPT ![k] = 0] ELSE query
      /\ cut' = (IF foreign THEN cut \cup Notified(k) ELSE cut) \ {o}
      /\ UNCHANGED <<dedup, cache, flights, suspense, server, kept, overlap, disposed>>

-----------------------------------------------------------------------------
\* The finally block removes the request and frees the key, whoever holds it now.
Settled(k, i) ==
  [j \in 1 .. Len(flights[k]) - 1 |->
     [flights[k][IF j < i THEN j ELSE j + 1] EXCEPT !.mapped = FALSE]]

\* The end of flight i of k; read() forgets its promise, by key.
Leave(k, i) ==
  /\ flights' = [flights EXCEPT ![k] = Settled(k, i)]
  /\ suspense' = IF flights[k][i].read THEN suspense \ {k} ELSE suspense
  /\ overlap' = IF Len(flights[k]) = 1 THEN overlap \ {k} ELSE overlap

\* Mutant of Answer: the key is free as soon as the response arrives.
AnswerFreesKey(k, i) ==
  /\ flights[k][i].data = Pending /\ flights[k][i].store
  /\ flights' = [flights EXCEPT ![k][i].data = server, ![k][i].mapped = FALSE]
  /\ UNCHANGED <<dedup, cache, suspense, query, obs, server, history>>

\* The server answers a request whose answer will be cached.
Answer(k, i) ==
  /\ flights[k][i].data = Pending /\ flights[k][i].store
  /\ flights' = [flights EXCEPT ![k][i].data = server]
  /\ UNCHANGED <<dedup, cache, suspense, query, obs, server, history>>

\* The response is processed: it goes into the cache and to the observers.
Deliver(k, i) ==
  LET f == flights[k][i]
  IN  /\ f.data \in Versions
      /\ Write(k, f.data) /\ kept' = [kept EXCEPT ![k] = f.data]
      /\ Leave(k, i)
      /\ UNCHANGED <<dedup, query, obs, server, cut, disposed>>

\* The request fails, is aborted, its response is no success, or cacheConfig is
\* false: nothing is cached.
Drop(k, i) ==
  /\ Leave(k, i)
  /\ UNCHANGED <<dedup, cache, query, obs, server, behind, cut, kept, disposed>>

\* dispose() forgets and aborts what is under way, and keeps cache and queries.
Dispose ==
  /\ flights' = [k \in Keys |-> [i \in DOMAIN flights[k] |->
                   [flights[k][i] EXCEPT !.mapped = FALSE, !.data = IF @ = Pending THEN Aborted ELSE @]]]
  /\ suspense' = {} /\ disposed' = TRUE
  /\ UNCHANGED <<dedup, cache, query, obs, server, behind, cut, kept, overlap>>

\* An entry is evicted for another key; its expiry passes; the server's state changes.
Evict(k) ==
  /\ Has(cache, k) /\ cache' = [cache EXCEPT ![k] = NoEntry]
  /\ UNCHANGED <<dedup, flights, suspense, query, obs, server, history>>
Expire(k) ==
  /\ Has(cache, k) /\ cache[k].fresh /\ cache' = [cache EXCEPT ![k].fresh = FALSE]
  /\ UNCHANGED <<dedup, flights, suspense, query, obs, server, history>>
ServerChanges ==
  /\ server < MaxVersion /\ server' = server + 1
  /\ UNCHANGED <<dedup, cache, flights, suspense, query, obs, history>>

Next ==
  \/ \E k \in Keys :
       \/ \E s \in Strategies : Request(k, s) \/ Read(k, s)
       \/ Evict(k) \/ Expire(k) \/ RequestUncached(k) \/ Prefetch(k) \/ SetQueryData(k) \/ MutateAndRevalidate(k)
       \/ \E i \in DOMAIN flights[k] : Answer(k, i) \/ Deliver(k, i) \/ Drop(k, i)
  \/ \E o \in Observers : Subscribe(o) \/ Unsubscribe(o)
  \/ RevalidateActiveQueries \/ FocusOrOnline \/ Dispose \/ ServerChanges

Spec == Init /\ [][Next]_vars

-----------------------------------------------------------------------------
(***************************************************************************)
(* Properties.                                                             *)
(***************************************************************************)
\* Whoever observes a key has been told of the last data written to the cache for it,
\* by whatever path it was written, late responses included.  Only an observer
\* whose query was deleted by an unsubscribe() that was not its own may be behind.
ObserversCurrent == \A o \in Observers : obs[o].live /\ o \notin cut => o \notin behind

\* A response never replaces a newer one in the cache as long as requests of a
\* key do not overlap, and with deduplication they do so only after dispose().
NeverOlderUnlessOverlapping ==
  [][\A k \in Keys : kept'[k] < kept[k] => k \in overlap /\ (dedup => disposed)]_vars
=============================================================================
