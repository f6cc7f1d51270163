--------------------------- MODULE QueryCacheProofs ---------------------------
(***************************************************************************)
(* Proofs about QueryCache: types, that observers are told of what is      *)
(* written for their key, and that a response replaces a newer one only    *)
(* where requests for its key overlapped.                                  *)
(***************************************************************************)
EXTENDS QueryCache, FiniteSetTheorems, TLAPS

\* Query objects: one that is found under a key has a live observer of the key, one that
\* an observer refers to is of its key, and a live observer is in the query of its key
\* unless that was deleted by somebody else.
Queries ==
  /\ \A k \in Keys : query[k] # 0 =>
       \E o \in Observers : obs[o].live /\ Watches[o] = k /\ obs[o].q = query[k]
  /\ \A o, p \in Observers : obs[o].q = obs[p].q /\ obs[o].q # 0 => Watches[o] = Watches[p]
  /\ \A o \in Observers : obs[o].live => obs[o].q # 0
  /\ \A o \in Observers : obs[o].live /\ o \notin cut => query[Watches[o]] = obs[o].q

\* Requests of a key: there is at most one unless they overlap, and what it is answered is
\* no older than what the cache was given.
Answers ==
  \A k \in Keys :
    /\ kept[k] <= server
    /\ k \notin overlap => Len(flights[k]) <= 1
    /\ \A i \in DOMAIN flights[k] :
         k \notin overlap /\ flights[k][i].data \in Versions => kept[k] <= flights[k][i].data
    /\ \A i \in DOMAIN flights[k] : flights[k][i].data \in Versions => flights[k][i].data <= server

\* With deduplication inFlightRequests refers to every request until dispose().
Deduplicated ==
  dedup /\ ~disposed =>
    overlap = {} /\ \A k \in Keys : \A i \in DOMAIN flights[k] : flights[k][i].mapped

IInv == TypeOK /\ Queries /\ ObserversCurrent /\ Answers /\ Deduplicated

-----------------------------------------------------------------------------
LEMMA FlightFacts ==
  ASSUME TypeOK, NEW k \in Keys
  PROVE  /\ flights[k] \in Seq(Flights) /\ Len(flights[k]) \in Nat
         /\ DOMAIN flights[k] = 1 .. Len(flights[k])
         /\ \A i \in DOMAIN flights[k] : flights[k][i] \in Flights
BY DEF TypeOK

LEMMA NotVersions == Pending \notin Versions /\ Aborted \notin Versions
BY CacheAssumption DEF Versions

LEMMA Unmapped ==
  ASSUME NEW f \in Flights
  PROVE  /\ [f EXCEPT !.mapped = FALSE] \in Flights
         /\ [f EXCEPT !.mapped = FALSE].data = f.data
BY DEF Flights

LEMMA Disposed ==
  ASSUME NEW f \in Flights,
         NEW g, g = [f EXCEPT !.mapped = FALSE, !.data = IF @ = Pending THEN Aborted ELSE @]
  PROVE  g \in Flights /\ (g.data \in Versions => g.data = f.data)
<1>1. g = [f EXCEPT !.mapped = FALSE, !.data = IF f.data = Pending THEN Aborted ELSE f.data]
  OBVIOUS
<1>2. g.data = IF f.data = Pending THEN Aborted ELSE f.data BY <1>1 DEF Flights
<1>3. g \in Flights BY <1>1 DEF Flights
<1> QED BY <1>2, <1>3, NotVersions

\* What is sent is appended to the requests under way.
LEMMA LaunchTypes ==
  ASSUME TypeOK, NEW K \in SUBSET Keys, NEW store \in BOOLEAN, NEW read \in BOOLEAN,
         Launch(K, store, read)
  PROVE  flights' \in [Keys -> Seq(Flights)] /\ overlap' \in SUBSET Keys
<1> DEFINE flight == [data |-> Pending, mapped |-> dedup, store |-> store, read |-> read]
<1>1. flight \in Flights BY DEF Flights, TypeOK
<1>2. \A k \in Keys : Append(flights[k], flight) \in Seq(Flights)
  BY <1>1, FlightFacts
<1>3. flights' \in [Keys -> Seq(Flights)]
  BY <1>2, FlightFacts DEF Launch
<1>4. overlap' \in SUBSET Keys BY DEF Launch, TypeOK
<1> QED BY <1>3, <1>4

\* The finally block leaves one request less.
LEMMA LeaveTypes ==
  ASSUME TypeOK, NEW k \in Keys, NEW i \in DOMAIN flights[k], Leave(k, i)
  PROVE  /\ flights' \in [Keys -> Seq(Flights)] /\ overlap' \in SUBSET Keys
         /\ suspense' \in SUBSET Keys
         /\ Len(flights'[k]) = Len(flights[k]) - 1
         /\ \A j \in DOMAIN flights'[k] :
              \E m \in DOMAIN flights[k] : flights'[k][j] = [flights[k][m] EXCEPT !.mapped = FALSE]
         /\ \A l \in Keys \ {k} : flights'[l] = flights[l]
<1> DEFINE n == Len(flights[k])
           pick(j) == IF j < i THEN j ELSE j + 1
<1>1. n \in Nat /\ i \in 1 .. n /\ DOMAIN flights[k] = 1 .. n BY FlightFacts
<1>2. \A j \in 1 .. n - 1 : pick(j) \in 1 .. n BY <1>1
<1>3. \A m \in 1 .. n : [flights[k][m] EXCEPT !.mapped = FALSE] \in Flights
  BY <1>1, FlightFacts, Unmapped
<1>4. Settled(k, i) = [j \in 1 .. n - 1 |-> [flights[k][pick(j)] EXCEPT !.mapped = FALSE]]
  BY DEF Settled
<1> HIDE DEF n, pick
<1>5. Settled(k, i) \in Seq(Flights) /\ Len(Settled(k, i)) = n - 1
  <2>1. Settled(k, i) \in [1 .. n - 1 -> Flights] BY <1>2, <1>3, <1>4
  <2>2. n - 1 \in Nat BY <1>1
  <2> QED BY <2>1, <2>2
<1>6. flights' = [flights EXCEPT ![k] = Settled(k, i)] BY DEF Leave
<1>7. flights' \in [Keys -> Seq(Flights)] BY <1>5, <1>6 DEF TypeOK
<1>8. flights'[k] = Settled(k, i) /\ \A l \in Keys \ {k} : flights'[l] = flights[l]
  BY <1>6 DEF TypeOK
<1>9. \A j \in DOMAIN flights'[k] :
        \E m \in DOMAIN flights[k] : flights'[k][j] = [flights[k][m] EXCEPT !.mapped = FALSE]
  <2>1. DOMAIN flights'[k] = 1 .. n - 1 BY <1>4, <1>8
  <2>2. ASSUME NEW j \in 1 .. n - 1
        PROVE  flights'[k][j] = [flights[k][pick(j)] EXCEPT !.mapped = FALSE]
    BY <1>4, <1>8
  <2> QED BY <1>1, <1>2, <2>1, <2>2
<1>10. overlap' \in SUBSET Keys /\ suspense' \in SUBSET Keys BY DEF Leave, TypeOK
<1> QED BY <1>5, <1>7, <1>8, <1>9, <1>10 DEF n

LEMMA WriteTypes ==
  ASSUME TypeOK, NEW k \in Keys, NEW d \in Versions \cup {Local}, Write(k, d)
  PROVE  cache' \in [Keys -> Entries \cup {NoEntry}] /\ behind' \in SUBSET Observers
<1>1. [data |-> d, fresh |-> TRUE] \in Entries BY DEF Entries
<1> QED BY <1>1 DEF Write, TypeOK

LEMMA GetTypes ==
  ASSUME TypeOK, NEW k \in Keys PROVE Get(k) \in [Keys -> Entries \cup {NoEntry}]
BY DEF Get, TypeOK

LEMMA RequestedTypes ==
  ASSUME TypeOK, NEW c \in [Keys -> Entries \cup {NoEntry}], NEW k \in Keys, NEW s,
         NEW read \in BOOLEAN, Requested(c, k, s, read)
  PROVE  /\ cache' \in [Keys -> Entries \cup {NoEntry}] /\ flights' \in [Keys -> Seq(Flights)]
         /\ overlap' \in SUBSET Keys /\ suspense' \in SUBSET Keys
<1> DEFINE served == s # "network-only" /\ Has(c, k)
<1>1. CASE served /\ s = "cache-first"
  BY <1>1 DEF Requested, TypeOK
<1>2. CASE ~(served /\ s = "cache-first")
  <2>1. Launch({k}, TRUE, read /\ ~served) BY <1>2 DEF Requested
  <2>2. (read /\ ~served) \in BOOLEAN OBVIOUS
  <2>3. flights' \in [Keys -> Seq(Flights)] /\ overlap' \in SUBSET Keys
    <3> HIDE DEF served
    <3> QED BY <2>1, <2>2, LaunchTypes
  <2>4. suspense' \in SUBSET Keys BY <1>2 DEF Requested, TypeOK
  <2> QED BY <2>3, <2>4 DEF Requested
<1> QED BY <1>1, <1>2

LEMMA RequestTypes ==
  ASSUME TypeOK, NEW c \in [Keys -> Entries \cup {NoEntry}], NEW k \in Keys, NEW s,
         NEW read \in BOOLEAN, Requested(c, k, s, read),
         UNCHANGED <<dedup, query, obs, server, behind, cut, kept, disposed>>
  PROVE  TypeOK'
<1>1. /\ cache' \in [Keys -> Entries \cup {NoEntry}] /\ flights' \in [Keys -> Seq(Flights)]
      /\ overlap' \in SUBSET Keys /\ suspense' \in SUBSET Keys
  BY RequestedTypes
<1> QED BY <1>1 DEF TypeOK

\* A step that launches and leaves what is observed alone.
LEMMA OnlyLaunchTypes ==
  ASSUME TypeOK, NEW K \in SUBSET Keys, NEW store \in BOOLEAN, NEW read \in BOOLEAN,
         Launch(K, store, read), cache' \in [Keys -> Entries \cup {NoEntry}],
         behind' \in SUBSET Observers,
         UNCHANGED <<dedup, suspense, query, obs, server, cut, kept, disposed>>
  PROVE  TypeOK'
BY LaunchTypes DEF TypeOK

\* There are more query ids than observers, and each that is taken is some observer's.
LEMMA UnusedQueryId ==
  ASSUME TypeOK, Queries
  PROVE  \E q \in QueryIds :
           (\A p \in Observers : obs[p].q # q) /\ \A j \in Keys : query[j] # q
<1> DEFINE N == Cardinality(Observers)
           f == [p \in Observers |-> obs[p].q]
           T == {f[p] : p \in Observers}
<1>1. IsFiniteSet(Observers) /\ N \in Nat
  BY CacheAssumption, FS_CardinalityType
<1>2. f \in Surjection(Observers, T) BY DEF Surjection
<1>3. IsFiniteSet(T) /\ Cardinality(T) <= N
  <2> HIDE DEF f, T
  <2> QED BY <1>1, <1>2, FS_Surjection
<1>4. IsFiniteSet(QueryIds) /\ Cardinality(QueryIds) = N + 1
  BY <1>1, FS_Interval DEF QueryIds
<1>5. ~(QueryIds \subseteq T)
  <2> HIDE DEF f, T, N
  <2>1. ASSUME QueryIds \subseteq T PROVE Cardinality(QueryIds) <= Cardinality(T)
    BY <2>1, <1>3, FS_Subset
  <2>2. Cardinality(T) \in Nat BY <1>3, FS_CardinalityType
  <2> QED BY <1>1, <1>3, <1>4, <2>1, <2>2
<1>6. PICK q \in QueryIds : q \notin T BY <1>5
<1>7. \A p \in Observers : obs[p].q # q BY <1>6
<1>8. \A j \in Keys : query[j] # q
  <2> SUFFICES ASSUME NEW j \in Keys, query[j] = q PROVE FALSE OBVIOUS
  <2>1. q # 0 BY <1>1, <1>6 DEF QueryIds
  <2> QED BY <1>7, <2>1 DEF Queries
<1> QED BY <1>7, <1>8

\* The query object a new observer enters.
LEMMA Entered ==
  ASSUME TypeOK, Queries, NEW o \in Observers, Subscribe(o)
  PROVE  \E q \in QueryIds :
           /\ q # 0
           /\ query[Watches[o]] # 0 => q = query[Watches[o]]
           /\ query[Watches[o]] = 0 => \A p \in Observers : obs[p].q # q
           /\ query' = [query EXCEPT ![Watches[o]] = q]
           /\ obs' = [obs EXCEPT ![o] = [q |-> q, live |-> TRUE]]
<1> DEFINE k == Watches[o]
           free(q) == (\A p \in Observers : obs[p].q # q) /\ \A j \in Keys : query[j] # q
           unused == {q \in QueryIds : free(q)}
           fresh == CHOOSE n \in unused : TRUE
           q == IF query[k] # 0 THEN query[k] ELSE fresh
<1>1. k \in Keys BY CacheAssumption
<1>2. \E n \in unused : TRUE BY UnusedQueryId
<1>3. fresh \in unused
  <2> HIDE DEF unused
  <2> QED BY <1>2
<1>4. query' = [query EXCEPT ![k] = q] /\ obs' = [obs EXCEPT ![o] = [q |-> q, live |-> TRUE]]
  BY DEF Subscribe
<1>5. \A n \in QueryIds : n # 0
  BY CacheAssumption, FS_CardinalityType DEF QueryIds
<1>6. query[k] \in QueryIds \cup {0} BY <1>1 DEF TypeOK
<1>7. fresh \in QueryIds /\ \A p \in Observers : obs[p].q # fresh
  <2> HIDE DEF fresh
  <2> QED BY <1>3
<1>8. q \in QueryIds /\ q # 0
  <2> HIDE DEF fresh
  <2> QED BY <1>5, <1>6, <1>7
<1>9. (query[k] # 0 => q = query[k]) /\ (query[k] = 0 => \A p \in Observers : obs[p].q # q)
  <2> HIDE DEF fresh
  <2> QED BY <1>7
<1> HIDE DEF q
<1> QED BY <1>4, <1>8, <1>9

LEMMA StepTypes == TypeOK /\ Queries /\ [Next]_vars => TypeOK'
<1> SUFFICES ASSUME TypeOK, Queries, [Next]_vars PROVE TypeOK' OBVIOUS
<1>1. cache \in [Keys -> Entries \cup {NoEntry}] /\ behind \in SUBSET Observers BY DEF TypeOK
<1>2. ASSUME NEW k \in Keys, NEW s \in Strategies, Request(k, s) \/ Prefetch(k) PROVE TypeOK'
  <2> QED BY <1>1, <1>2, RequestTypes DEF Request, Prefetch
<1>3. ASSUME NEW k \in Keys, NEW s \in Strategies, Read(k, s) PROVE TypeOK'
  <2>1. Get(k) \in [Keys -> Entries \cup {NoEntry}] BY GetTypes
  <2>2. CASE /\ cache' = Get(k)
             /\ UNCHANGED <<flights, overlap, suspense, dedup, query, obs, server, behind, cut, kept, disposed>>
    BY <2>1, <2>2 DEF TypeOK
  <2>3. CASE Requested(Get(k), k, s, TRUE)
    BY <1>3, <2>1, <2>3, RequestTypes DEF Read
  <2> QED BY <1>3, <2>2, <2>3 DEF Read
<1>4. ASSUME NEW k \in Keys, Evict(k) \/ Expire(k) PROVE TypeOK'
  <2>1. cache[k] \in Entries \cup {NoEntry} BY DEF TypeOK
  <2>2. cache' \in [Keys -> Entries \cup {NoEntry}]
    <3>1. CASE Evict(k) BY <3>1 DEF Evict, TypeOK
    <3>2. CASE Expire(k)
      <4>1. cache[k] \in Entries BY <2>1, <3>2 DEF Expire, Has
      <4>2. [cache[k] EXCEPT !.fresh = FALSE] \in Entries BY <4>1 DEF Entries
      <4>3. cache' = [cache EXCEPT ![k] = [cache[k] EXCEPT !.fresh = FALSE]]
        BY <3>2 DEF Expire
      <4> QED BY <1>1, <4>2, <4>3
    <3> QED BY <1>4, <3>1, <3>2
  <2> QED BY <1>4, <2>2 DEF Evict, Expire, TypeOK, history
<1>5. ASSUME NEW k \in Keys, RequestUncached(k) \/ MutateAndRevalidate(k) PROVE TypeOK'
  <2>1. cache' \in [Keys -> Entries \cup {NoEntry}] /\ behind' \in SUBSET Observers
    BY <1>1, <1>5, WriteTypes DEF RequestUncached, MutateAndRevalidate
  <2> QED BY <1>5, <2>1, OnlyLaunchTypes DEF RequestUncached, MutateAndRevalidate
<1>6. ASSUME NEW k \in Keys, SetQueryData(k) PROVE TypeOK'
  <2>1. cache' \in [Keys -> Entries \cup {NoEntry}] /\ behind' \in SUBSET Observers
    BY <1>6, WriteTypes DEF SetQueryData
  <2> QED BY <1>6, <2>1 DEF SetQueryData, TypeOK
<1>7. ASSUME NEW k \in Keys, NEW i \in DOMAIN flights[k], Answer(k, i) PROVE TypeOK'
  <2>1. flights[k] \in Seq(Flights) /\ flights[k][i] \in Flights BY FlightFacts
  <2>2. [flights[k][i] EXCEPT !.data = server] \in Flights
    BY <2>1 DEF Flights, TypeOK
  <2>3. [flights[k] EXCEPT ![i] = [flights[k][i] EXCEPT !.data = server]] \in Seq(Flights)
    BY <2>1, <2>2
  <2>4. flights' \in [Keys -> Seq(Flights)] BY <1>7, <2>3 DEF Answer, TypeOK
  <2> QED BY <1>7, <2>4 DEF Answer, TypeOK, history
<1>8. ASSUME NEW k \in Keys, NEW i \in DOMAIN flights[k], Deliver(k, i) PROVE TypeOK'
  <2>1. /\ flights' \in [Keys -> Seq(Flights)] /\ overlap' \in SUBSET Keys
        /\ suspense' \in SUBSET Keys
    BY <1>8, LeaveTypes DEF Deliver
  <2>2. cache' \in [Keys -> Entries \cup {NoEntry}] /\ behind' \in SUBSET Observers
    BY <1>8, WriteTypes DEF Deliver
  <2>3. kept' \in [Keys -> Versions] BY <1>8 DEF Deliver, TypeOK
  <2> QED BY <1>8, <2>1, <2>2, <2>3 DEF Deliver, TypeOK
<1>9. ASSUME NEW k \in Keys, NEW i \in DOMAIN flights[k], Drop(k, i) PROVE TypeOK'
  <2>1. /\ flights' \in [Keys -> Seq(Flights)] /\ overlap' \in SUBSET Keys
        /\ suspense' \in SUBSET Keys
    BY <1>9, LeaveTypes DEF Drop
  <2> QED BY <1>9, <2>1 DEF Drop, TypeOK
<1>10. ASSUME NEW o \in Observers, Subscribe(o) PROVE TypeOK'
  <2>1. PICK q \in QueryIds : /\ query' = [query EXCEPT ![Watches[o]] = q]
                              /\ obs' = [obs EXCEPT ![o] = [q |-> q, live |-> TRUE]]
    BY <1>10, Entered
  <2>2. query' \in [Keys -> QueryIds \cup {0}] BY <2>1 DEF TypeOK
  <2>3. obs' \in [Observers -> [q : QueryIds \cup {0}, live : BOOLEAN]] BY <2>1 DEF TypeOK
  <2> QED BY <1>10, <2>2, <2>3 DEF Subscribe, TypeOK
<1>11. ASSUME NEW o \in Observers, Unsubscribe(o) PROVE TypeOK'
  <2>1. query' \in [Keys -> QueryIds \cup {0}] BY <1>11 DEF Unsubscribe, TypeOK
  <2>2. obs' \in [Observers -> [q : QueryIds \cup {0}, live : BOOLEAN]]
    <3>1. obs' = [obs EXCEPT ![o] = [obs[o] EXCEPT !.live = FALSE]] BY <1>11 DEF Unsubscribe
    <3>2. [obs[o] EXCEPT !.live = FALSE] \in [q : QueryIds \cup {0}, live : BOOLEAN]
      BY DEF TypeOK
    <3> QED BY <3>1, <3>2 DEF TypeOK
  <2>3. cut' \in SUBSET Observers /\ behind' \in SUBSET Observers
    BY <1>11 DEF Unsubscribe, Notified, TypeOK
  <2> QED BY <1>11, <2>1, <2>2, <2>3 DEF Unsubscribe, TypeOK
<1>12. CASE RevalidateActiveQueries \/ FocusOrOnline
  <2>1. {k \in Keys : query[k] # 0} \in SUBSET Keys OBVIOUS
  <2>2. RevalidateActiveQueries BY <1>12 DEF FocusOrOnline
  <2> QED BY <1>1, <2>1, <2>2, OnlyLaunchTypes DEF RevalidateActiveQueries
<1>13. CASE Dispose
  <2>1. ASSUME NEW k \in Keys PROVE flights'[k] \in Seq(Flights)
    <3> DEFINE F(i) == [flights[k][i] EXCEPT !.mapped = FALSE,
                          !.data = IF @ = Pending THEN Aborted ELSE @]
    <3>1. flights'[k] = [i \in 1 .. Len(flights[k]) |-> F(i)]
      BY <1>13, FlightFacts DEF Dispose
    <3>2. \A i \in 1 .. Len(flights[k]) : F(i) \in Flights
      <4> SUFFICES ASSUME NEW i \in 1 .. Len(flights[k]) PROVE F(i) \in Flights OBVIOUS
      <4>1. flights[k][i] \in Flights BY FlightFacts
      <4> QED BY <4>1, Disposed
    <3> HIDE DEF F
    <3>3. flights'[k] \in [1 .. Len(flights[k]) -> Flights] BY <3>1, <3>2
    <3> QED BY <3>3, FlightFacts
  <2>2. flights' \in [Keys -> Seq(Flights)] BY <1>13, <2>1 DEF Dispose
  <2> QED BY <1>13, <2>2 DEF Dispose, TypeOK
<1>14. CASE ServerChanges
  <2>1. server' \in Versions BY <1>14, CacheAssumption DEF ServerChanges, Versions, TypeOK
  <2> QED BY <1>14, <2>1 DEF ServerChanges, TypeOK, history
<1>15. CASE UNCHANGED vars
  BY <1>15 DEF vars, clientVars, history, TypeOK
<1> QED
  BY <1>2, <1>3, <1>4, <1>5, <1>6, <1>7, <1>8, <1>9, <1>10, <1>11, <1>12, <1>13, <1>14, <1>15
  DEF Next, Strategies

-----------------------------------------------------------------------------
(***************************************************************************)
(* Query objects and observers.                                            *)
(***************************************************************************)
\* A write tells everybody who watches the key, but those cut off.
LEMMA Told ==
  ASSUME TypeOK, Queries, ObserversCurrent, NEW k \in Keys,
         behind' = (behind \cup {o \in Observers : obs[o].live /\ Watches[o] = k}) \ Notified(k),
         UNCHANGED <<query, obs, cut>>
  PROVE  Queries' /\ ObserversCurrent'
<1>1. Queries' BY DEF Queries
<1>2. ObserversCurrent'
  <2> SUFFICES ASSUME NEW o \in Observers, obs[o].live, o \notin cut, o \in behind' PROVE FALSE
    BY DEF ObserversCurrent
  <2>1. o \notin behind BY DEF ObserversCurrent
  <2>2. Watches[o] = k /\ o \notin Notified(k) BY <2>1
  <2>3. query[k] = obs[o].q BY <2>2 DEF Queries
  <2> QED BY <2>2, <2>3 DEF Notified
<1> QED BY <1>1, <1>2

LEMMA Unobserved ==
  ASSUME Queries, ObserversCurrent, UNCHANGED <<query, obs, cut, behind>>
  PROVE  Queries' /\ ObserversCurrent'
BY DEF Queries, ObserversCurrent

LEMMA SubscribeKeeps ==
  ASSUME TypeOK, Queries, ObserversCurrent, NEW o \in Observers, Subscribe(o)
  PROVE  Queries' /\ ObserversCurrent'
<1> DEFINE k == Watches[o]
<1>1. k \in Keys /\ \A p \in Observers : Watches[p] \in Keys BY CacheAssumption
<1>2. PICK q \in QueryIds :
           /\ q # 0
           /\ query[k] # 0 => q = query[k]
           /\ query[k] = 0 => \A p \in Observers : obs[p].q # q
           /\ query' = [query EXCEPT ![k] = q]
           /\ obs' = [obs EXCEPT ![o] = [q |-> q, live |-> TRUE]]
  BY Entered
<1>3. ~obs[o].live /\ behind' = behind \ {o} /\ cut' = cut \ {o} BY DEF Subscribe
<1>4. query'[k] = q /\ \A j \in Keys \ {k} : query'[j] = query[j] BY <1>1, <1>2 DEF TypeOK
<1>5. obs'[o].q = q /\ obs'[o].live /\ \A p \in Observers \ {o} : obs'[p] = obs[p]
  BY <1>2 DEF TypeOK
<1>6. \A j \in Keys : query'[j] # 0 =>
        \E p \in Observers : obs'[p].live /\ Watches[p] = j /\ obs'[p].q = query'[j]
  <2> SUFFICES ASSUME NEW j \in Keys, query'[j] # 0
               PROVE \E p \in Observers : obs'[p].live /\ Watches[p] = j /\ obs'[p].q = query'[j]
    OBVIOUS
  <2>1. CASE j = k BY <2>1, <1>4, <1>5
  <2>2. CASE j # k
    <3>1. PICK p \in Observers : obs[p].live /\ Watches[p] = j /\ obs[p].q = query[j]
      BY <2>2, <1>4 DEF Queries
    <3> QED BY <3>1, <2>2, <1>3, <1>4, <1>5
  <2> QED BY <2>1, <2>2
<1>7. \A p \in Observers \ {o} : obs[p].q = q => Watches[p] = k
  <2> SUFFICES ASSUME NEW p \in Observers \ {o}, obs[p].q = q PROVE Watches[p] = k OBVIOUS
  <2>1. query[k] = q BY <1>2
  <2>2. PICK w \in Observers : Watches[w] = k /\ obs[w].q = q BY <1>1, <1>2, <2>1 DEF Queries
  <2> QED BY <1>2, <2>2 DEF Queries
<1>8. \A a, b \in Observers : obs'[a].q = obs'[b].q /\ obs'[a].q # 0 => Watches[a] = Watches[b]
  <2> SUFFICES ASSUME NEW a \in Observers, NEW b \in Observers,
                      obs'[a].q = obs'[b].q, obs'[a].q # 0
               PROVE  Watches[a] = Watches[b]
    OBVIOUS
  <2>1. CASE a = o /\ b # o BY <2>1, <1>5, <1>7
  <2>2. CASE a # o /\ b = o BY <2>2, <1>5, <1>7
  <2>3. CASE a # o /\ b # o BY <2>3, <1>5 DEF Queries
  <2> QED BY <2>1, <2>2, <2>3
<1>9. \A p \in Observers : obs'[p].live => obs'[p].q # 0
  BY <1>2, <1>5 DEF Queries
<1>10. \A p \in Observers : obs'[p].live /\ p \notin cut' => query'[Watches[p]] = obs'[p].q
  <2> SUFFICES ASSUME NEW p \in Observers, p # o, obs[p].live, p \notin cut
               PROVE  query'[Watches[p]] = obs[p].q
    BY <1>3, <1>4, <1>5
  <2>1. query[Watches[p]] = obs[p].q /\ obs[p].q # 0 BY DEF Queries
  <2>2. CASE Watches[p] = k BY <2>1, <2>2, <1>2, <1>4
  <2>3. CASE Watches[p] # k BY <2>1, <2>3, <1>1, <1>4
  <2> QED BY <2>2, <2>3
<1>11. ObserversCurrent' BY <1>3, <1>5 DEF ObserversCurrent
<1> QED BY <1>6, <1>8, <1>9, <1>10, <1>11 DEF Queries

LEMMA UnsubscribeKeeps ==
  ASSUME TypeOK, Queries, ObserversCurrent, NEW o \in Observers, Unsubscribe(o)
  PROVE  Queries' /\ ObserversCurrent'
<1> DEFINE k == Watches[o]
<1>1. k \in Keys /\ \A p \in Observers : Watches[p] \in Keys BY CacheAssumption
<1>2. /\ obs[o].q # 0
      /\ obs' = [obs EXCEPT ![o].live = FALSE] /\ behind' = behind \ {o}
      /\ query' = IF Deserted(o) THEN [query EXCEPT ![k] = 0] ELSE query
      /\ cut' = (IF Deserted(o) /\ query[k] # obs[o].q THEN cut \cup Notified(k) ELSE cut) \ {o}
  BY DEF Unsubscribe
<1>3. /\ \A p \in Observers : obs'[p].q = obs[p].q
      /\ \A p \in Observers \ {o} : obs'[p].live = obs[p].live
      /\ ~obs'[o].live
  BY <1>2 DEF TypeOK
<1>4. \A j \in Keys : query'[j] = IF Deserted(o) /\ j = k THEN 0 ELSE query[j]
  BY <1>1, <1>2 DEF TypeOK
<1>5. \A p \in Observers : p # o /\ p \notin cut' => p \notin cut BY <1>2
<1>6. \A j \in Keys : query'[j] # 0 =>
        \E p \in Observers : obs'[p].live /\ Watches[p] = j /\ obs'[p].q = query'[j]
  <2> SUFFICES ASSUME NEW j \in Keys, query'[j] # 0
               PROVE \E p \in Observers : obs'[p].live /\ Watches[p] = j /\ obs'[p].q = query'[j]
    OBVIOUS
  <2>1. query'[j] = query[j] /\ ~(Deserted(o) /\ j = k) BY <1>4
  <2>2. PICK w \in Observers : obs[w].live /\ Watches[w] = j /\ obs[w].q = query[j]
    BY <2>1 DEF Queries
  <2>3. CASE w # o BY <1>3, <2>1, <2>2, <2>3
  <2>4. CASE w = o
    <3>1. ~Deserted(o) BY <2>1, <2>2, <2>4
    <3>2. PICK p \in Observers \ {o} : obs[p].live /\ obs[p].q = obs[o].q
      BY <3>1 DEF Deserted
    <3>3. Watches[p] = k BY <1>2, <3>2 DEF Queries
    <3> QED BY <1>3, <2>1, <2>2, <2>4, <3>2, <3>3
  <2> QED BY <2>3, <2>4
<1>7. \A a, b \in Observers : obs'[a].q = obs'[b].q /\ obs'[a].q # 0 => Watches[a] = Watches[b]
  BY <1>3 DEF Queries
<1>8. \A p \in Observers : obs'[p].live => obs'[p].q # 0
  BY <1>3 DEF Queries
<1>9. \A p \in Observers : obs'[p].live /\ p \notin cut' => query'[Watches[p]] = obs'[p].q
  <2> SUFFICES ASSUME NEW p \in Observers, obs'[p].live, p \notin cut'
               PROVE  query'[Watches[p]] = obs[p].q
    BY <1>3
  <2>1. p # o /\ obs[p].live /\ p \notin cut BY <1>3, <1>5
  <2>2. query[Watches[p]] = obs[p].q BY <2>1 DEF Queries
  <2>3. ~(Deserted(o) /\ Watches[p] = k)
    <3> SUFFICES ASSUME Deserted(o), Watches[p] = k PROVE FALSE OBVIOUS
    <3>1. obs[p].q # obs[o].q BY <2>1 DEF Deserted
    <3>2. p \in Notified(k) BY <2>1, <2>2 DEF Notified
    <3> QED BY <1>2, <2>1, <2>2, <3>1, <3>2
  <2> QED BY <1>1, <1>4, <2>2, <2>3
<1>10. ObserversCurrent'
  BY <1>2, <1>3, <1>5 DEF ObserversCurrent
<1> QED BY <1>6, <1>7, <1>8, <1>9, <1>10 DEF Queries

LEMMA StepQueries ==
  TypeOK /\ Queries /\ ObserversCurrent /\ [Next]_vars => Queries' /\ ObserversCurrent'
<1> SUFFICES ASSUME TypeOK, Queries, ObserversCurrent, [Next]_vars
             PROVE  Queries' /\ ObserversCurrent'
  OBVIOUS
<1>1. ASSUME NEW k \in Keys, SetQueryData(k) \/ MutateAndRevalidate(k) PROVE Queries' /\ ObserversCurrent'
  BY <1>1, Told DEF SetQueryData, MutateAndRevalidate, Write
<1>2. ASSUME NEW k \in Keys, NEW i \in DOMAIN flights[k], Deliver(k, i)
      PROVE  Queries' /\ ObserversCurrent'
  BY <1>2, Told DEF Deliver, Write
<1>3. ASSUME NEW o \in Observers, Subscribe(o) PROVE Queries' /\ ObserversCurrent'
  BY <1>3, SubscribeKeeps
<1>4. ASSUME NEW o \in Observers, Unsubscribe(o) PROVE Queries' /\ ObserversCurrent'
  BY <1>4, UnsubscribeKeeps
<1>5. ASSUME NEW k \in Keys,
             \/ \E s \in Strategies : Request(k, s) \/ Read(k, s)
             \/ Evict(k) \/ Expire(k) \/ RequestUncached(k) \/ Prefetch(k)
             \/ \E i \in DOMAIN flights[k] : Answer(k, i) \/ Drop(k, i)
      PROVE  UNCHANGED <<query, obs, cut, behind>>
  BY <1>5 DEF Request, Read, Evict, Expire, RequestUncached, Prefetch, Answer, Drop, history
<1>6. ASSUME RevalidateActiveQueries \/ FocusOrOnline \/ Dispose \/ ServerChanges \/ UNCHANGED vars
      PROVE  UNCHANGED <<query, obs, cut, behind>>
  BY <1>6 DEF RevalidateActiveQueries, FocusOrOnline, Dispose, ServerChanges, vars, clientVars, history
<1> QED
  BY <1>1, <1>2, <1>3, <1>4, <1>5, <1>6, Unobserved DEF Next

-----------------------------------------------------------------------------
(***************************************************************************)
(* Requests under way.                                                     *)
(***************************************************************************)
LEMMA LaunchKeeps ==
  ASSUME TypeOK, Answers, Deduplicated,
         NEW K \in SUBSET Keys, NEW store \in BOOLEAN, NEW read \in BOOLEAN,
         Launch(K, store, read), UNCHANGED <<kept, dedup, disposed, server>>
  PROVE  Answers' /\ Deduplicated'
<1> DEFINE sent == {k \in K : ~InFlight(k)}
           flight == [data |-> Pending, mapped |-> dedup, store |-> store, read |-> read]
<1>1. /\ \A k \in sent : flights'[k] = Append(flights[k], flight)
      /\ \A k \in Keys \ sent : flights'[k] = flights[k]
      /\ overlap' = overlap \cup {k \in sent : flights[k] # <<>>}
  BY DEF Launch
<1>2. flight.data \notin Versions /\ flight.mapped = dedup BY NotVersions
<1> HIDE DEF flight
<1>3. ASSUME NEW k \in sent
      PROVE  /\ Len(flights'[k]) = Len(flights[k]) + 1
             /\ DOMAIN flights'[k] = 1 .. Len(flights[k]) + 1
             /\ \A i \in DOMAIN flights'[k] :
                  \/ i \in DOMAIN flights[k] /\ flights'[k][i] = flights[k][i]
                  \/ flights'[k][i] = flight
  BY <1>1, FlightFacts
<1>4. ASSUME NEW k \in sent, k \notin overlap' PROVE Len(flights[k]) = 0
  BY <1>1, <1>4, FlightFacts
<1>5. Answers'
  <2> SUFFICES ASSUME NEW k \in Keys
               PROVE  /\ kept[k] <= server
                      /\ k \notin overlap' => Len(flights'[k]) <= 1
                      /\ \A i \in DOMAIN flights'[k] :
                           k \notin overlap' /\ flights'[k][i].data \in Versions
                             => kept[k] <= flights'[k][i].data
                      /\ \A i \in DOMAIN flights'[k] :
                           flights'[k][i].data \in Versions => flights'[k][i].data <= server
    BY DEF Answers
  <2>1. CASE k \notin sent BY <2>1, <1>1 DEF Answers
  <2>2. CASE k \in sent
    <3>1. kept[k] <= server BY DEF Answers
    <3>2. k \notin overlap' => Len(flights'[k]) <= 1 BY <2>2, <1>3, <1>4
    <3>3. ASSUME NEW i \in DOMAIN flights'[k], flights'[k][i].data \in Versions
          PROVE  /\ flights'[k][i].data <= server
                 /\ k \notin overlap' => kept[k] <= flights'[k][i].data
      <4>1. i \in DOMAIN flights[k] /\ flights'[k][i] = flights[k][i]
        BY <2>2, <3>3, <1>2, <1>3
      <4>2. k \in overlap' BY <2>2, <4>1, <1>4, FlightFacts
      <4> QED BY <3>3, <4>1, <4>2 DEF Answers
    <3> QED BY <3>1, <3>2, <3>3
  <2> QED BY <2>1, <2>2
<1>6. Deduplicated'
  <2> SUFFICES ASSUME dedup, ~disposed
               PROVE  overlap' = {} /\ \A k \in Keys : \A i \in DOMAIN flights'[k] : flights'[k][i].mapped
    BY DEF Deduplicated
  <2>1. overlap = {} /\ \A k \in Keys : \A i \in DOMAIN flights[k] : flights[k][i].mapped
    BY DEF Deduplicated
  <2>2. \A k \in sent : DOMAIN flights[k] = {} BY <2>1 DEF InFlight
  <2>3. \A k \in sent : flights[k] = <<>> BY <2>2, FlightFacts
  <2>4. overlap' = {} BY <1>1, <2>1, <2>3
  <2>5. flight.mapped BY <1>2
  <2>6. ASSUME NEW k \in Keys, NEW i \in DOMAIN flights'[k] PROVE flights'[k][i].mapped
    <3>1. CASE k \in sent BY <3>1, <1>3, <2>1, <2>5
    <3>2. CASE k \notin sent BY <3>2, <1>1, <2>1
    <3> QED BY <3>1, <3>2
  <2> QED BY <2>4, <2>6
<1> QED BY <1>5, <1>6

\* A request that ends leaves a key without overlap free.
LEMMA LeaveKeeps ==
  ASSUME TypeOK, Answers, Deduplicated, NEW k \in Keys, NEW i \in DOMAIN flights[k], Leave(k, i),
         \A l \in Keys \ {k} : kept'[l] = kept[l], kept'[k] <= server,
         UNCHANGED <<dedup, disposed, server>>
  PROVE  Answers' /\ Deduplicated'
<1>1. /\ Len(flights'[k]) = Len(flights[k]) - 1
      /\ flights'[k] \in Seq(Flights)
      /\ \A j \in DOMAIN flights'[k] :
           \E m \in DOMAIN flights[k] : flights'[k][j] = [flights[k][m] EXCEPT !.mapped = FALSE]
      /\ \A l \in Keys \ {k} : flights'[l] = flights[l]
  BY LeaveTypes
<1>2. \A j \in DOMAIN flights'[k] :
        \E m \in DOMAIN flights[k] : flights'[k][j].data = flights[k][m].data
  <2> SUFFICES ASSUME NEW j \in DOMAIN flights'[k]
               PROVE  \E m \in DOMAIN flights[k] : flights'[k][j].data = flights[k][m].data
    OBVIOUS
  <2>1. PICK m \in DOMAIN flights[k] : flights'[k][j] = [flights[k][m] EXCEPT !.mapped = FALSE]
    BY <1>1
  <2>2. flights[k][m] \in Flights BY FlightFacts
  <2> QED BY <2>1, <2>2, Unmapped
<1>3. \A l \in Keys \ {k} : l \in overlap' <=> l \in overlap BY DEF Leave
<1>4. k \notin overlap' => Len(flights'[k]) = 0
  <2> SUFFICES ASSUME k \notin overlap' PROVE Len(flights'[k]) = 0 OBVIOUS
  <2>1. Len(flights[k]) \in Nat /\ i \in 1 .. Len(flights[k]) BY FlightFacts
  <2>2. Len(flights'[k]) = Len(flights[k]) - 1 BY <1>1
  <2>3. Len(flights[k]) <= 1
    <3>1. CASE k \in overlap
      <4>1. Len(flights[k]) = 1
        <5>1. overlap' = IF Len(flights[k]) = 1 THEN overlap \ {k} ELSE overlap BY DEF Leave
        <5> QED BY <3>1, <5>1
      <4> QED BY <4>1
    <3>2. CASE k \notin overlap BY <3>2 DEF Answers
    <3> QED BY <3>1, <3>2
  <2>4. \A n \in Nat : i \in 1 .. n /\ n <= 1 => n - 1 = 0 OBVIOUS
  <2>5. Len(flights[k]) - 1 = 0 BY <2>1, <2>3, <2>4
  <2> QED BY <2>2, <2>5
<1>5. k \notin overlap' => DOMAIN flights'[k] = {}
  <2> SUFFICES ASSUME k \notin overlap' PROVE DOMAIN flights'[k] = {} OBVIOUS
  <2>1. flights'[k] \in Seq(Flights) BY <1>1
  <2>2. Len(flights'[k]) = 0 BY <1>4
  <2>3. DOMAIN flights'[k] = 1 .. Len(flights'[k]) BY <2>1
  <2> QED BY <2>2, <2>3
<1>6. Answers'
  <2> SUFFICES ASSUME NEW l \in Keys
               PROVE  /\ kept'[l] <= server
                      /\ l \notin overlap' => Len(flights'[l]) <= 1
                      /\ \A j \in DOMAIN flights'[l] :
                           l \notin overlap' /\ flights'[l][j].data \in Versions
                             => kept'[l] <= flights'[l][j].data
                      /\ \A j \in DOMAIN flights'[l] :
                           flights'[l][j].data \in Versions => flights'[l][j].data <= server
    BY DEF Answers
  <2>1. CASE l # k BY <2>1, <1>1, <1>3 DEF Answers
  <2>2. CASE l = k
    <3>1. \A j \in DOMAIN flights'[k] :
            flights'[k][j].data \in Versions => flights'[k][j].data <= server
      BY <1>2 DEF Answers
    <3> QED BY <2>2, <3>1, <1>4, <1>5
  <2> QED BY <2>1, <2>2
<1>7. Deduplicated'
  <2> SUFFICES ASSUME dedup, ~disposed
               PROVE  overlap' = {} /\ \A l \in Keys : \A j \in DOMAIN flights'[l] : flights'[l][j].mapped
    BY DEF Deduplicated
  <2>1. overlap = {} /\ \A l \in Keys : \A j \in DOMAIN flights[l] : flights[l][j].mapped
    BY DEF Deduplicated
  <2>2. overlap' = {} BY <2>1 DEF Leave
  <2>3. DOMAIN flights'[k] = {} BY <1>5, <2>2
  <2> QED BY <2>1, <2>2, <2>3, <1>1
<1> QED BY <1>6, <1>7

LEMMA StepAnswers ==
  TypeOK /\ Answers /\ Deduplicated /\ [Next]_vars => Answers' /\ Deduplicated'
<1> SUFFICES ASSUME TypeOK, Answers, Deduplicated, [Next]_vars
             PROVE  Answers' /\ Deduplicated'
  OBVIOUS
<1>1. ASSUME UNCHANGED <<flights, overlap, kept, dedup, disposed>>, server' \in {server, server + 1}
      PROVE  Answers' /\ Deduplicated'
  <2>1. server \in Nat /\ \A k \in Keys : kept[k] \in Nat BY CacheAssumption DEF TypeOK, Versions
  <2>2. Answers'
    <3> SUFFICES ASSUME NEW k \in Keys
                 PROVE  /\ kept[k] <= server'
                        /\ k \notin overlap => Len(flights[k]) <= 1
                        /\ \A i \in DOMAIN flights[k] :
                             k \notin overlap /\ flights[k][i].data \in Versions
                               => kept[k] <= flights[k][i].data
                        /\ \A i \in DOMAIN flights[k] :
                             flights[k][i].data \in Versions => flights[k][i].data <= server'
      BY <1>1 DEF Answers
    <3>1. kept[k] <= server' BY <1>1, <2>1 DEF Answers
    <3>2. ASSUME NEW i \in DOMAIN flights[k], flights[k][i].data \in Versions
          PROVE  flights[k][i].data <= server'
      <4>1. flights[k][i].data <= server /\ flights[k][i].data \in Nat
        BY <3>2, CacheAssumption DEF Answers, Versions
      <4> QED BY <1>1, <2>1, <4>1
    <3> QED BY <3>1, <3>2 DEF Answers
  <2>3. Deduplicated' BY <1>1 DEF Deduplicated
  <2> QED BY <2>2, <2>3
<1>2. ASSUME NEW k \in Keys, NEW c, NEW s, NEW read \in BOOLEAN, Requested(c, k, s, read),
             UNCHANGED <<kept, dedup, disposed, server>>
      PROVE  Answers' /\ Deduplicated'
  <2> DEFINE served == s # "network-only" /\ Has(c, k)
  <2>1. CASE served /\ s = "cache-first" BY <1>1, <1>2, <2>1 DEF Requested
  <2>2. CASE ~(served /\ s = "cache-first")
    <3>1. Launch({k}, TRUE, read /\ ~served) BY <1>2, <2>2 DEF Requested
    <3>2. (read /\ ~served) \in BOOLEAN OBVIOUS
    <3> HIDE DEF served
    <3> QED BY <1>2, <3>1, <3>2, LaunchKeeps
  <2> QED BY <2>1, <2>2
<1>3. ASSUME NEW k \in Keys, NEW s \in Strategies, Request(k, s) \/ Prefetch(k)
      PROVE  Answers' /\ Deduplicated'
  BY <1>2, <1>3 DEF Request, Prefetch
<1>4. ASSUME NEW k \in Keys, NEW s \in Strategies, Read(k, s) PROVE Answers' /\ Deduplicated'
  <2>1. CASE UNCHANGED <<flights, overlap, kept, dedup, disposed, server>> BY <1>1, <2>1
  <2>2. CASE Requested(Get(k), k, s, TRUE) BY <1>2, <1>4, <2>2 DEF Read
  <2> QED BY <1>4, <2>1, <2>2 DEF Read
<1>5. ASSUME NEW k \in Keys, RequestUncached(k) \/ MutateAndRevalidate(k)
      PROVE  Answers' /\ Deduplicated'
  BY <1>5, LaunchKeeps DEF RequestUncached, MutateAndRevalidate
<1>6. CASE RevalidateActiveQueries \/ FocusOrOnline
  <2>1. {k \in Keys : query[k] # 0} \in SUBSET Keys OBVIOUS
  <2>2. RevalidateActiveQueries BY <1>6 DEF FocusOrOnline
  <2> QED BY <2>1, <2>2, LaunchKeeps DEF RevalidateActiveQueries
<1>7. ASSUME NEW k \in Keys, Evict(k) \/ Expire(k) \/ SetQueryData(k) PROVE Answers' /\ Deduplicated'
  BY <1>1, <1>7 DEF Evict, Expire, SetQueryData, history
<1>8. ASSUME NEW o \in Observers, Subscribe(o) \/ Unsubscribe(o) PROVE Answers' /\ Deduplicated'
  BY <1>1, <1>8 DEF Subscribe, Unsubscribe
<1>9. CASE ServerChanges \/ UNCHANGED vars
  BY <1>1, <1>9 DEF ServerChanges, vars, clientVars, history
<1>10. ASSUME NEW k \in Keys, NEW i \in DOMAIN flights[k], Answer(k, i)
       PROVE  Answers' /\ Deduplicated'
  <2>1. flights[k] \in Seq(Flights) /\ flights[k][i] \in Flights BY FlightFacts
  <2>2. flights' = [flights EXCEPT ![k] = [flights[k] EXCEPT ![i] = [flights[k][i] EXCEPT !.data = server]]]
    BY <1>10 DEF Answer
  <2>3. /\ DOMAIN flights'[k] = DOMAIN flights[k] /\ Len(flights'[k]) = Len(flights[k])
        /\ \A j \in DOMAIN flights[k] \ {i} : flights'[k][j] = flights[k][j]
        /\ \A l \in Keys \ {k} : flights'[l] = flights[l]
        /\ flights'[k][i] = [flights[k][i] EXCEPT !.data = server]
    BY <2>1, <2>2 DEF TypeOK
  <2>4. flights'[k][i].data = server /\ flights'[k][i].mapped = flights[k][i].mapped
    BY <2>1, <2>3 DEF Flights
  <2>5. server \in Int /\ server <= server BY CacheAssumption DEF TypeOK, Versions
  <2>6. UNCHANGED <<kept, server, overlap, dedup, disposed>> BY <1>10 DEF Answer, history
  <2>7. ASSUME NEW l \in Keys
        PROVE  /\ kept[l] <= server
               /\ l \notin overlap => Len(flights'[l]) <= 1
               /\ \A j \in DOMAIN flights'[l] :
                    l \notin overlap /\ flights'[l][j].data \in Versions => kept[l] <= flights'[l][j].data
               /\ \A j \in DOMAIN flights'[l] :
                    flights'[l][j].data \in Versions => flights'[l][j].data <= server
    <3>1. CASE l # k BY <2>3, <3>1 DEF Answers
    <3>2. CASE l = k BY <2>3, <2>4, <2>5, <3>2 DEF Answers
    <3> QED BY <3>1, <3>2
  <2>8. Answers' BY <2>6, <2>7 DEF Answers
  <2>9. Deduplicated'
    <3> SUFFICES ASSUME dedup, ~disposed
                 PROVE  overlap = {} /\ \A l \in Keys : \A j \in DOMAIN flights'[l] : flights'[l][j].mapped
      BY <2>6 DEF Deduplicated
    <3>1. overlap = {} /\ \A l \in Keys : \A j \in DOMAIN flights[l] : flights[l][j].mapped
      BY DEF Deduplicated
    <3>2. ASSUME NEW l \in Keys, NEW j \in DOMAIN flights'[l] PROVE flights'[l][j].mapped
      <4>1. CASE l # k BY <2>3, <3>1, <4>1
      <4>2. CASE l = k /\ j # i BY <2>3, <3>1, <4>2
      <4>3. CASE l = k /\ j = i BY <2>4, <3>1, <4>3
      <4> QED BY <4>1, <4>2, <4>3
    <3> QED BY <3>1, <3>2
  <2> QED BY <2>8, <2>9
<1>11. ASSUME NEW k \in Keys, NEW i \in DOMAIN flights[k], Deliver(k, i)
       PROVE  Answers' /\ Deduplicated'
  <2>1. kept' = [kept EXCEPT ![k] = flights[k][i].data] /\ flights[k][i].data \in Versions
    BY <1>11 DEF Deliver
  <2>2. \A l \in Keys \ {k} : kept'[l] = kept[l] BY <2>1 DEF TypeOK
  <2>3. kept'[k] <= server BY <2>1 DEF Answers, TypeOK
  <2> QED BY <1>11, <2>2, <2>3, LeaveKeeps DEF Deliver
<1>12. ASSUME NEW k \in Keys, NEW i \in DOMAIN flights[k], Drop(k, i)
       PROVE  Answers' /\ Deduplicated'
  <2>1. kept[k] <= server BY DEF Answers
  <2> QED BY <1>12, <2>1, LeaveKeeps DEF Drop
<1>13. CASE Dispose
  <2>1. ASSUME NEW k \in Keys
        PROVE  DOMAIN flights'[k] = DOMAIN flights[k] /\ Len(flights'[k]) = Len(flights[k])
    <3> DEFINE F(i) == [flights[k][i] EXCEPT !.mapped = FALSE,
                          !.data = IF @ = Pending THEN Aborted ELSE @]
    <3>1. flights'[k] = [i \in DOMAIN flights[k] |-> F(i)] BY <1>13 DEF Dispose
    <3> HIDE DEF F
    <3>2. DOMAIN flights[k] = 1 .. Len(flights[k]) /\ Len(flights[k]) \in Nat BY FlightFacts
    <3>3. DOMAIN flights'[k] = 1 .. Len(flights[k]) BY <3>1, <3>2
    <3> QED BY <3>2, <3>3
  <2>2. ASSUME NEW k \in Keys, NEW i \in DOMAIN flights[k], flights'[k][i].data \in Versions
        PROVE  flights'[k][i].data = flights[k][i].data
    <3>1. flights'[k][i] = [flights[k][i] EXCEPT !.mapped = FALSE,
                              !.data = IF @ = Pending THEN Aborted ELSE @]
      BY <1>13 DEF Dispose
    <3>2. flights[k][i] \in Flights BY FlightFacts
    <3> QED BY <2>2, <3>1, <3>2, Disposed
  <2>3. UNCHANGED <<kept, server, overlap>> /\ disposed' BY <1>13 DEF Dispose
  <2>4. Answers' BY <2>1, <2>2, <2>3 DEF Answers
  <2>5. Deduplicated' BY <2>3 DEF Deduplicated
  <2> QED BY <2>4, <2>5
<1> QED
  BY <1>3, <1>4, <1>5, <1>6, <1>7, <1>8, <1>9, <1>10, <1>11, <1>12, <1>13 DEF Next, Strategies

-----------------------------------------------------------------------------
LEMMA Inductive == Spec => []IInv
<1>1. Init => IInv
  <2> SUFFICES ASSUME Init PROVE IInv OBVIOUS
  <2>1. 0 \in Versions /\ 0 \in Nat BY CacheAssumption DEF Versions
  <2>2. TypeOK
    <3>1. /\ dedup \in BOOLEAN /\ cache \in [Keys -> Entries \cup {NoEntry}]
          /\ flights \in [Keys -> Seq(Flights)] /\ suspense \in SUBSET Keys
      BY DEF Init
    <3>2. /\ query \in [Keys -> QueryIds \cup {0}]
          /\ obs \in [Observers -> [q : QueryIds \cup {0}, live : BOOLEAN]]
      BY DEF Init
    <3>3. /\ server \in Versions /\ behind \in SUBSET Observers /\ cut \in SUBSET Observers
          /\ kept \in [Keys -> Versions] /\ overlap \in SUBSET Keys /\ disposed \in BOOLEAN
      BY <2>1 DEF Init
    <3> QED BY <3>1, <3>2, <3>3 DEF TypeOK
  <2>3. Queries /\ ObserversCurrent BY DEF Init, Queries, ObserversCurrent
  <2>4. Answers BY <2>1 DEF Init, Answers
  <2>5. Deduplicated BY DEF Init, Deduplicated
  <2> QED BY <2>2, <2>3, <2>4, <2>5 DEF IInv
<1>2. IInv /\ [Next]_vars => IInv'
  BY StepTypes, StepQueries, StepAnswers DEF IInv
<1> QED BY <1>1, <1>2, PTL DEF Spec

\* Every variable of the query cache keeps its type.
THEOREM TypeCorrect == Spec => []TypeOK
<1>1. IInv => TypeOK BY DEF IInv
<1> QED BY <1>1, Inductive, PTL

\* Whoever observes a key was told of the last data written for it, whichever of the
\* cache's writers wrote it, unless a foreign unsubscribe() deleted its query.
THEOREM ObserversInformed == Spec => []ObserversCurrent
<1>1. IInv => ObserversCurrent BY DEF IInv
<1> QED BY <1>1, Inductive, PTL

\* Only where requests of a key overlap may a response replace a newer one, and with
\* deduplication only after dispose().
THEOREM NeverOlder == Spec => NeverOlderUnlessOverlapping
<1> DEFINE Older == \E k \in Keys : kept'[k] < kept[k] /\ ~(k \in overlap /\ (dedup => disposed))
<1>1. IInv /\ [Next]_vars => [~Older]_vars
  <2> SUFFICES ASSUME IInv, Next, NEW k \in Keys, kept'[k] < kept[k]
               PROVE  k \in overlap /\ (dedup => disposed)
    OBVIOUS
  <2>1. kept' # kept
    <3>1. kept[k] \in Int BY CacheAssumption DEF IInv, TypeOK, Versions
    <3> QED BY <3>1
  <2>2. PICK l \in Keys : \E i \in DOMAIN flights[l] : Deliver(l, i)
    <3>1. CASE \E l \in Keys : \E i \in DOMAIN flights[l] : Deliver(l, i) BY <3>1
    <3>2. ASSUME NEW l \in Keys,
                 \/ \E s \in Strategies : Request(l, s) \/ Read(l, s)
                 \/ Evict(l) \/ Expire(l) \/ RequestUncached(l) \/ Prefetch(l)
                 \/ SetQueryData(l) \/ MutateAndRevalidate(l)
                 \/ \E i \in DOMAIN flights[l] : Answer(l, i) \/ Drop(l, i)
          PROVE  FALSE
      BY <2>1, <3>2 DEF Request, Read, Evict, Expire, RequestUncached, Prefetch, SetQueryData,
                        MutateAndRevalidate, Answer, Drop, history
    <3>3. ASSUME \/ \E o \in Observers : Subscribe(o) \/ Unsubscribe(o)
                 \/ RevalidateActiveQueries \/ FocusOrOnline \/ Dispose \/ ServerChanges
          PROVE  FALSE
      BY <2>1, <3>3 DEF Subscribe, Unsubscribe, RevalidateActiveQueries, FocusOrOnline, Dispose,
                        ServerChanges, history
    <3> QED BY <3>1, <3>2, <3>3 DEF Next
  <2>3. PICK i \in DOMAIN flights[l] : Deliver(l, i) BY <2>2
  <2>4. kept' = [kept EXCEPT ![l] = flights[l][i].data] /\ flights[l][i].data \in Versions
    BY <2>3 DEF Deliver
  <2>5. kept \in [Keys -> Versions] /\ \A v \in Versions : v \in Int
    BY CacheAssumption DEF IInv, TypeOK, Versions
  <2>6. k = l BY <2>4, <2>5
  <2>7. flights[k][i].data < kept[k] BY <2>4, <2>5, <2>6
  <2>8. k \in overlap BY <2>4, <2>5, <2>6, <2>7 DEF IInv, Answers
  <2> QED BY <2>8 DEF IInv, Deduplicated
<1>2. [~Older]_vars => [\A k \in Keys : kept'[k] < kept[k] => k \in overlap /\ (dedup => disposed)]_vars
  OBVIOUS
<1> QED BY <1>1, <1>2, Inductive, PTL DEF Spec, NeverOlderUnlessOverlapping
=============================================================================
