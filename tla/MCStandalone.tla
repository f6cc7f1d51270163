----------------------------- MODULE MCStandalone -----------------------------
(***************************************************************************)
(* A small instance of Standalone for TLC, and what the pure functions of  *)
(* the library compute, against reference definitions, over bounded        *)
(* inputs: TLC evaluates these assumptions before it explores any state.   *)
(***************************************************************************)
EXTENDS Standalone, Sequences, FiniteSets, FiniteSetsExt, SequencesExt

Text == INSTANCE Serialization
Decide == INSTANCE Classification
Page == INSTANCE Pagination
Log == INSTANCE Redaction
Emitter == INSTANCE EventEmitter
Collector == INSTANCE Metrics WITH Infinity <- 99

-----------------------------------------------------------------------------
\* Parameters with up to two names, in either order.
Scalars == {Text!Scalar(v) : v \in 1 .. 2}
Lists == {Text!List(s) : s \in SeqOf(1 .. 2, 2)}
Objects == {Text!Object(s) : s \in {<<>>} \cup {<<Text!Entry(n, v)>> : n \in 1 .. 2, v \in Scalars}
                                   \cup {<<Text!Entry(2, Text!Scalar(1)), Text!Entry(1, v)>> : v \in Lists}}
Params ==
  LET values == Scalars \cup Lists \cup Objects
  IN  {<<Text!Entry(n, v)>> : n \in 1 .. 2, v \in values} \cup
      {<<Text!Entry(n, v), Text!Entry(3 - n, w)>> : n \in 1 .. 2, v \in values, w \in Lists \cup Objects}

FieldBag(params) ==
  LET fields == Text!SerializeParams(params)
  IN  [f \in ToSet(fields) |-> Cardinality({i \in DOMAIN fields : fields[i] = f})]

\* generateKey(): requests share an entry of the cache, and a flight, exactly when their
\* queries have the same fields: whatever the order of names and of values in lists.
ASSUME KeysIdentifyQueries ==
  LET classes == {<<Text!GenerateKey(p), FieldBag(p)>> : p \in Params}
  IN  /\ Cardinality({c[1] : c \in classes}) = Cardinality(classes)
      /\ Cardinality({c[2] : c \in classes}) = Cardinality(classes)

\* simpleHash(): keys that are too long for themselves stay apart if they differ in one
\* character, but not if they differ in two: at their end, 'cc' and 'bB' are the same to
\* it, so that two requests may share a flight and an entry of the cache.
ASSUME HashedKeysTellOneCharacter ==
  LET codes == {66, 67, 98, 99}
      long == UNION {[1 .. n -> codes] : n \in 3 .. 4}
  IN  /\ \A key \in long : \A i \in DOMAIN key : \A c \in codes \ {key[i]} :
           Text!KeyOf(key, 2) # Text!KeyOf([key EXCEPT ![i] = c], 2)
      /\ Text!KeyOf(<<99, 99>>, 1) = Text!KeyOf(<<98, 66>>, 1)
      /\ Text!KeyOf(<<99, 99>>, 2) # Text!KeyOf(<<98, 66>>, 2)

\* sha256(): the name of a persisted query is its own only where there is a crypto API.
ASSUME DigestsNameQueries ==
  \A subtle, node \in BOOLEAN :
    Text!Digest(<<99, 99>>, subtle, node) = Text!Digest(<<98, 66>>, subtle, node)
      <=> ~subtle /\ ~node

\* http(): "Normalize slashes": one slash joins base and path, unless either brings two.
ASSUME OneSlash ==
  \A trailing, ahead \in 0 .. 3 :
    Text!SlashesBetween(trailing, ahead) = 1 <=> trailing <= 1 /\ ahead <= 1

\* generateCurl(): of what a request is sent with, the headers of the client are left out
\* if the request has none of its own; a header of the request comes before the client's.
ASSUME CurlShowsRequest ==
  LET some == UNION {[names -> 1 .. 2] : names \in SUBSET {"Accept", "X-Custom"}}
      merged(base, over) == [n \in DOMAIN base \cup DOMAIN over |-> IF n \in DOMAIN over THEN over[n] ELSE base[n]]
  IN  \A base, over \in some :
        /\ Text!CurlHeaders(base, [headers |-> over]) = merged(base, over)
        /\ Text!CurlHeaders(base, Text!Null) = merged(base, <<>>) <=> base = <<>>
        /\ \A hasBase, absolute \in BOOLEAN :
             Text!CurlPrefixes(hasBase, absolute) = hasBase <=> ~(hasBase /\ absolute)

-----------------------------------------------------------------------------
\* The values of an object to any depth; what objectToFormData() does not append: nothing
\* under an absent name, and no date in a list.
Leaf(value) == value.kind \in {"scalar", "date", "null"}
RECURSIVE Leaves(_)
Leaves(entries) ==
  FlattenSeq([i \in DOMAIN entries |->
    LET value == entries[i][2]
    IN  IF value.kind = "object" THEN Leaves(value.entries)
        ELSE IF value.kind = "list" THEN
          FlattenSeq([j \in DOMAIN value.items |->
            IF Leaf(value.items[j]) THEN <<[value |-> value.items[j], lost |-> value.items[j].kind = "date"]>>
            ELSE IF value.items[j].kind = "object" THEN Leaves(value.items[j].entries)
            ELSE Leaves([k \in DOMAIN value.items[j].items |-> Text!Entry(k, value.items[j].items[k])])])
        ELSE <<[value |-> value, lost |-> value.kind = "null"]>>])

Values0 == {Text!Scalar(1), Text!Date, Text!Null}
Values1 == Values0 \cup {Text!List(s) : s \in SeqOf(Values0, 2)}
                   \cup {Text!Object(<<Text!Entry(1, v), Text!Entry(2, w)>>) : v, w \in Values0}
Values2 == Values1 \cup {Text!List(<<v, w>>) : v \in Values1, w \in Values0}
                   \cup {Text!Object(<<Text!Entry(1, v)>>) : v \in Values1}
Forms == {<<Text!Entry(1, v), Text!Entry(2, w)>> : v \in Values2, w \in Values1}

\* objectToFormData(): every value but those that are lost is a field, in order.
ASSUME FormsKeepValues ==
  \A form \in Forms :
    LET fields == Text!ObjectToFormData(form)
        kept == SelectSeq(Leaves(form), LAMBDA leaf : ~leaf.lost)
    IN  [i \in DOMAIN fields |-> fields[i][2]] = [i \in DOMAIN kept |-> kept[i].value]

-----------------------------------------------------------------------------
Failures == Decide!Errors(Decide!TransientNetworkCodes \cup {"", "TIMEOUT", "EACCES"})

\* classifyNetworkError() and isTransientNetworkError(), which decides on retries, differ
\* in one thing: a timeout that has no code or message of a network failure is classified
\* as a timeout but not retried.
ASSUME ClassesMatchRetries ==
  \A failure \in Failures :
    LET class == Decide!ClassifyNetworkError(failure)
    IN  /\ class = "non_transient" => ~Decide!IsTransientNetworkError(failure)
        /\ class \notin {"non_transient", "timeout"} => Decide!IsTransientNetworkError(failure)
        /\ class = "timeout" /\ ~Decide!IsTransientNetworkError(failure) =>
             failure.code \in {"TIMEOUT", "", "EACCES"} /\ "network" \notin failure.words

\* The retryCondition of http(): "Never retry intentional cancellations", "Never retry
\* client auth errors", "5xx server errors, 429 (rate-limited), 408 (request timeout)".
ASSUME RetriesByStatus ==
  \A failure \in Failures, status \in {400, 401, 403, 404, 408, 429, 499, 500, 503, 599} :
    Decide!RetryCondition("HTTPError", status, failure) <=>
      failure.name # "AbortError" /\ status \in {408, 429, 500, 503, 599}

\* calculateDelay(): maxDelayMs, "Upper bound for the computed retry delay", bounds what
\* jitter is added to: a delay may be half as long again, and is never 0.  Without
\* jitter delays never get shorter.
ASSUME DelaysBounded ==
  \A attempt \in 1 .. 6, initial, max \in {2, 10, 64}, factor \in 1 .. 3, jitter \in BOOLEAN :
    LET delays(n) == Decide!CalculateDelay(n, initial, max, factor, jitter)
    IN  /\ Min(delays(attempt)) > 0 /\ 2 * Max(delays(attempt)) <= 3 * max
        /\ ~jitter => Max(delays(attempt)) <= Min({max, Min(delays(attempt + 1))})
        /\ initial = max /\ jitter => Max(delays(attempt)) > max

\* retryPolicies: "The first matching pattern wins", below the request's own options.
ASSUME FirstPolicyWins ==
  \A patterns \in SeqOf({"a", "b"}, 3), matching \in SUBSET {"a", "b"}, choice \in {"own", Decide!Absent} :
    LET policies == [i \in DOMAIN patterns |-> [pattern |-> patterns[i], retry |-> i]]
        matches == {i \in DOMAIN patterns : patterns[i] \in matching}
    IN  Decide!RetryOptions(choice, policies, matching, "client") =
          IF choice = "own" THEN "own" ELSE IF matches = {} THEN "client" ELSE Min(matches)

\* persistedRequest() resolves or rejects only with answers that do not ask for the query,
\* except that a rejection saying that persisted queries are not supported is final.
ASSUME QueriesAreSent ==
  \A rejected \in BOOLEAN, errors \in SUBSET (Decide!PersistedQueryErrors \cup {"other"}) :
    Decide!AfterHash(rejected, errors) # "send the query" /\ errors \cap Decide!PersistedQueryErrors # {}
      <=> rejected /\ "PersistedQueryNotSupported" \in errors /\ "PersistedQueryNotFound" \notin errors

\* detectRuntime(): a runtime that also has the globals of another one, as edge runtimes,
\* Deno, Bun and browsers have, is found before it.
ASSUME SpecificRuntimesFirst ==
  \A globals \in SUBSET ToSet(Decide!Globals) :
    /\ "WebSocketPair" \in globals => Decide!DetectRuntime(globals) = "workerd"
    /\ Decide!DetectRuntime(globals) = "node" <=> globals = {"process"}
    /\ Decide!IsEdgeRuntime(Decide!DetectRuntime(globals)) <=>
         globals \cap {"WebSocketPair", "EdgeRuntime", "fastly"} # {}
    /\ Decide!HasNodeErrorCodes(Decide!DetectRuntime(globals)) => Decide!HasHTTP2(Decide!DetectRuntime(globals))

\* tryRequest() and toResult() never throw, and keep what has the class they promise.
ASSUME ResultsKeepErrors ==
  \A class \in Decide!Thrown :
    LET thrown == Decide!Rejected(class)
    IN  /\ Decide!TryRequest(thrown) = Decide!Rejected("HTTPError")
        /\ Decide!ToResult(thrown).error # "other"
        /\ class # "other" => Decide!ToResult(thrown) = thrown
        /\ Decide!MapResult(thrown, [v \in {1} |-> 2]) = thrown
        /\ Decide!UnwrapOr(Decide!MapResult(Decide!Fulfilled(1), [v \in {1} |-> 2]), 3) = 2
        /\ Decide!UnwrapOr(thrown, 3) = 3

\* createOTelInterceptor(): an upstream trace is respected, an invalid one is replaced.
ASSUME TraceContinued ==
  \A header \in Decide!Traceparents({"up"}), configured \in {"parent", Decide!Absent} :
    LET trace == Decide!TraceOf(Decide!ParseTraceparent(header), configured, "new")
    IN  /\ trace = "up" <=> header.parts >= 4 /\ header.version = "00" /\ header.wellFormed /\ ~header.zero
        /\ trace = "new" => configured = Decide!Absent

-----------------------------------------------------------------------------
\* The pages of a server with these many items, at most cap to a page.
PageSizes(total, limit, cap) ==
  LET size == Min({limit, cap})
  IN  [i \in 1 .. (total + size - 1) \div size |-> Min({size, total - (i - 1) * size})]

\* paginate() yields all items, in one request more than pages if the last one is full; but
\* from a server that gives fewer to a page than it is asked for, only the first page.
ASSUME AllItemsYielded ==
  \A total \in 0 .. 7, limit, cap \in 1 .. 4 :
    LET sizes == PageSizes(total, limit, cap)
        stops == Page!NotFull(sizes, limit)
        items == FoldSeq(+, 0, Page!Yielded(sizes, stops))
    IN  IF cap < limit THEN items = Min({total, cap})
        ELSE items = total /\ Page!Requested(sizes, stops) = total \div limit + 1

\* extractItems(): with a path, nothing but a list at its end counts.
ASSUME ItemsAtPath ==
  LET list(n) == Page!List([i \in 1 .. n |-> i])
      data == Page!Object(<< <<"meta", Page!Object(<< <<"data", list(1)>> >>)>>,
                             <<"links", list(2)>>, <<"data", list(3)>> >>)
  IN  /\ Page!ExtractItems(data, <<>>) = <<1, 2>>
      /\ Page!ExtractItems(data, <<"data">>) = <<1, 2, 3>>
      /\ Page!ExtractItems(data, <<"meta", "data">>) = <<1>>
      /\ Page!ExtractItems(data, <<"data", "meta">>) = <<>>
      /\ Page!ExtractItems(list(2), <<"data">>) = <<>>

-----------------------------------------------------------------------------
Plain == Log!Name("plain", {}, FALSE)
Secret == Log!Name("secret", {"secret"}, FALSE)
Token == Log!Name("token", {"token"}, FALSE)
Cookie == Log!Name("cookie", {}, TRUE)
Names == {Plain, Secret, Token, Cookie}

\* sanitizeUrl(): although the loop runs over the list it shortens, no parameter with a
\* sensitive name keeps its value, and the others stay as they are.
ASSUME NoSensitiveParam ==
  \A names \in SeqOf(Names, 5) :
    LET params == [i \in DOMAIN names |-> <<names[i], Log!Scalar(i)>>]
        clean == Log!SanitizeUrl(TRUE, params)
    IN  /\ \A i \in DOMAIN clean : clean[i][2] = Log!Redacted <=> clean[i][1] # Plain
        /\ SelectSeq(clean, LAMBDA p : p[1] = Plain) = SelectSeq(params, LAMBDA p : p[1] = Plain)
        /\ {p[1] : p \in ToSet(clean)} = ToSet(names)
        /\ Log!SanitizeUrl(FALSE, params) = params

Bodies0 == {Log!Scalar(1), Log!Object(<<>>)}
Wrap(bodies) == {Log!List(<<b, c>>) : b, c \in bodies} \cup
                {Log!Object(<< <<m, b>>, <<n, c>> >>) : m, n \in {Plain, Secret}, b, c \in bodies}
Bodies2 == Wrap(Wrap(Bodies0))

\* The values of scalars that are under no sensitive name.
RECURSIVE Shown(_, _)
Shown(data, limit) ==
  IF data.kind = "scalar" THEN 1
  ELSE IF data.kind \in {"redacted", "too deep"} \/ limit = 0 THEN 0
  ELSE IF data.kind = "list" THEN FoldSeq(LAMBDA d, n : n + Shown(d, limit - 1), 0, data.items)
  ELSE FoldSeq(LAMBDA e, n : n + IF e[1] = Secret THEN 0 ELSE Shown(e[2], limit - 1), 0, data.entries)
RECURSIVE AllShown(_)
AllShown(data) ==
  IF data.kind = "scalar" THEN 1
  ELSE IF data.kind \in {"redacted", "too deep"} THEN 0
  ELSE IF data.kind = "list" THEN FoldSeq(LAMBDA d, n : n + AllShown(d), 0, data.items)
  ELSE FoldSeq(LAMBDA e, n : n + AllShown(e[2]), 0, data.entries)

\* maskSensitiveData(): it shows the values that are under no sensitive name and within
\* its depth, and no other.
ASSUME OnlyPlainValuesShown ==
  \A data \in Bodies2, limit \in 0 .. 3 :
    AllShown(Log!MaskSensitiveData(data, 0, limit)) = Shown(data, limit)

\* ConsoleLogger: a header named in redactHeaders is not logged, if it is where the
\* client's own interceptors put headers, directly in the metadata.
ASSUME HeadersRedacted ==
  LET headers == Log!Object(<< <<Cookie, Log!Scalar(1)>>, <<Plain, Log!Scalar(2)>> >>)
      within(name) == Log!Object(<< <<Log!Name(name, {}, FALSE), headers>> >>)
  IN  /\ AllShown(Log!RedactMeta(within("headers"), {"cookie"})) = 1
      /\ Log!RedactMeta(within("config"), {"cookie"}) = within("config")

\* A logger with a level emits what is at least as severe.
ASSUME LevelsOrdered ==
  \A level \in 0 .. 4 : Cardinality({m \in DOMAIN Log!LogLevel \ {"none"} : Log!Emits(level, m)}) = level

-----------------------------------------------------------------------------
Effects == {<<"none">>, <<"emit">>, <<"clear">>, <<"off", 1>>, <<"off", 2>>, <<"on", 2>>}
Registered(added) ==
  FoldLeft(LAMBDA e, a : IF a[2] THEN Emitter!Once(e, a[1]) ELSE Emitter!On(e, a[1]), Emitter!Emitter, added)

\* emit() calls each listener there was when it began exactly once and in order, whatever
\* the listeners do to the list; a listener that emits makes the one exception: a wrapper
\* of once() that comes after it may be called twice, and is if nothing removes it before.
ASSUME EmitReachesAll ==
  \A added \in SeqOf((1 .. 2) \X BOOLEAN, 3), effect \in [1 .. 2 -> Effects] :
    LET before == Registered(added)
        after == Emitter!Emit(before, effect)
        emits == {i \in DOMAIN added : effect[added[i][1]][1] = "emit"}
        times(l) == Cardinality({i \in DOMAIN after.calls : after.calls[i] = l})
    IN  /\ emits = {} => after.calls = before.listeners
        /\ \A i \in DOMAIN added :
             added[i][2] =>
               /\ times(before.listeners[i]) \in 1 .. 2
               /\ times(before.listeners[i]) = 2 => \E j \in emits : j < i
               /\ 1 \in emits /\ i > 1 => times(before.listeners[i]) = 2
        /\ \A l \in ToSet(after.listeners) : l.wrapper = 0

-----------------------------------------------------------------------------
Samples == [duration : 0 .. 2, success : BOOLEAN]

\* MetricsCollector.record(): the aggregates are those of all requests, the log is of the
\* last ones.
ASSUME MetricsAggregate ==
  \A samples \in SeqOf(Samples, 3), maxLogSize \in 0 .. 2 :
    LET m == FoldLeft(LAMBDA c, s : Collector!Record(c, s, maxLogSize), Collector!Cleared, samples)
        durations == {s.duration : s \in ToSet(samples)}
        count == Len(samples)
    IN  /\ m.requestCount = count
        /\ m.errorCount = Len(SelectSeq(samples, LAMBDA s : ~s.success))
        /\ samples # <<>> => m.minLatency = Min(durations) /\ m.maxLatency = Max(durations)
        /\ samples # <<>> => Collector!AverageLatency(m) \in Min(durations) .. Max(durations)
        /\ m.requestLog = SubSeq(samples, count - Min({count, maxLogSize}) + 1, count)
=============================================================================
