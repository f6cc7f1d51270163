--------------------------- MODULE Classification ---------------------------
(***************************************************************************)
(* Decisions the client takes on what it finds: the class of a network     *)
(* error (src/utils/network-errors.ts), whether http() repeats an attempt  *)
(* (src/utils/http.ts) and with which options (src/core/http-client.ts),   *)
(* the answer to a persisted query (src/core/graphql-client.ts), and the   *)
(* runtime (src/utils/runtime.ts); and the results of src/types/result.ts, *)
(* into which the client puts what it would throw.                         *)
(***************************************************************************)
EXTENDS Integers, Sequences, SequencesExt

DnsCodes == {"ENOTFOUND", "EAI_AGAIN", "ENONET"}
ResetCodes == {"ECONNRESET", "EPIPE", "ECONNABORTED"}
UnavailableCodes == {"ENETUNREACH", "EHOSTUNREACH", "ENETDOWN"}
TransientNetworkCodes ==
  DnsCodes \cup ResetCodes \cup UnavailableCodes
  \cup {"ETIMEDOUT", "ECONNREFUSED", "EPROTO", "ERR_NETWORK_CHANGED", "ERR_INTERNET_DISCONNECTED"}

\* An error has a code, "" if none, a name, and a message, of which is told whether it has
\* the words of a network failure, and the word "timeout".
Errors(codes) ==
  [code : codes, name : {"Error", "TimeoutError", "AbortError"}, words : SUBSET {"network", "timeout"}]

IsTransientNetworkError(error) == error.code \in TransientNetworkCodes \/ "network" \in error.words

IsTimeoutError(error) ==
  \/ error.code \in {"ETIMEDOUT", "TIMEOUT"}
  \/ error.name = "TimeoutError"
  \/ error.name = "AbortError" /\ "timeout" \in error.words

IsDnsError(error) == error.code \in DnsCodes

\* classifyNetworkError(): the first class that fits.
Classes(error) ==
  << <<"timeout", IsTimeoutError(error)>>, <<"dns", IsDnsError(error)>>,
     <<"connection_refused", error.code = "ECONNREFUSED">>,
     <<"connection_reset", error.code \in ResetCodes>>,
     <<"network_unavailable", error.code \in UnavailableCodes>>,
     <<"other_transient", IsTransientNetworkError(error)>>, <<"non_transient", TRUE>> >>
ClassifyNetworkError(error) == SelectSeq(Classes(error), LAMBDA class : class[2])[1][1]

\* retryCondition of http(), for an error of a class with or without a status: 401 and
\* 403 are among the statuses that are not retried.
NoStatus == 0
RetryCondition(class, status, error) ==
  /\ error.name # "AbortError"
  /\ IF class = "HTTPError" /\ status # NoStatus THEN status >= 500 \/ status \in {429, 408}
     ELSE class = "NetworkError" \/ IsTransientNetworkError(error)

\* _executeRequest(): the first policy whose pattern matches decides, then the client; a
\* retry among the request's options overrides both.  Absent stands for undefined.
Absent == "absent"
RetryOptions(request, policies, matching, client) ==
  LET i == SelectInSeq(policies, LAMBDA policy : policy.pattern \in matching)
  IN  CASE request # Absent -> request
        [] request = Absent /\ i > 0 -> policies[i].retry
        [] request = Absent /\ i = 0 -> client

\* calculateDelay(): the delays there may be before an attempt; Math.random() picks one.
CalculateDelay(attempt, initial, max, factor, jitter) ==
  LET baseDelay == Min({initial * factor ^ (attempt - 1), max})
      jitterAmount == IF jitter THEN baseDelay \div 2 ELSE 0
  IN  (baseDelay - jitterAmount) .. (baseDelay + jitterAmount)

-----------------------------------------------------------------------------
\* What persistedRequest() does after the answer to the hash alone: the errors are those
\* of a body with status 200, or the rejection is an error with this message.
PersistedQueryErrors == {"PersistedQueryNotFound", "PersistedQueryNotSupported"}
AfterHash(rejected, errors) ==
  IF rejected THEN IF "PersistedQueryNotFound" \in errors THEN "send the query" ELSE "reject"
  ELSE IF errors \cap PersistedQueryErrors # {} THEN "send the query" ELSE "resolve"

\* detectRuntime(): the first global that is found.
Globals == <<"WebSocketPair", "EdgeRuntime", "fastly", "Deno", "Bun", "window", "process">>
Runtimes == <<"workerd", "edge-light", "fastly", "deno", "bun", "browser", "node">>
DetectRuntime(globals) ==
  LET i == SelectInSeq(Globals, LAMBDA g : g \in globals)
  IN  IF i > 0 THEN Runtimes[i] ELSE "unknown"

\* getRuntimeCapabilities()
HasNodeErrorCodes(name) == name \in {"node", "bun", "deno"}
HasHTTP2(name) == HasNodeErrorCodes(name) \/ name \in {"workerd", "edge-light"}
IsEdgeRuntime(name) == name \in {"workerd", "edge-light", "fastly"}

-----------------------------------------------------------------------------
\* A promise has settled with a value, or with something thrown of one of these classes:
\* an HTTPError, another Error, or no Error at all.
Thrown == {"HTTPError", "Error", "other"}
Fulfilled(value) == [ok |-> TRUE, data |-> value]
Rejected(class) == [ok |-> FALSE, error |-> class]

\* toResult() wraps what is no Error in one; tryRequest() what is no HTTPError.
ToResult(outcome) ==
  IF outcome.ok THEN outcome ELSE Rejected(IF outcome.error = "other" THEN "Error" ELSE outcome.error)
TryRequest(outcome) == IF outcome.ok THEN outcome ELSE Rejected("HTTPError")
MapResult(result, f) == IF result.ok THEN Fulfilled(f[result.data]) ELSE result
UnwrapOr(result, fallback) == IF result.ok THEN result.data ELSE fallback

\* parseTraceparent(): a header with its version, ids and flags, each of them well formed
\* or not, and its trace; Absent if it is invalid.
Traceparents(traces) ==
  [parts : 3 .. 5, version : {"00", "01"}, wellFormed : BOOLEAN, zero : BOOLEAN, trace : traces]
ParseTraceparent(header) ==
  IF /\ header.parts >= 4 /\ header.version = "00"
     /\ header.wellFormed /\ ~header.zero THEN header.trace ELSE Absent

\* createOTelInterceptor(): the trace of the header, else the configured one, else a new one.
TraceOf(upstream, configured, new) ==
  IF upstream # Absent THEN upstream ELSE IF configured # Absent THEN configured ELSE new
=============================================================================
