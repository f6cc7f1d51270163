-------------------------------- MODULE Metrics --------------------------------
(***************************************************************************)
(* MetricsCollector (src/utils/metrics.ts): a request is recorded by its   *)
(* duration and its success.                                               *)
(***************************************************************************)
EXTENDS Integers, Sequences

CONSTANT Infinity   \* the latency before any request, above all durations

Cleared == [requestCount |-> 0, errorCount |-> 0, totalLatency |-> 0,
            minLatency |-> Infinity, maxLatency |-> 0, requestLog |-> <<>>]

Least(a, b) == IF a < b THEN a ELSE b
Greatest(a, b) == IF a > b THEN a ELSE b

\* The log keeps the last maxLogSize requests.
Logged(log, request, maxLogSize) ==
  LET longer == Append(log, request) IN IF Len(longer) > maxLogSize THEN Tail(longer) ELSE longer

\* record()
Record(metrics, request, maxLogSize) ==
  [requestCount |-> metrics.requestCount + 1,
   errorCount |-> metrics.errorCount + (IF request.success THEN 0 ELSE 1),
   totalLatency |-> metrics.totalLatency + request.duration,
   minLatency |-> Least(metrics.minLatency, request.duration),
   maxLatency |-> Greatest(metrics.maxLatency, request.duration),
   requestLog |-> Logged(metrics.requestLog, request, maxLogSize)]

\* getSnapshot(): the average, rounded down.
AverageLatency(metrics) ==
  IF metrics.requestCount > 0 THEN metrics.totalLatency \div metrics.requestCount ELSE 0
=============================================================================
