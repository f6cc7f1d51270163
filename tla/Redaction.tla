------------------------------- MODULE Redaction -------------------------------
(***************************************************************************)
(* What is kept out of the logs: SecurityUtils (src/utils/security.ts) and *)
(* ConsoleLogger (src/utils/logger.ts).  A name is known by the sensitive  *)
(* words it contains and by whether it is that of a sensitive header, in   *)
(* upper or lower case; the entries of an object and the parameters of a   *)
(* URL are sequences of <<name, value>>.                                   *)
(***************************************************************************)
EXTENDS Data

Name(id, words, header) == [id |-> id, words |-> words, header |-> header]
Redacted == [kind |-> "redacted"]
TooDeep == [kind |-> "too deep"]

HasSensitiveWord(name) == name.words # {}

\* sanitizeHeaders()
SanitizeHeaders(headers) ==
  [i \in DOMAIN headers |-> IF headers[i][1].header THEN <<headers[i][1], Redacted>> ELSE headers[i]]

\* URLSearchParams.set(): the first of the name gets the value, the others are removed.
SetParam(params, name, value) ==
  LET first == SelectInSeq(params, LAMBDA p : p[1] = name)
      kept == SelectSeq([i \in DOMAIN params |-> <<i, params[i]>>],
                        LAMBDA q : q[1] = first \/ q[2][1] # name)
  IN  [i \in DOMAIN kept |-> IF kept[i][1] = first THEN <<name, value>> ELSE kept[i][2]]

\* sanitizeUrl(): the loop goes on at the next position of a list that set() shortens.
RECURSIVE Sweep(_, _)
Sweep(params, i) ==
  IF i > Len(params) THEN params
  ELSE Sweep(IF HasSensitiveWord(params[i][1]) \/ params[i][1].header
             THEN SetParam(params, params[i][1], Redacted) ELSE params, i + 1)
SanitizeUrl(parses, params) == IF parses THEN Sweep(params, 1) ELSE params

\* maskSensitiveData() of data at this depth, where limit is MAX_MASK_DEPTH.
RECURSIVE MaskSensitiveData(_, _, _)
MaskSensitiveData(data, depth, limit) ==
  IF data.kind \notin {"list", "object"} THEN data
  ELSE IF depth >= limit THEN TooDeep
  ELSE IF data.kind = "list"
  THEN List([i \in DOMAIN data.items |-> MaskSensitiveData(data.items[i], depth + 1, limit)])
  ELSE Object([i \in DOMAIN data.entries |->
         <<data.entries[i][1], IF HasSensitiveWord(data.entries[i][1]) THEN Redacted
                         ELSE MaskSensitiveData(data.entries[i][2], depth + 1, limit)>>])

\* redactMeta(): the headers directly in the metadata, for the names of redactHeaders.
RedactMeta(meta, names) ==
  LET redact(headers) ==
        Object([j \in DOMAIN headers.entries |->
          IF headers.entries[j][1].id \in names THEN <<headers.entries[j][1], Redacted>> ELSE headers.entries[j]])
  IN  IF meta.kind # "object" THEN meta
      ELSE Object([i \in DOMAIN meta.entries |->
             IF meta.entries[i][1].id = "headers" /\ meta.entries[i][2].kind = "object"
             THEN <<meta.entries[i][1], redact(meta.entries[i][2])>> ELSE meta.entries[i]])

\* error(), warn(), info() and debug() of a logger with this level.
LogLevel == [none |-> 0, error |-> 1, warn |-> 2, info |-> 3, debug |-> 4]
Emits(level, method) == level >= LogLevel[method]
=============================================================================
