--------------------------- MODULE RequestHeaders ---------------------------
(***************************************************************************)
(* How a request comes by its headers.  HTTPBuilder of src/core/           *)
(* http-client.ts collects them in a config object and build() hands the   *)
(* client a shallow copy; request() adds the API version to the caller's   *)
(* options, _executeRequest() puts the client's headers under the          *)
(* request's, and the interceptors of src/utils/ssr.ts, tracing.ts and     *)
(* otel.ts run.  A request that was refused with 401 is given to request() *)
(* again with the config it was sent with.                                 *)
(*                                                                         *)
(* Header objects that somebody keeps are references into the heap: what   *)
(* one holder changes in place, all of them see.  A header's value is a    *)
(* number, 0 if the header is absent.  Names are compared as they are      *)
(* spelled: two spellings of one name are two headers here, and are both   *)
(* handed to the transport.                                                *)
(***************************************************************************)
EXTENDS Integers, Sequences

CONSTANTS
  MaxClients, MaxRequests,   \* bounds on build() and on the requests sent
  MaxChanges                 \* bound on the calls of the builder and the options made

Spellings == {"X-Custom", "x-custom", "Content-Type", "content-type"}
Names == Spellings \cup {"X-API-Version", "Cookie", "x-request-id", "traceparent", "baggage"}
None == 0
Headers == [Names -> Nat]
Empty == [name \in Names |-> None]

VARIABLES
  heap,      \* the header objects that are kept, None being no object
  config,    \* the builder's config and interceptors
  clients,   \* those of the clients built
  options,   \* the headers object in the options the caller uses again and again
  sent,      \* history: the requests sent, in order
  built,     \* history: the builder's headers when each client was built
  own,       \* history: the headers the caller has put into the options
  changes    \* those counted by MaxChanges

vars == <<heap, config, clients, options, sent, built, own, changes>>

Kinds == {"ssr", "trace", "otel"}
Configs == [headers : Nat, version : Nat, style : {"header", "url"},
            interceptors : SUBSET Kinds]

TypeOK ==
  /\ heap \in Seq(Headers) /\ config \in Configs /\ clients \in Seq(Configs)
  /\ options \in 0 .. Len(heap) /\ built \in Seq(Headers) /\ own \in Headers
  /\ changes \in 0 .. MaxChanges
  /\ sent \in Seq([client : 1 .. MaxClients, first : 1 .. MaxRequests, verb : STRING, given : Headers,
                   headers : Headers, segments : Nat])

Init ==
  /\ heap = <<>> /\ clients = <<>> /\ options = None /\ sent = <<>> /\ built = <<>>
  /\ own = Empty /\ changes = 0
  /\ config = [headers |-> None, version |-> 0, style |-> "header", interceptors |-> {}]

-----------------------------------------------------------------------------
\* The one header of a new object: a Headers instance lists its names in lower case, which
\* is how normalizeHeaders() gets them; an object or a list keeps them as they are.
Single(name, value, instance) ==
  LET listed == CASE instance /\ name = "X-Custom" -> "x-custom"
                  [] instance /\ name = "Content-Type" -> "content-type"
                  [] OTHER -> name
  IN  [Empty EXCEPT ![listed] = value]

\* normalizeHeaders(): what a reference stands for.
Normalized(ref) == IF ref = None THEN Empty ELSE heap[ref]

\* { ...under, ...over }
Spread(under, over) == [name \in Names |-> IF over[name] # None THEN over[name] ELSE under[name]]

Change == changes < MaxChanges /\ changes' = changes + 1

Kept(headers) == heap' = Append(heap, headers)
NewRef == Len(heap) + 1

\* Mutant of WithHeader: the header is written into the object built clients share.
WithHeaderInPlace(name, value) ==
  /\ Change
  /\ IF config.headers = None
     THEN Kept([Empty EXCEPT ![name] = value]) /\ config' = [config EXCEPT !.headers = NewRef]
     ELSE heap' = [heap EXCEPT ![config.headers][name] = value] /\ UNCHANGED config
  /\ UNCHANGED <<clients, options, sent, built, own>>

\* withHeader() and withHeaders() replace the builder's headers object by a new one.
WithHeader(name, value) ==
  /\ Change
  /\ Kept([Normalized(config.headers) EXCEPT ![name] = value])
  /\ config' = [config EXCEPT !.headers = NewRef]
  /\ UNCHANGED <<clients, options, sent, built, own>>

WithVersioning(version, style) ==
  /\ Change
  /\ config' = [config EXCEPT !.version = version, !.style = style]
  /\ UNCHANGED <<heap, clients, options, sent, built, own>>

\* addRequestInterceptor(), once or more, and withOpenTelemetry(); each interceptor has
\* headers of its own, so that their order makes no difference.
AddRequestInterceptors(kinds) ==
  /\ Change
  /\ config' = [config EXCEPT !.interceptors = @ \cup kinds]
  /\ UNCHANGED <<heap, clients, options, sent, built, own>>

\* build(): { ...this.config } copies the reference to the headers, not the headers.
Build ==
  /\ Len(clients) < MaxClients
  /\ clients' = Append(clients, config) /\ built' = Append(built, Normalized(config.headers))
  /\ UNCHANGED <<heap, config, options, sent, own, changes>>

-----------------------------------------------------------------------------
CookieOfPage == 7
Json == 8

\* _serializeBody(): a form leaves the type to the browser, anything else is JSON unless
\* the request itself says otherwise, in this spelling: another one stays where it is.
Serialized(headers, form) ==
  [headers EXCEPT !["Content-Type"] = IF form THEN None ELSE IF @ = None THEN Json ELSE @]

\* createSSRInterceptor(): the page's headers go under those of the request.
Forwarded(headers) == Spread([Empty EXCEPT !["Cookie"] = CookieOfPage], headers)

\* createTraceInterceptor(): a new id unless there is one.
Traced(headers, id) == [headers EXCEPT !["x-request-id"] = IF @ = None THEN id ELSE @]

\* Mutant of WithSpan: every request starts a trace of its own.
WithRootSpan(headers, id) == [headers EXCEPT !["traceparent"] = id, !["baggage"] = @ + 1]

\* createOTelInterceptor(): a span of the trace the request belongs to, or of a new one;
\* the configured baggage is appended to the baggage that is there.
WithSpan(headers, id) ==
  [headers EXCEPT !["traceparent"] = IF @ = None THEN id ELSE @, !["baggage"] = @ + 1]

Intercepted(headers, interceptors, id) ==
  LET forwarded == IF "ssr" \in interceptors THEN Forwarded(headers) ELSE headers
      traced == IF "trace" \in interceptors THEN Traced(forwarded, id) ELSE forwarded
  IN  IF "otel" \in interceptors THEN WithSpan(traced, id) ELSE traced

\* request(): the version becomes a path segment, or a header of the options.
Versioned(client, headers) ==
  IF client.version > 0 /\ client.style = "header"
  THEN [headers EXCEPT !["X-API-Version"] = client.version] ELSE headers
Segments(client) == IF client.version > 0 /\ client.style = "url" THEN 1 ELSE 0

\* _rebuildPerfCaches(): what the constructor and build() keep as _cachedBaseHeaders.
CachedBaseHeaders(client) == Normalized(client.headers)

\* _executeRequest(): the client's headers under those of the request.  (Without the latter
\* the interceptors get the cached object itself; none of the library's writes into it.)
Merged(client, headers) == Spread(CachedBaseHeaders(client), headers)

Send(c, verb, first, given, segments, headers) ==
  sent' = Append(sent,
    [client |-> c, verb |-> verb, first |-> first, given |-> given,
     segments |-> segments + Segments(clients[c]),
     headers |-> Intercepted(Merged(clients[c], Versioned(clients[c], headers)),
                             clients[c].interceptors, Len(sent) + 1)])

\* request() with the caller's options, which get the version header.
Request(c) ==
  /\ Len(sent) < MaxRequests /\ c \in DOMAIN clients
  /\ Send(c, "request", Len(sent) + 1, own, 0, Normalized(options))
  /\ IF clients[c].version > 0 /\ clients[c].style = "header"
     THEN /\ Kept(Versioned(clients[c], Normalized(options))) /\ options' = NewRef
     ELSE UNCHANGED <<heap, options>>
  /\ UNCHANGED <<config, clients, built, own, changes>>

\* get(), head(), options() and delete() call request() with a copy of the options.
Get(c) ==
  /\ Len(sent) < MaxRequests /\ c \in DOMAIN clients
  /\ Send(c, "get", Len(sent) + 1, own, 0, Normalized(options))
  /\ UNCHANGED <<heap, config, clients, options, built, own, changes>>

\* post(), put() and patch() add the type of the body.
Post(c, form) ==
  /\ Len(sent) < MaxRequests /\ c \in DOMAIN clients
  /\ Send(c, IF form THEN "form" ELSE "json", Len(sent) + 1, own, 0,
          Serialized(Normalized(options), form))
  /\ UNCHANGED <<heap, config, clients, options, built, own, changes>>

\* tryGet(), tryPost() and the others send what their namesakes do: see TryRequest in
\* Classification for what becomes of the answer.
TryGet(c) == Get(c)
TryPost(c, form) == Post(c, form)

\* createAuthInterceptor(): client.request(originalRequest.url, originalRequest)
Resend(i) ==
  /\ Len(sent) < MaxRequests /\ i \in DOMAIN sent
  /\ Send(sent[i].client, sent[i].verb, sent[i].first, sent[i].given, sent[i].segments,
          sent[i].headers)
  /\ UNCHANGED <<heap, config, clients, options, built, own, changes>>

\* The caller makes the options, with an object or a Headers instance.
MakeOptions(name, value, instance) ==
  /\ Change /\ own = Empty
  /\ own' = Single(name, value, instance) /\ Kept(own') /\ options' = NewRef
  /\ UNCHANGED <<config, clients, sent, built>>

Next ==
  \/ \E name \in {"X-Custom", "Content-Type"} : WithHeader(name, changes + 1)
  \/ \E style \in {"header", "url"} : WithVersioning(Len(clients) + 1, style)
  \/ \E kinds \in {{"otel"}, {"ssr", "trace"}} : AddRequestInterceptors(kinds)
  \/ Build
  \/ \E c \in 1 .. MaxClients :
       Request(c) \/ Get(c) \/ TryGet(c) \/ \E form \in BOOLEAN : Post(c, form) \/ TryPost(c, form)
  \/ \E i \in 1 .. MaxRequests : Resend(i)
  \/ \E name \in Spellings, instance \in BOOLEAN : MakeOptions(name, 5, instance)

Spec == Init /\ [][Next]_vars

-----------------------------------------------------------------------------
(***************************************************************************)
(* Properties.                                                             *)
(***************************************************************************)
Version(c) == IF clients[c].style = "header" THEN clients[c].version ELSE None

\* Spelling by spelling, a request and its resends carry what the caller has set, and else
\* what the builder had been told before the client was built, whatever is built, sent and
\* resent meanwhile (so that a caller's 'content-type' goes beside the library's
\* 'Content-Type'); and the version of their own client, or, if that sends none, perhaps
\* one that request() of another client has left in the caller's options.
SentAsConfigured ==
  \A i \in DOMAIN sent :
    LET s == sent[i]
        base == built[s.client]
        given == IF s.verb \in {"json", "form"} THEN Serialized(s.given, s.verb = "form") ELSE s.given
    IN  /\ \A name \in Spellings : s.headers[name] = Spread(base, given)[name]
        /\ Version(s.client) # None => s.headers["X-API-Version"] = Version(s.client)

\* "Content-Type: application/json is set unless already provided" (http-client.ts:1515): it
\* does not go beside a type the caller has given for the request.
JsonUnlessProvided ==
  \A i \in DOMAIN sent :
    sent[i].given["content-type"] # None => sent[i].headers["Content-Type"] # Json

\* Every request that is traced has an id and a trace of its own, which its resends keep.
OneTracePerRequest ==
  \A i, j \in DOMAIN sent :
    \A name \in {"x-request-id", "traceparent"} :
      sent[i].headers[name] # None /\ sent[j].headers[name] # None =>
        (sent[i].headers[name] = sent[j].headers[name] <=> sent[i].first = sent[j].first)
=============================================================================
