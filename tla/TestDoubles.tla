---------------------------- MODULE TestDoubles ----------------------------
(***************************************************************************)
(* What the library offers for tests of programs that use it: MockAdapter  *)
(* of src/utils/mock-adapter.ts in place of the transport, and             *)
(* NetworkRecorder of src/utils/recorder.ts among the interceptors.        *)
(* Requests overlap: the adapter and its handlers may answer after a       *)
(* delay, and recordings begin and end meanwhile.  One URL is modelled; a  *)
(* handler that does not match is the same as none.                        *)
(***************************************************************************)
EXTENDS Integers, Sequences, FiniteSets, SequencesExt

CONSTANTS
  Requests,
  MaxHandlers,   \* bound on the handlers registered
  MaxStarts      \* bound on the calls of start() and clear()

VARIABLES
  handlers,      \* those of the adapter, in the order of registration
  history,       \* the requests it was given since the last reset()
  stage,         \* of each request
  answeredBy,    \* the handler that answers each request
  registered,    \* number of handlers ever registered
  oneTime,       \* history: those of replyOnce()
  isRecording,
  tagged,        \* requests whose config has a _recordingId
  records,       \* the recorder's, by request
  recording,     \* history: number of the recording, counting start() and clear()
  begun          \* history: the recording in which each request was sent, 0 if none

mockVars == <<handlers, history, stage, answeredBy, registered, oneTime>>
recorderVars == <<isRecording, tagged, records, recording, begun>>
vars == <<mockVars, recorderVars>>

Handlers == [id : 1 .. MaxHandlers, once : BOOLEAN, fails : BOOLEAN]

TypeOK ==
  /\ handlers \in Seq(Handlers) /\ history \in Seq(Requests)
  /\ stage \in [Requests -> {"new", "delayed", "handled", "replied", "rejected"}]
  /\ answeredBy \in [Requests -> 0 .. MaxHandlers]
  /\ registered \in 0 .. MaxHandlers /\ oneTime \in SUBSET (1 .. MaxHandlers)
  /\ isRecording \in BOOLEAN /\ tagged \in SUBSET Requests /\ records \in Seq(Requests)
  /\ recording \in 0 .. MaxStarts /\ begun \in [Requests -> 0 .. MaxStarts]

Init ==
  /\ handlers = <<>> /\ history = <<>> /\ registered = 0 /\ oneTime = {}
  /\ stage = [r \in Requests |-> "new"] /\ answeredBy = [r \in Requests |-> 0]
  /\ isRecording = FALSE /\ tagged = {} /\ records = <<>>
  /\ recording = 0 /\ begun = [r \in Requests |-> 0]

-----------------------------------------------------------------------------
\* on(): reply() and replyOnce(), or networkError() and timeout().
On(once, fails) ==
  /\ registered < MaxHandlers /\ ~(once /\ fails)
  /\ registered' = registered + 1
  /\ handlers' = Append(handlers, [id |-> registered + 1, once |-> once, fails |-> fails])
  /\ oneTime' = IF once THEN oneTime \cup {registered'} ELSE oneTime
  /\ UNCHANGED <<history, stage, answeredBy, recorderVars>>

\* Mutant of Removed: a one-time handler stays until it has answered.
RemovedLater(i) == handlers

\* A one-time handler is removed before it answers.
Removed(i) == IF handlers[i].once THEN RemoveAt(handlers, i) ELSE handlers

\* The rest of transport(), after its delay: the first handler that matches answers, at
\* once or later; the rejection is a 404 if there is none.
Handle(r) ==
  IF handlers = <<>>
  THEN stage' = [stage EXCEPT ![r] = "rejected"] /\ UNCHANGED <<handlers, answeredBy>>
  ELSE /\ handlers' = Removed(1) /\ answeredBy' = [answeredBy EXCEPT ![r] = Head(handlers).id]
       /\ stage' = [stage EXCEPT ![r] = IF Head(handlers).fails THEN "rejected" ELSE "handled"]

\* The request interceptor of attach() gives the config a _recordingId.
Tag(r) ==
  IF isRecording THEN tagged' = tagged \cup {r} /\ begun' = [begun EXCEPT ![r] = recording]
  ELSE UNCHANGED <<tagged, begun>>

\* That interceptor, and transport() up to delayResponse.
Send(r) ==
  /\ stage[r] = "new" /\ history' = Append(history, r)
  /\ Tag(r)
  /\ \/ stage' = [stage EXCEPT ![r] = "delayed"] /\ UNCHANGED <<handlers, answeredBy>>
     \/ Handle(r)
  /\ UNCHANGED <<registered, oneTime, isRecording, records, recording>>

DelayEnds(r) ==
  /\ stage[r] = "delayed" /\ Handle(r)
  /\ UNCHANGED <<history, registered, oneTime, recorderVars>>

\* Mutant of Captures: whatever is answered during a recording is part of it.
CapturesAll(r) == isRecording

\* captureResponse() of the response interceptor.
Captures(r) == isRecording /\ r \in tagged

\* The handler's reply, after its callback and delay.
Reply(r) ==
  /\ stage[r] = "handled" /\ stage' = [stage EXCEPT ![r] = "replied"]
  /\ records' = IF Captures(r) THEN Append(records, r) ELSE records
  /\ UNCHANGED <<handlers, history, answeredBy, registered, oneTime, isRecording, tagged,
                 recording, begun>>

Reset ==
  /\ handlers' = <<>> /\ history' = <<>>
  /\ UNCHANGED <<stage, answeredBy, registered, oneTime, recorderVars>>

Start ==
  /\ recording < MaxStarts /\ recording' = recording + 1
  /\ isRecording' = TRUE /\ records' = <<>>
  /\ UNCHANGED <<tagged, begun, mockVars>>

Stop == isRecording' = FALSE /\ UNCHANGED <<tagged, records, recording, begun, mockVars>>

Clear ==
  /\ recording < MaxStarts /\ recording' = recording + 1
  /\ records' = <<>> /\ UNCHANGED <<isRecording, tagged, begun, mockVars>>

Next ==
  \/ \E once, fails \in BOOLEAN : On(once, fails)
  \/ \E r \in Requests : Send(r) \/ DelayEnds(r) \/ Reply(r)
  \/ Reset \/ Start \/ Stop \/ Clear

Spec == Init /\ [][Next]_vars

-----------------------------------------------------------------------------
(***************************************************************************)
(* Properties.                                                             *)
(***************************************************************************)
\* A handler of replyOnce() answers one request, however many wait for an answer.  The
\* records hold a request once if it was sent and answered in the recording that still
\* goes on, never twice, and not at all if it was sent while nothing was recorded.
AnsweredOnceRecordedOnce ==
  /\ \A r, s \in Requests : answeredBy[r] = answeredBy[s] /\ answeredBy[r] \in oneTime => r = s
  /\ \A r \in Requests :
       LET times == Cardinality({i \in DOMAIN records : records[i] = r})
       IN  /\ times <= 1
           /\ begun[r] = 0 => times = 0
           /\ isRecording /\ begun[r] = recording /\ stage[r] = "replied" => times = 1
=============================================================================
