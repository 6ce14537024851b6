-------------------------------- MODULE Webhook --------------------------------
(***************************************************************************)
(* githubActionsReceiver.ServeHTTP and what it calls, eventToLogs with its *)
(* temporary file included: one goroutine of net/http per delivery.  What  *)
(* the metrics handler does with a delivery is in MetricsHandler, what the *)
(* files of an archive become in LogEntries, what the identifiers of spans *)
(* are in SpanTree.                                                        *)
(***************************************************************************)
EXTENDS Integers, FiniteSets

CONSTANTS
  Handlers,       \* the goroutines net/http serves deliveries on
  Deliveries,     \* the deliveries that may come in
  Path,           \* config.Path
  Configurations, \* the sets of signals a receiver may be built for
  MaxDeliveries   \* bound: deliveries received

Signals == {"traces", "logs", "metrics"}
Kinds   == {"workflow_job", "workflow_run"}

\* signed: the body can be read and has the signature of the secret, if there is
\* one.  countable: its metrics are not empty (see MetricsHandler).  runnerSplits:
\* the runner is not self-hosted, or its name has an underscore.  repo: the event
\* has a repository.  started: the run has a run_started_at.  trace: its run and
\* attempt.
DeliveryType ==
  [path : STRING, signed : BOOLEAN, event : Kinds \cup {"other", "malformed"},
   completed : BOOLEAN, push : BOOLEAN, countable : BOOLEAN,
   runnerSplits : BOOLEAN, repo : BOOLEAN, started : BOOLEAN, trace : Nat]

ASSUME WebhookAssumption ==
  /\ Configurations \subseteq SUBSET Signals /\ MaxDeliveries \in Nat
  /\ IsFiniteSet(Handlers)

\* TLC only: the records have the fields above.
ASSUME DeliveryAssumption == Deliveries \subseteq DeliveryType

VARIABLES
  consumers,    \* the signals the receiver has a consumer for
  pc,           \* where each handler is
  req,          \* the delivery it serves
  traceErr,     \* its local traceErr
  linked,       \* its local withTraceInfo
  onDisk,       \* gh-logs files in the temporary directory
  descriptors,  \* open descriptors of tmpFile and zipReader
  spoiled,      \* history: downloads and archives that failed
  offered,      \* history: what consumers were called with
  accepted,     \* history: what they took
  answers,      \* history: deliveries, the status they were answered with, and
                \* whether their logs could not be fetched
  received

resources == <<onDisk, descriptors, spoiled>>
consumed  == <<offered, accepted>>
given     == <<consumers, received>>
vars == <<pc, req, traceErr, linked, resources, consumed, answers, given>>
-------------------------------------------------------------------------------
\* Mutant of Validated: the result of ValidatePayload is not looked at.
Unverified(d) == d.event # "malformed"

\* ValidatePayload and ParseWebHook return no error.
Validated(d) == d.signed /\ d.event # "malformed"

WantsMetrics(d) ==
  "metrics" \in consumers /\ (d.event = "workflow_run" => d.push)

\* createResourceAttributes and the conversion to spans do not panic.
Traceable(d) ==
  IF d.event = "workflow_job" THEN d.runnerSplits /\ d.repo ELSE d.started

\* Mutant of HasLogs: the condition on metrics of runs is applied to logs as well.
OnlyPushesHaveLogs(d) == "logs" \in consumers /\ d.event = "workflow_run" /\ d.push

\* Mutant of HasLogs: eventToLogs without its type check.
EveryEventHasLogs(d) == "logs" \in consumers

\* eventToLogs has something to fetch.
HasLogs(d) == "logs" \in consumers /\ d.event = "workflow_run"

\* Mutant of LinksTrace: traceErr is never set.
LinksWheneverTraced(h) == "traces" \in consumers

\* withTraceInfo
LinksTrace(h) == "traces" \in consumers /\ ~traceErr[h]

Data(signal, h) == [signal |-> signal, event |-> req[h].event,
                    trace |-> req[h].trace, linked |-> linked[h], of |-> req[h]]

NoRequest == [event |-> "none"]

Init ==
  /\ consumers \in Configurations
  /\ pc = [h \in Handlers |-> "idle"] /\ req = [h \in Handlers |-> NoRequest]
  /\ traceErr = [h \in Handlers |-> FALSE] /\ linked = [h \in Handlers |-> FALSE]
  /\ onDisk = 0 /\ descriptors = 0 /\ spoiled = [download |-> 0, archive |-> 0]
  /\ offered = {} /\ accepted = {} /\ answers = {} /\ received = 0

Goto(h, place) == pc' = [pc EXCEPT ![h] = place]

\* The handler returns; 0 stands for a connection closed without an answer.
Finish(h, status, lost) ==
  /\ Goto(h, "idle")
  /\ answers' = answers \cup {[to |-> req[h], status |-> status, lost |-> lost]}
  /\ req' = [req EXCEPT ![h] = NoRequest]
  /\ traceErr' = [traceErr EXCEPT ![h] = FALSE]
  /\ linked' = [linked EXCEPT ![h] = FALSE]

Answer(h, status) == Finish(h, status, FALSE) /\ UNCHANGED <<resources, consumed, given>>

\* eventToLogs returns an error: it is logged, and the delivery is answered.
LoseLogs(h) == Finish(h, 202, TRUE) /\ UNCHANGED <<consumed, given>>

Step(h, place) ==
  /\ Goto(h, place)
  /\ UNCHANGED <<req, traceErr, linked, resources, consumed, answers, given>>

\* A consumer is called, and takes what it is given or returns an error.
Offer(h, signal, ok) ==
  /\ offered' = offered \cup {Data(signal, h)}
  /\ accepted' = IF ok THEN accepted \cup {Data(signal, h)} ELSE accepted
-------------------------------------------------------------------------------
Receive(h, d) ==
  /\ pc[h] = "idle" /\ received < MaxDeliveries
  /\ Goto(h, "received") /\ req' = [req EXCEPT ![h] = d]
  /\ received' = received + 1
  /\ UNCHANGED <<consumers, traceErr, linked, resources, consumed, answers>>

NotFound(h) ==
  /\ pc[h] = "received" /\ req[h].path # Path
  /\ Answer(h, 404)

BadRequest(h) ==
  /\ pc[h] = "received" /\ req[h].path = Path /\ ~Validated(req[h])
  /\ Answer(h, 400)

Unsupported(h) ==
  /\ pc[h] = "received" /\ req[h].path = Path /\ Validated(req[h])
  /\ req[h].event \notin Kinds
  /\ Answer(h, 204)

Dispatch(h) ==
  /\ pc[h] = "received" /\ req[h].path = Path /\ Validated(req[h])
  /\ req[h].event \in Kinds
  /\ Step(h, IF WantsMetrics(req[h]) THEN "metrics" ELSE "status")

\* workflow{Job,Run}EventToMetrics
ConvertMetrics(h) ==
  /\ pc[h] = "metrics"
  /\ Step(h, IF req[h].countable THEN "consume_metrics" ELSE "panicked")

ConsumeMetrics(h, ok) ==
  /\ pc[h] = "consume_metrics"
  /\ Goto(h, "status") /\ Offer(h, "metrics", ok)
  /\ UNCHANGED <<req, traceErr, linked, resources, answers, given>>

NotCompleted(h) ==
  /\ pc[h] = "status" /\ ~req[h].completed
  /\ Answer(h, 204)

Completed(h) ==
  /\ pc[h] = "status" /\ req[h].completed
  /\ Step(h, IF "traces" \in consumers THEN "traces" ELSE "logs")

\* eventToTraces
ConvertTraces(h) ==
  /\ pc[h] = "traces"
  /\ Step(h, IF Traceable(req[h]) THEN "consume_traces" ELSE "panicked")

ConsumeTraces(h, ok) ==
  /\ pc[h] = "consume_traces"
  /\ Goto(h, "logs") /\ Offer(h, "traces", ok)
  /\ traceErr' = [traceErr EXCEPT ![h] = ~ok]
  /\ UNCHANGED <<req, linked, resources, answers, given>>

\* No logs consumer, or an event eventToLogs returns nil for.
NoLogs(h) ==
  /\ pc[h] = "logs" /\ ~HasLogs(req[h])
  /\ Answer(h, 202)
-------------------------------------------------------------------------------
\* eventToLogs is called; newReceiver always makes a GitHub client.
FetchLogs(h) ==
  /\ pc[h] = "logs" /\ HasLogs(req[h])
  /\ Goto(h, "ask") /\ linked' = [linked EXCEPT ![h] = LinksTrace(h)]
  /\ UNCHANGED <<req, traceErr, resources, consumed, answers, given>>

\* GetWorkflowRunAttemptLogs
AskGitHub(h, ok) ==
  /\ pc[h] = "ask"
  /\ IF ok THEN Step(h, "create") ELSE LoseLogs(h) /\ UNCHANGED resources

\* os.CreateTemp
CreateTemp(h, ok) ==
  /\ pc[h] = "create"
  /\ IF ok
       THEN /\ Goto(h, "download")
            /\ onDisk' = onDisk + 1 /\ descriptors' = descriptors + 1
            /\ UNCHANGED <<req, traceErr, linked, spoiled, consumed, answers, given>>
       ELSE LoseLogs(h) /\ UNCHANGED resources

\* http.Get and io.Copy; both error paths close the file and leave it.
Download(h, ok) ==
  /\ pc[h] = "download"
  /\ IF ok
       THEN Step(h, "open")
       ELSE /\ LoseLogs(h)
            /\ descriptors' = descriptors - 1 /\ onDisk' = onDisk
            /\ spoiled' = [spoiled EXCEPT !.download = @ + 1]

\* zip.OpenReader, which opens the file again; the error path does not close or
\* remove anything.
OpenArchive(h, ok) ==
  /\ pc[h] = "open"
  /\ IF ok
       THEN /\ Goto(h, "convert_logs") /\ descriptors' = descriptors + 1
            /\ UNCHANGED <<req, traceErr, linked, onDisk, spoiled, consumed, answers, given>>
       ELSE /\ LoseLogs(h)
            /\ spoiled' = [spoiled EXCEPT !.archive = @ + 1]
            /\ UNCHANGED <<onDisk, descriptors>>

\* Mutant of OpenAfterCleanup: the cleanup is not deferred.
ClosedUnlessPanic(h) == IF req[h].started THEN descriptors - 2 ELSE descriptors

\* Mutant of OpenAfterCleanup: a descriptor is closed twice.
ClosedTwice(h) == descriptors - 3

\* The descriptors left once cleanup closed tmpFile and zipReader.
OpenAfterCleanup(h) == descriptors - 2

\* The rest of eventToLogs with its deferred cleanup, which also runs when
\* setWorkflowRunEventAttributes panics.
ConvertLogs(h) ==
  /\ pc[h] = "convert_logs"
  /\ Goto(h, IF req[h].started THEN "consume_logs" ELSE "panicked")
  /\ onDisk' = onDisk - 1 /\ descriptors' = OpenAfterCleanup(h)
  /\ UNCHANGED <<req, traceErr, linked, spoiled, consumed, answers, given>>

ConsumeLogs(h, ok) ==
  /\ pc[h] = "consume_logs"
  /\ Finish(h, 202, FALSE) /\ Offer(h, "logs", ok)
  /\ UNCHANGED <<resources, given>>

\* net/http recovers the panic and closes the connection.
Recover(h) == pc[h] = "panicked" /\ Answer(h, 0)

\* The steps that do not wait for GitHub.
Local(h) ==
  \/ NotFound(h) \/ BadRequest(h) \/ Unsupported(h) \/ Dispatch(h)
  \/ ConvertMetrics(h) \/ NotCompleted(h) \/ Completed(h) \/ ConvertTraces(h)
  \/ NoLogs(h) \/ FetchLogs(h) \/ ConvertLogs(h) \/ Recover(h)
  \/ \E ok \in BOOLEAN :
       \/ ConsumeMetrics(h, ok) \/ ConsumeTraces(h, ok) \/ ConsumeLogs(h, ok)
       \/ CreateTemp(h, ok) \/ OpenArchive(h, ok)

Idle == (\A h \in Handlers : pc[h] = "idle") /\ UNCHANGED vars

Next ==
  \/ Idle
  \/ \E h \in Handlers :
       \/ \E d \in Deliveries : Receive(h, d)
       \/ Local(h)
       \/ \E ok \in BOOLEAN : AskGitHub(h, ok) \/ Download(h, ok)

Spec == Init /\ [][Next]_vars

\* Goroutines run and consumers return; GitHub need not answer, as the requests
\* to it have neither a deadline nor the context of the delivery.
Fairness == \A h \in Handlers : WF_vars(Local(h))

FairSpec == Spec /\ Fairness
-------------------------------------------------------------------------------
HoldsFile == {"download", "open", "convert_logs"}

\* The variables keep their types.
TypeOK ==
  /\ consumers \in Configurations
  /\ pc \in [Handlers -> {"idle", "received", "metrics", "consume_metrics", "status",
                          "traces", "consume_traces", "logs", "ask", "create",
                          "consume_logs", "panicked"} \cup HoldsFile]
  /\ req \in [Handlers -> Deliveries \cup {NoRequest}]
  /\ traceErr \in [Handlers -> BOOLEAN] /\ linked \in [Handlers -> BOOLEAN]
  /\ onDisk \in Nat /\ descriptors \in Nat
  /\ spoiled \in [download : Nat, archive : Nat]
  /\ received \in Nat

\* Logs carry trace and span IDs only if the root span of their run's attempt
\* was taken by the traces consumer before.
LogsLinkDeliveredTraces ==
  \A d \in offered : d.signal = "logs" /\ d.linked =>
    \E t \in accepted :
      t.signal = "traces" /\ t.event = "workflow_run" /\ t.trace = d.trace

\* Consumers are called only with what came in on the configured path with the
\* secret's signature, and with completed runs and jobs for traces and logs.
OnlyValidatedOffered ==
  \A d \in offered :
    /\ d.of.path = Path /\ d.of.signed
    /\ d.signal # "metrics" => d.of.completed

\* The event, or the answer of GitHub, leaves nothing to call a consumer with.
NothingFor(signal, a) ==
  \/ signal = "metrics" /\ a.to.event = "workflow_run" /\ ~a.to.push
  \/ signal = "logs" /\ (a.to.event # "workflow_run" \/ a.lost)

\* The answer 202 means that every consumer was called that the event concerns,
\* but for logs that could not be fetched: their URL, the temporary file, the
\* download or the archive failed.
AcceptedMeansOffered ==
  \A a \in answers : a.status = 202 =>
    \A signal \in consumers :
      \/ \E d \in offered : d.signal = signal /\ d.of = a.to
      \/ NothingFor(signal, a)

\* The handlers at a place.
At(place) == Cardinality({h \in Handlers : pc[h] = place})

\* The temporary files and descriptors that are left are those of handlers that
\* still work, one file per failed download and a file with its descriptor per
\* archive that could not be opened.
FilesAccounted ==
  /\ onDisk = At("download") + At("open") + At("convert_logs")
                + spoiled.download + spoiled.archive
  /\ descriptors = At("download") + At("open") + 2 * At("convert_logs")
                     + spoiled.archive

\* Wherever a handler is, it answers or closes the connection, unless it asks
\* GitHub for a run's logs or downloads them: once GitHub has answered it
\* finishes, and what is not a run never waits for GitHub.
AnsweredUnlessGitHubIsSilent ==
  \A h \in Handlers :
    /\ pc[h] # "idle" ~> pc[h] \in {"idle", "ask", "download"}
    /\ pc[h] \in {"open", "convert_logs", "consume_logs"} ~> pc[h] = "idle"
    /\ pc[h] # "idle" /\ req[h].event # "workflow_run" ~> pc[h] = "idle"

===============================================================================
