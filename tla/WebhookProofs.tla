----------------------------- MODULE WebhookProofs -----------------------------
(***************************************************************************)
(* Proofs about Webhook, for any number of handlers, any deliveries and    *)
(* any sets of consumers: what a handler knows of its delivery at each     *)
(* place (Progress) gives what consumers are called with; that every step  *)
(* moves one handler (Counted) gives the files and descriptors.            *)
(***************************************************************************)
EXTENDS Webhook, FiniteSetTheorems, TLAPS

LogsWanted  == {"ask", "create", "consume_logs"} \cup HoldsFile
TracesDone  == {"logs"} \cup LogsWanted
CompletedAt == {"traces", "consume_traces"} \cup TracesDone
MetricsDone == {"status"} \cup CompletedAt
Places == {"idle", "received", "metrics", "consume_metrics", "status",
           "traces", "consume_traces", "logs", "ask", "create",
           "consume_logs", "panicked"} \cup HoldsFile

\* A consumer was called with what came of a delivery.
OfferedFor(signal, d) == \E o \in offered : o.signal = signal /\ o.of = d

\* The trace of a delivery's run was taken.
Linkable(d) ==
  \E t \in accepted :
    t.signal = "traces" /\ t.event = "workflow_run" /\ t.trace = d.trace

MetricsOffered(d) ==
  "metrics" \in consumers =>
    OfferedFor("metrics", d) \/ (d.event = "workflow_run" /\ ~d.push)

TracesOffered(d) == "traces" \in consumers => OfferedFor("traces", d)

\* What a handler's place says of its delivery.
Progress(k) ==
  /\ pc[k] \notin {"idle", "received"} => req[k].path = Path /\ req[k].signed
  /\ pc[k] \in CompletedAt => req[k].completed
  /\ pc[k] \in MetricsDone => MetricsOffered(req[k])
  /\ pc[k] \in TracesDone => TracesOffered(req[k])
  /\ pc[k] \in TracesDone /\ "traces" \in consumers /\ ~traceErr[k]
       /\ req[k].event = "workflow_run" => Linkable(req[k])
  /\ pc[k] \in LogsWanted /\ linked[k] => Linkable(req[k])

\* The functions of handlers; the counters follow from FilesAccounted.
Shape ==
  /\ consumers \in Configurations
  /\ pc \in [Handlers -> Places]
  /\ req \in [Handlers -> Deliveries \cup {NoRequest}]
  /\ traceErr \in [Handlers -> BOOLEAN] /\ linked \in [Handlers -> BOOLEAN]
  /\ spoiled \in [download : Nat, archive : Nat]
  /\ received \in Nat

\* Everything but h stays, and what was recorded stays recorded.
OnlyMoves(h) ==
  /\ \A k \in Handlers \ {h} :
       /\ pc'[k] = pc[k] /\ req'[k] = req[k]
       /\ traceErr'[k] = traceErr[k] /\ linked'[k] = linked[k]
  /\ offered \subseteq offered' /\ accepted \subseteq accepted'
  /\ consumers' = consumers

\* A step of handler h.
Acts(h) ==
  \/ \E d \in Deliveries : Receive(h, d)
  \/ Local(h)
  \/ \E ok \in BOOLEAN : AskGitHub(h, ok) \/ Download(h, ok)
-------------------------------------------------------------------------------
\* The variables of handlers keep their types.
LEMMA ShapeStep == Shape /\ [Next]_vars => Shape'
<1> SUFFICES ASSUME Shape, [Next]_vars PROVE Shape'
  OBVIOUS
<1> USE DEF Shape, Places, HoldsFile, Goto, Step, Answer, LoseLogs, Finish, Offer, resources, consumed, given
<1>1. CASE UNCHANGED vars
  BY <1>1 DEF vars
<1>2. ASSUME NEW h \in Handlers, Acts(h) PROVE Shape'
  <2>1. ASSUME NEW d \in Deliveries, Receive(h, d) PROVE Shape'
    BY <2>1 DEF Receive
  <2>2. CASE NotFound(h) \/ BadRequest(h) \/ Unsupported(h)
    BY <2>2 DEF NotFound, BadRequest, Unsupported
  <2>3. CASE Recover(h) \/ NotCompleted(h) \/ NoLogs(h)
    BY <2>3 DEF Recover, NotCompleted, NoLogs
  <2>10. CASE Dispatch(h) \/ Completed(h)
    BY <2>10 DEF Dispatch, Completed
  <2>11. CASE ConvertMetrics(h)
    BY <2>11 DEF ConvertMetrics
  <2>12. CASE ConvertTraces(h)
    BY <2>12 DEF ConvertTraces
  <2>4. CASE FetchLogs(h)
    BY <2>4 DEF FetchLogs, LinksTrace
  <2>5. CASE ConvertLogs(h)
    BY <2>5 DEF ConvertLogs
  <2>6. ASSUME NEW ok \in BOOLEAN, ConsumeMetrics(h, ok) \/ ConsumeTraces(h, ok) \/ ConsumeLogs(h, ok)
        PROVE Shape'
    <3>1. CASE ConsumeMetrics(h, ok)
      BY <3>1 DEF ConsumeMetrics
    <3>2. CASE ConsumeTraces(h, ok)
      BY <3>2 DEF ConsumeTraces
    <3>3. CASE ConsumeLogs(h, ok)
      BY <3>3 DEF ConsumeLogs
    <3> QED
      BY <2>6, <3>1, <3>2, <3>3
  <2>7. ASSUME NEW ok \in BOOLEAN, CreateTemp(h, ok) \/ AskGitHub(h, ok) PROVE Shape'
    BY <2>7 DEF CreateTemp, AskGitHub
  <2>8. ASSUME NEW ok \in BOOLEAN, OpenArchive(h, ok) PROVE Shape'
    <3>1. spoiled' \in [download : Nat, archive : Nat]
      <4>1. spoiled' = spoiled \/ spoiled' = [spoiled EXCEPT !.archive = @ + 1]
        BY <2>8 DEF OpenArchive
      <4> QED
        BY <4>1
    <3>2. pc' \in [Handlers -> Places]
      BY <2>8 DEF OpenArchive
    <3> QED
      BY <2>8, <3>1, <3>2 DEF OpenArchive
  <2>9. ASSUME NEW ok \in BOOLEAN, Download(h, ok) PROVE Shape'
    <3>1. spoiled' \in [download : Nat, archive : Nat]
      <4>1. spoiled' = spoiled \/ spoiled' = [spoiled EXCEPT !.download = @ + 1]
        BY <2>9 DEF Download
      <4> QED
        BY <4>1
    <3>2. pc' \in [Handlers -> Places]
      BY <2>9 DEF Download
    <3> QED
      BY <2>9, <3>1, <3>2 DEF Download
  <2> QED
    BY <1>2, <2>1, <2>2, <2>3, <2>4, <2>5, <2>6, <2>7, <2>8, <2>9, <2>10, <2>11, <2>12
    DEF Acts, Local
<1> QED
  BY <1>1, <1>2 DEF Next, Idle, Acts

\* A step of one handler leaves the others where they are.
LEMMA OneMoves ==
  ASSUME Shape, NEW h \in Handlers, Acts(h)
  PROVE  OnlyMoves(h)
<1> USE DEF Shape, Goto, Step, Answer, LoseLogs, Finish, Offer, consumed, given, OnlyMoves
<1>1. ASSUME NEW d \in Deliveries, Receive(h, d) PROVE OnlyMoves(h)
  BY <1>1 DEF Receive
<1>2. CASE NotFound(h) \/ BadRequest(h) \/ Unsupported(h) \/ Recover(h) \/ NotCompleted(h) \/ NoLogs(h)
  BY <1>2 DEF NotFound, BadRequest, Unsupported, Recover, NotCompleted, NoLogs
<1>3. CASE Dispatch(h) \/ ConvertMetrics(h) \/ Completed(h) \/ ConvertTraces(h)
  BY <1>3 DEF Dispatch, ConvertMetrics, Completed, ConvertTraces
<1>4. CASE FetchLogs(h) \/ ConvertLogs(h)
  BY <1>4 DEF FetchLogs, ConvertLogs
<1>5. ASSUME NEW ok \in BOOLEAN, ConsumeMetrics(h, ok) \/ ConsumeTraces(h, ok) \/ ConsumeLogs(h, ok)
      PROVE OnlyMoves(h)
  BY <1>5 DEF ConsumeMetrics, ConsumeTraces, ConsumeLogs
<1>6. ASSUME NEW ok \in BOOLEAN, CreateTemp(h, ok) \/ AskGitHub(h, ok) PROVE OnlyMoves(h)
  BY <1>6 DEF CreateTemp, AskGitHub
<1>7. ASSUME NEW ok \in BOOLEAN, OpenArchive(h, ok) \/ Download(h, ok) PROVE OnlyMoves(h)
  BY <1>7 DEF OpenArchive, Download
<1> QED
  BY <1>1, <1>2, <1>3, <1>4, <1>5, <1>6, <1>7 DEF Acts, Local

\* What is known of a delivery stays known.
LEMMA KnowledgeStays ==
  ASSUME NEW h \in Handlers, OnlyMoves(h), NEW d
  PROVE  /\ MetricsOffered(d) => MetricsOffered(d)'
         /\ TracesOffered(d) => TracesOffered(d)'
         /\ Linkable(d) => Linkable(d)'
<1>1. ASSUME NEW signal, OfferedFor(signal, d) PROVE OfferedFor(signal, d)'
  BY <1>1 DEF OfferedFor, OnlyMoves
<1> QED
  BY <1>1 DEF MetricsOffered, TracesOffered, Linkable, OnlyMoves

\* The places of the other handlers keep what they say.
LEMMA OthersProgress ==
  ASSUME Shape, NEW h \in Handlers, OnlyMoves(h), NEW k \in Handlers \ {h}, Progress(k)
  PROVE  Progress(k)'
<1> DEFINE d == req[k]
<1>1. /\ pc'[k] = pc[k] /\ req'[k] = d /\ traceErr'[k] = traceErr[k]
      /\ linked'[k] = linked[k] /\ consumers' = consumers
  BY DEF OnlyMoves
<1>2. /\ MetricsOffered(d) => MetricsOffered(req[k])'
      /\ TracesOffered(d) => TracesOffered(req[k])'
      /\ Linkable(d) => Linkable(req[k])'
  BY KnowledgeStays, <1>1 DEF MetricsOffered, TracesOffered, Linkable, OfferedFor
<1> QED
  BY <1>1, <1>2 DEF Progress

\* A step that only moves a handler keeps what is known of its delivery.
LEMMA Moving ==
  ASSUME NEW h \in Handlers, NEW place, Shape, Step(h, place)
  PROVE  /\ pc'[h] = place /\ req' = req /\ traceErr' = traceErr /\ linked' = linked
         /\ MetricsOffered(req[h])' <=> MetricsOffered(req[h])
         /\ TracesOffered(req[h])' <=> TracesOffered(req[h])
         /\ Linkable(req[h])' <=> Linkable(req[h])
  BY DEF Shape, Step, Goto, consumed, given, MetricsOffered, TracesOffered, Linkable, OfferedFor

\* A handler that has finished says nothing of a delivery.
LEMMA Finished ==
  ASSUME NEW h \in Handlers, NEW status, NEW lost, Shape, Finish(h, status, lost)
  PROVE  Progress(h)'
  BY DEF Shape, Finish, Goto, Progress, CompletedAt, MetricsDone, TracesDone, LogsWanted, HoldsFile

\* The places before the consumers.
LEMMA EarlyProgress ==
  ASSUME Shape, NEW h \in Handlers, Progress(h),
         \/ \E d \in Deliveries : Receive(h, d)
         \/ Dispatch(h) \/ ConvertMetrics(h) \/ Completed(h) \/ ConvertTraces(h)
  PROVE  Progress(h)'
<1> USE DEF CompletedAt, MetricsDone, TracesDone, LogsWanted, HoldsFile
<1>1. ASSUME NEW d \in Deliveries, Receive(h, d) PROVE Progress(h)'
  BY <1>1 DEF Receive, Goto, Shape, Progress
<1>2. CASE Dispatch(h)
  <2> DEFINE place == IF WantsMetrics(req[h]) THEN "metrics" ELSE "status"
  <2>1. Step(h, place)
    BY <1>2 DEF Dispatch
  <2>2. /\ pc'[h] = place /\ req' = req /\ req[h].path = Path /\ req[h].signed
        /\ req[h].event \in Kinds /\ MetricsOffered(req[h])' <=> MetricsOffered(req[h])
    BY <1>2, <2>1, Moving DEF Dispatch, Validated
  <2>3. ~WantsMetrics(req[h]) => MetricsOffered(req[h])
    BY DEF WantsMetrics, MetricsOffered
  <2> QED
    BY <2>2, <2>3 DEF Progress
<1>3. CASE ConvertMetrics(h)
  <2>1. /\ pc'[h] \in {"consume_metrics", "panicked"} /\ req' = req
        /\ pc[h] = "metrics"
    BY <1>3, Moving DEF ConvertMetrics
  <2> QED
    BY <2>1 DEF Progress
<1>4. CASE Completed(h)
  <2> DEFINE place == IF "traces" \in consumers THEN "traces" ELSE "logs"
  <2>1. /\ Step(h, place) /\ pc[h] = "status" /\ req[h].completed
    BY <1>4 DEF Completed
  <2>2. /\ pc'[h] = place /\ req' = req /\ consumers' = consumers
        /\ MetricsOffered(req[h])' <=> MetricsOffered(req[h])
    BY <2>1, Moving DEF Step, given
  <2>3. pc'[h] = "logs" => ~("traces" \in consumers')
    BY <2>2
  <2>4. pc'[h] \in TracesDone => TracesOffered(req[h])'
    BY <2>2, <2>3 DEF TracesOffered
  <2> QED
    BY <2>1, <2>2, <2>3, <2>4 DEF Progress
<1>5. CASE ConvertTraces(h)
  <2>1. /\ pc'[h] \in {"consume_traces", "panicked"} /\ req' = req
        /\ MetricsOffered(req[h])' <=> MetricsOffered(req[h])
        /\ pc[h] = "traces"
    BY <1>5, Moving DEF ConvertTraces
  <2> QED
    BY <2>1 DEF Progress
<1> QED
  BY <1>1, <1>2, <1>3, <1>4, <1>5

\* The calls of the metrics and traces consumers.
LEMMA OfferProgress ==
  ASSUME Shape, NEW h \in Handlers, Progress(h), NEW ok \in BOOLEAN,
         ConsumeMetrics(h, ok) \/ ConsumeTraces(h, ok)
  PROVE  Progress(h)'
<1> USE DEF CompletedAt, MetricsDone, TracesDone, LogsWanted, HoldsFile
<1>1. CASE ConsumeMetrics(h, ok)
  <2>1. /\ pc[h] = "consume_metrics" /\ pc'[h] = "status" /\ req' = req
        /\ Data("metrics", h) \in offered'
    BY <1>1 DEF ConsumeMetrics, Goto, Offer, Shape
  <2>2. OfferedFor("metrics", req[h])'
    BY <2>1 DEF OfferedFor, Data
  <2>3. MetricsOffered(req[h])'
    BY <2>2 DEF MetricsOffered
  <2> QED
    BY <2>1, <2>3 DEF Progress
<1>2. CASE ConsumeTraces(h, ok)
  <2>1. /\ pc[h] = "consume_traces" /\ pc'[h] = "logs" /\ req' = req /\ traceErr'[h] = ~ok
        /\ Data("traces", h) \in offered' /\ (ok => Data("traces", h) \in accepted')
        /\ consumers' = consumers /\ offered \subseteq offered'
    BY <1>2 DEF ConsumeTraces, Goto, Offer, Shape, given
  <2>2. OfferedFor("traces", req[h])'
    BY <2>1 DEF OfferedFor, Data
  <2>3. ~traceErr'[h] /\ req[h].event = "workflow_run" => Linkable(req[h])'
    BY <2>1 DEF Linkable, Data
  <2>4. MetricsOffered(req[h]) => MetricsOffered(req[h])'
    BY <2>1 DEF MetricsOffered, OfferedFor
  <2> QED
    BY <2>1, <2>2, <2>3, <2>4 DEF Progress, TracesOffered
<1> QED
  BY <1>1, <1>2

\* The steps of eventToLogs.
LEMMA LogsProgress ==
  ASSUME Shape, NEW h \in Handlers, Progress(h),
         \/ FetchLogs(h) \/ ConvertLogs(h)
         \/ \E ok \in BOOLEAN :
              CreateTemp(h, ok) \/ OpenArchive(h, ok) \/ AskGitHub(h, ok) \/ Download(h, ok)
  PROVE  Progress(h)'
<1> USE DEF CompletedAt, MetricsDone, TracesDone, LogsWanted, HoldsFile
<1>1. CASE pc'[h] = "idle"
  BY <1>1 DEF Progress
<1>2. CASE pc'[h] # "idle"
  <2>1. /\ pc[h] \in TracesDone /\ pc'[h] \in LogsWanted \cup {"panicked"}
        /\ req' = req /\ traceErr' = traceErr /\ consumers' = consumers
        /\ offered' = offered /\ accepted' = accepted
        /\ \/ pc[h] \in LogsWanted /\ linked'[h] = linked[h]
           \/ HasLogs(req[h]) /\ linked'[h] = LinksTrace(h)
    BY <1>2 DEF Shape, FetchLogs, ConvertLogs, CreateTemp, OpenArchive, AskGitHub, Download,
                Step, Answer, LoseLogs, Finish, Goto, consumed, given, resources
  <2>2. /\ MetricsOffered(req[h])' <=> MetricsOffered(req[h])
        /\ TracesOffered(req[h])' <=> TracesOffered(req[h])
        /\ Linkable(req[h])' <=> Linkable(req[h])
    BY <2>1 DEF MetricsOffered, TracesOffered, Linkable, OfferedFor
  <2>3. linked'[h] => Linkable(req[h])
    BY <2>1 DEF Progress, LinksTrace, HasLogs
  <2> QED
    BY <2>1, <2>2, <2>3 DEF Progress
<1> QED
  BY <1>1, <1>2

\* Every step keeps what places say.
LEMMA ProgressStep ==
  ASSUME Shape, \A k \in Handlers : Progress(k), [Next]_vars
  PROVE  \A k \in Handlers : Progress(k)'
<1>1. CASE UNCHANGED vars
  BY <1>1 DEF vars, consumed, given, Progress, MetricsOffered, TracesOffered, OfferedFor, Linkable
<1>2. ASSUME NEW h \in Handlers, Acts(h) PROVE \A k \in Handlers : Progress(k)'
  <2>1. \A k \in Handlers \ {h} : Progress(k)'
    BY <1>2, OneMoves, OthersProgress
  <2>2. Progress(h)'
    <3>1. CASE \E status, lost : Finish(h, status, lost)
      BY <3>1, Finished
    <3>2. CASE NotFound(h) \/ BadRequest(h) \/ Unsupported(h) \/ Recover(h) \/ NotCompleted(h) \/ NoLogs(h)
      BY <3>2, <3>1 DEF NotFound, BadRequest, Unsupported, Recover, NotCompleted, NoLogs, Answer
    <3>3. CASE \E ok \in BOOLEAN : ConsumeLogs(h, ok)
      BY <3>3, <3>1 DEF ConsumeLogs
    <3>4. CASE \/ \E d \in Deliveries : Receive(h, d)
               \/ Dispatch(h) \/ ConvertMetrics(h) \/ Completed(h) \/ ConvertTraces(h)
      BY <3>4, EarlyProgress
    <3>5. CASE \E ok \in BOOLEAN : ConsumeMetrics(h, ok) \/ ConsumeTraces(h, ok)
      BY <3>5, OfferProgress
    <3>6. CASE \/ FetchLogs(h) \/ ConvertLogs(h)
               \/ \E ok \in BOOLEAN :
                    CreateTemp(h, ok) \/ OpenArchive(h, ok) \/ AskGitHub(h, ok) \/ Download(h, ok)
      BY <3>6, LogsProgress
    <3> QED
      BY <1>2, <3>2, <3>3, <3>4, <3>5, <3>6 DEF Acts, Local
  <2> QED
    BY <2>1, <2>2
<1> QED
  BY <1>1, <1>2 DEF Next, Idle, Acts
-------------------------------------------------------------------------------
SafeInv == Shape /\ \A k \in Handlers : Progress(k)

LEMMA SafeInit == Init => SafeInv
<1> SUFFICES ASSUME Init PROVE SafeInv
  OBVIOUS
<1>1. Shape
  BY WebhookAssumption DEF Init, Shape, Places, NoRequest
<1>2. \A k \in Handlers : pc[k] = "idle"
  BY DEF Init
<1> QED
  BY <1>1, <1>2 DEF SafeInv, Progress, CompletedAt, MetricsDone, TracesDone, LogsWanted, HoldsFile

LEMMA SafeAlways == Spec => []SafeInv
<1>1. SafeInv /\ [Next]_vars => SafeInv'
  BY ShapeStep, ProgressStep DEF SafeInv
<1> QED
  BY SafeInit, <1>1, PTL DEF Spec

\* A handler calls the consumer of its place.
Calls(h, d) ==
  \/ pc[h] = "consume_metrics" /\ d = Data("metrics", h)
  \/ pc[h] = "consume_traces" /\ d = Data("traces", h)
  \/ pc[h] = "consume_logs" /\ d = Data("logs", h)

LEMMA OfferedByHandlers ==
  ASSUME Next
  PROVE  /\ \A d \in offered' : d \in offered \/ (\E h \in Handlers : Calls(h, d))
         /\ accepted \subseteq accepted' /\ offered \subseteq offered' /\ consumers' = consumers
<1> USE DEF Step, Answer, LoseLogs, Finish, Offer, consumed, given
<1>1. CASE Idle
  BY <1>1 DEF Idle, vars
<1>2. ASSUME NEW h \in Handlers, Acts(h)
      PROVE  /\ \A d \in offered' : d \in offered \/ Calls(h, d)
             /\ accepted \subseteq accepted' /\ offered \subseteq offered' /\ consumers' = consumers
  <2>1. CASE \E d \in Deliveries : Receive(h, d)
    BY <2>1 DEF Receive
  <2>2. CASE NotFound(h) \/ BadRequest(h) \/ Unsupported(h) \/ Recover(h) \/ NotCompleted(h) \/ NoLogs(h)
    BY <2>2 DEF NotFound, BadRequest, Unsupported, Recover, NotCompleted, NoLogs
  <2>3. CASE Dispatch(h) \/ ConvertMetrics(h) \/ Completed(h) \/ ConvertTraces(h)
    BY <2>3 DEF Dispatch, ConvertMetrics, Completed, ConvertTraces
  <2>4. CASE FetchLogs(h) \/ ConvertLogs(h)
    BY <2>4 DEF FetchLogs, ConvertLogs
  <2>5. ASSUME NEW ok \in BOOLEAN, ConsumeMetrics(h, ok) \/ ConsumeTraces(h, ok) \/ ConsumeLogs(h, ok)
        PROVE  /\ \A d \in offered' : d \in offered \/ Calls(h, d)
               /\ accepted \subseteq accepted' /\ offered \subseteq offered' /\ consumers' = consumers
    BY <2>5 DEF ConsumeMetrics, ConsumeTraces, ConsumeLogs, Calls
  <2>6. CASE \E ok \in BOOLEAN :
               CreateTemp(h, ok) \/ OpenArchive(h, ok) \/ AskGitHub(h, ok) \/ Download(h, ok)
    BY <2>6 DEF CreateTemp, OpenArchive, AskGitHub, Download
  <2> QED
    BY <1>2, <2>1, <2>2, <2>3, <2>4, <2>5, <2>6 DEF Acts, Local
<1> QED
  BY <1>1, <1>2 DEF Next, Acts

\* Consumers are called only with what came in on the configured path with the
\* secret's signature, and with completed runs and jobs for traces and logs.
THEOREM NothingUnvalidated == Spec => []OnlyValidatedOffered
<1>1. Init => OnlyValidatedOffered
  BY DEF Init, OnlyValidatedOffered
<1>2. SafeInv /\ OnlyValidatedOffered /\ [Next]_vars => OnlyValidatedOffered'
  <2> SUFFICES ASSUME SafeInv, OnlyValidatedOffered, [Next]_vars PROVE OnlyValidatedOffered'
    OBVIOUS
  <2>1. CASE UNCHANGED vars
    BY <2>1 DEF vars, consumed, OnlyValidatedOffered
  <2>2. CASE Next
    <3>1. ASSUME NEW d \in offered', NEW h \in Handlers, Calls(h, d)
          PROVE  d.of.path = Path /\ d.of.signed /\ (d.signal # "metrics" => d.of.completed)
      <4>1. /\ d.of = req[h] /\ pc[h] \in {"consume_metrics", "consume_traces", "consume_logs"}
            /\ d.signal # "metrics" => pc[h] \in CompletedAt
        BY <3>1 DEF Calls, Data, CompletedAt, TracesDone, LogsWanted
      <4> QED
        BY <4>1 DEF SafeInv, Progress
    <3> QED
      BY <2>2, <3>1, OfferedByHandlers DEF OnlyValidatedOffered
  <2> QED
    BY <2>1, <2>2
<1> QED
  BY <1>1, <1>2, SafeAlways, PTL DEF Spec

\* Logs carry trace and span IDs only if the root span of their run's attempt
\* was taken by the traces consumer before.
THEOREM LinksResolve == Spec => []LogsLinkDeliveredTraces
<1>1. Init => LogsLinkDeliveredTraces
  BY DEF Init, LogsLinkDeliveredTraces
<1>2. SafeInv /\ LogsLinkDeliveredTraces /\ [Next]_vars => LogsLinkDeliveredTraces'
  <2> SUFFICES ASSUME SafeInv, LogsLinkDeliveredTraces, [Next]_vars
               PROVE  LogsLinkDeliveredTraces'
    OBVIOUS
  <2>1. CASE UNCHANGED vars
    BY <2>1 DEF vars, consumed, LogsLinkDeliveredTraces
  <2>2. CASE Next
    <3>1. ASSUME NEW d \in offered', d.signal = "logs", d.linked
          PROVE  \E t \in accepted : t.signal = "traces" /\ t.event = "workflow_run" /\ t.trace = d.trace
      <4>1. CASE d \in offered
        BY <4>1, <3>1 DEF LogsLinkDeliveredTraces
      <4>2. ASSUME NEW h \in Handlers, Calls(h, d)
            PROVE  \E t \in accepted : t.signal = "traces" /\ t.event = "workflow_run" /\ t.trace = d.trace
        <5>1. d = Data("logs", h) /\ pc[h] \in LogsWanted
          BY <4>2, <3>1 DEF Calls, Data, LogsWanted
        <5>2. d.trace = req[h].trace
          BY <5>1 DEF Data
        <5>3. d.linked = linked[h]
          BY <5>1, Zenon DEF Data
        <5> QED
          BY <5>1, <5>2, <5>3, <3>1 DEF SafeInv, Progress, Linkable
      <4> QED
        BY <2>2, <4>1, <4>2, OfferedByHandlers
    <3> QED
      BY <2>2, <3>1, OfferedByHandlers DEF LogsLinkDeliveredTraces
  <2> QED
    BY <2>1, <2>2
<1> QED
  BY <1>1, <1>2, SafeAlways, PTL DEF Spec

\* What a handler that answers 202 did before, and in this very step.
LEMMA AnsweredByHandlers ==
  ASSUME Next, NEW a \in answers', a \notin answers, a.status = 202
  PROVE  \E h \in Handlers :
           /\ a.to = req[h] /\ pc[h] \in TracesDone
           /\ a.lost \/ ~HasLogs(req[h]) \/ Data("logs", h) \in offered'
<1> USE DEF Step, Answer, LoseLogs, Finish, given
<1> DEFINE By(h) == /\ a.to = req[h] /\ pc[h] \in TracesDone
                    /\ a.lost \/ ~HasLogs(req[h]) \/ Data("logs", h) \in offered'
<1>1. CASE Idle
  BY <1>1 DEF Idle, vars
<1>2. ASSUME NEW h \in Handlers, Acts(h) PROVE By(h)
  <2> USE DEF TracesDone, LogsWanted, HoldsFile
  <2>1. CASE \E d \in Deliveries : Receive(h, d)
    BY <2>1 DEF Receive
  <2>2. CASE NotFound(h) \/ BadRequest(h) \/ Unsupported(h) \/ Recover(h) \/ NotCompleted(h)
    BY <2>2 DEF NotFound, BadRequest, Unsupported, Recover, NotCompleted
  <2>3. CASE Dispatch(h) \/ ConvertMetrics(h) \/ Completed(h) \/ ConvertTraces(h)
    BY <2>3 DEF Dispatch, ConvertMetrics, Completed, ConvertTraces
  <2>4. CASE FetchLogs(h) \/ ConvertLogs(h) \/ NoLogs(h)
    BY <2>4 DEF FetchLogs, ConvertLogs, NoLogs
  <2>5. CASE \E ok \in BOOLEAN : ConsumeMetrics(h, ok) \/ ConsumeTraces(h, ok)
    BY <2>5 DEF ConsumeMetrics, ConsumeTraces
  <2>6. CASE \E ok \in BOOLEAN : ConsumeLogs(h, ok)
    BY <2>6 DEF ConsumeLogs, Offer
  <2>7. CASE \E ok \in BOOLEAN :
               CreateTemp(h, ok) \/ OpenArchive(h, ok) \/ AskGitHub(h, ok) \/ Download(h, ok)
    BY <2>7 DEF CreateTemp, OpenArchive, AskGitHub, Download
  <2> QED
    BY <1>2, <2>1, <2>2, <2>3, <2>4, <2>5, <2>6, <2>7 DEF Acts, Local
<1> QED
  BY <1>1, <1>2 DEF Next, Acts

\* The answer 202 means that every consumer was called that the event concerns,
\* but for logs that could not be fetched: their URL, the temporary file, the
\* download or the archive failed.
THEOREM AcceptedIsOffered == Spec => []AcceptedMeansOffered
<1> DEFINE LogsOffered(a) ==
             "logs" \in consumers =>
               OfferedFor("logs", a.to) \/ a.to.event # "workflow_run" \/ a.lost
           Called(a) == MetricsOffered(a.to) /\ TracesOffered(a.to) /\ LogsOffered(a)
           Inv == \A a \in answers : a.status = 202 => Called(a)
<1>1. Init => Inv
  BY DEF Init
<1>2. SafeInv /\ Inv /\ [Next]_vars => Inv'
  <2> SUFFICES ASSUME SafeInv, Inv, [Next]_vars, NEW a \in answers', a.status = 202
               PROVE  Called(a)'
    OBVIOUS
  <2>1. CASE UNCHANGED vars
    BY <2>1 DEF vars, consumed, given, MetricsOffered, TracesOffered, OfferedFor
  <2>2. CASE Next
    <3>1. offered \subseteq offered' /\ consumers' = consumers
      BY <2>2, OfferedByHandlers
    <3>2. ASSUME a \in answers PROVE Called(a)'
      BY <3>1, <3>2 DEF MetricsOffered, TracesOffered, OfferedFor
    <3>3. ASSUME NEW h \in Handlers, a.to = req[h], pc[h] \in TracesDone,
                 a.lost \/ ~HasLogs(req[h]) \/ Data("logs", h) \in offered'
          PROVE  Called(a)'
      <4>1. MetricsOffered(a.to) /\ TracesOffered(a.to)
        BY <3>3 DEF SafeInv, Progress, MetricsDone, CompletedAt, TracesDone, LogsWanted
      <4>2. LogsOffered(a)'
        <5>1. CASE a.lost \/ ~HasLogs(req[h])
          BY <3>1, <3>3, <5>1 DEF HasLogs
        <5>2. CASE Data("logs", h) \in offered'
          BY <3>3, <5>2 DEF OfferedFor, Data
        <5> QED
          BY <3>3, <5>1, <5>2
      <4> QED
        BY <3>1, <4>1, <4>2 DEF MetricsOffered, TracesOffered, OfferedFor
    <3> QED
      BY <2>2, <3>2, <3>3, AnsweredByHandlers
  <2> QED
    BY <2>1, <2>2
<1>3. SafeInv /\ Inv => AcceptedMeansOffered
  <2> SUFFICES ASSUME SafeInv, Inv, NEW a \in answers, a.status = 202, NEW signal \in consumers,
                      ~NothingFor(signal, a)
               PROVE  \E d \in offered : d.signal = signal /\ d.of = a.to
    BY DEF AcceptedMeansOffered
  <2>1. Called(a)
    OBVIOUS
  <2>2. signal \in Signals
    BY WebhookAssumption DEF SafeInv, Shape
  <2> QED
    BY <2>1, <2>2 DEF Signals, NothingFor, MetricsOffered, TracesOffered, OfferedFor
<1> HIDE DEF Inv
<1> QED
  BY <1>1, <1>2, <1>3, SafeAlways, PTL DEF Spec
-------------------------------------------------------------------------------
\* The handlers at a place, when one moves.
LEMMA Counted ==
  ASSUME Shape, NEW h \in Handlers, NEW from, NEW to, from # to,
         pc[h] = from, pc' = [pc EXCEPT ![h] = to]
  PROVE  \A place :
           /\ At(place) \in Nat
           /\ At(place)' = IF place = to THEN At(place) + 1
                           ELSE IF place = from THEN At(place) - 1 ELSE At(place)
<1> SUFFICES ASSUME NEW place
             PROVE  /\ At(place) \in Nat
                    /\ At(place)' = IF place = to THEN At(place) + 1
                                    ELSE IF place = from THEN At(place) - 1 ELSE At(place)
  OBVIOUS
<1> DEFINE S == {k \in Handlers : pc[k] = place}
           T == {k \in Handlers : pc'[k] = place}
<1>1. IsFiniteSet(S) /\ IsFiniteSet(T) /\ Cardinality(S) \in Nat
  BY WebhookAssumption, FS_Subset, FS_CardinalityType
<1>2. At(place) = Cardinality(S) /\ At(place)' = Cardinality(T)
  BY DEF At
<1>3. pc \in [Handlers -> Places]
  BY DEF Shape
<1>4. CASE place = to
  <2>1. T = S \cup {h} /\ h \notin S
    BY <1>3, <1>4
  <2> HIDE DEF S, T
  <2> QED
    BY <1>1, <1>2, <1>4, <2>1, FS_AddElement
<1>5. CASE place = from
  <2>1. T = S \ {h} /\ h \in S
    BY <1>3, <1>5
  <2> HIDE DEF S, T
  <2> QED
    BY <1>1, <1>2, <1>5, <2>1, FS_RemoveElement
<1>6. CASE place # from /\ place # to
  <2>1. T = S
    BY <1>3, <1>6
  <2> HIDE DEF S, T
  <2> QED
    BY <1>1, <1>2, <1>6, <2>1
<1> QED
  BY <1>4, <1>5, <1>6

\* Steps that touch neither files nor descriptors.
LEMMA WithoutFiles ==
  ASSUME Shape, NEW h \in Handlers,
         \/ \E d \in Deliveries : Receive(h, d)
         \/ NotFound(h) \/ BadRequest(h) \/ Unsupported(h) \/ Dispatch(h)
         \/ ConvertMetrics(h) \/ NotCompleted(h) \/ Completed(h) \/ ConvertTraces(h)
         \/ NoLogs(h) \/ FetchLogs(h) \/ Recover(h)
         \/ \E ok \in BOOLEAN :
              ConsumeMetrics(h, ok) \/ ConsumeTraces(h, ok) \/ ConsumeLogs(h, ok) \/ AskGitHub(h, ok)
  PROVE  \E from, to :
           /\ {from, to} \cap HoldsFile = {} /\ from # to
           /\ pc[h] = from /\ pc' = [pc EXCEPT ![h] = to]
           /\ UNCHANGED resources
<1> USE DEF Step, Answer, LoseLogs, Finish, Goto, HoldsFile, resources
<1>1. CASE \E d \in Deliveries : Receive(h, d)
  <2>1. pc[h] = "idle" /\ pc' = [pc EXCEPT ![h] = "received"] /\ UNCHANGED resources
    BY <1>1 DEF Receive
  <2> QED
    BY <2>1
<1>2. CASE NotFound(h) \/ BadRequest(h) \/ Unsupported(h)
  BY <1>2 DEF NotFound, BadRequest, Unsupported
<1>3. CASE Recover(h) \/ NotCompleted(h) \/ NoLogs(h) \/ FetchLogs(h)
  BY <1>3 DEF Recover, NotCompleted, NoLogs, FetchLogs
<1>4. CASE Dispatch(h) \/ ConvertMetrics(h)
  BY <1>4 DEF Dispatch, ConvertMetrics
<1>5. CASE Completed(h) \/ ConvertTraces(h)
  BY <1>5 DEF Completed, ConvertTraces
<1>6. CASE \E ok \in BOOLEAN : ConsumeMetrics(h, ok) \/ ConsumeTraces(h, ok) \/ ConsumeLogs(h, ok)
  BY <1>6 DEF ConsumeMetrics, ConsumeTraces, ConsumeLogs
<1>7. CASE \E ok \in BOOLEAN : AskGitHub(h, ok)
  BY <1>7 DEF AskGitHub
<1> QED
  BY <1>1, <1>2, <1>3, <1>4, <1>5, <1>6, <1>7

LEMMA FilesStep ==
  ASSUME Shape, FilesAccounted, [Next]_vars
  PROVE  FilesAccounted'
<1> DEFINE Kept(place) == At(place)' = At(place)
           Moved(from, to) ==
             \A place : /\ At(place) \in Nat
                       /\ At(place)' = IF place = to THEN At(place) + 1
                                       ELSE IF place = from THEN At(place) - 1 ELSE At(place)
<1>1. CASE UNCHANGED vars
  BY <1>1 DEF vars, resources, FilesAccounted, At
<1>2. ASSUME NEW h \in Handlers, Acts(h) PROVE FilesAccounted'
  <2>1. ASSUME NEW from, NEW to, from # to, pc[h] = from, pc' = [pc EXCEPT ![h] = to]
        PROVE  Moved(from, to)
    BY <2>1, Counted
  <2>2. spoiled \in [download : Nat, archive : Nat]
    BY DEF Shape
  <2>3. ASSUME NEW from, NEW to, {from, to} \cap HoldsFile = {}, from # to,
               pc[h] = from, pc' = [pc EXCEPT ![h] = to], UNCHANGED resources
        PROVE  FilesAccounted'
    <3>1. Kept("download") /\ Kept("open") /\ Kept("convert_logs")
      BY <2>1, <2>3 DEF HoldsFile
    <3> QED
      BY <3>1, <2>3 DEF FilesAccounted, resources
  <2>4. ASSUME NEW ok \in BOOLEAN, CreateTemp(h, ok) PROVE FilesAccounted'
    <3>1. CASE ok
      <4>1. /\ pc[h] = "create" /\ pc' = [pc EXCEPT ![h] = "download"]
            /\ onDisk' = onDisk + 1 /\ descriptors' = descriptors + 1 /\ spoiled' = spoiled
        BY <2>4, <3>1 DEF CreateTemp, Goto
      <4>2. /\ At("download")' = At("download") + 1 /\ Kept("open") /\ Kept("convert_logs")
            /\ At("download") \in Nat /\ At("open") \in Nat /\ At("convert_logs") \in Nat
        <5>1. Moved("create", "download")
          BY <2>1, <4>1
        <5> QED
          BY <5>1
      <4> QED
        BY <2>2, <4>1, <4>2 DEF FilesAccounted
    <3>2. CASE ~ok
      BY <2>3, <2>4, <3>2 DEF CreateTemp, Answer, LoseLogs, Finish, Goto, HoldsFile
    <3> QED
      BY <3>1, <3>2
  <2>5. ASSUME NEW ok \in BOOLEAN, Download(h, ok) PROVE FilesAccounted'
    <3>1. CASE ok
      <4>1. /\ pc[h] = "download" /\ pc' = [pc EXCEPT ![h] = "open"] /\ UNCHANGED resources
        BY <2>5, <3>1 DEF Download, Step, Goto
      <4>2. /\ At("download")' = At("download") - 1 /\ At("open")' = At("open") + 1
            /\ Kept("convert_logs")
            /\ At("download") \in Nat /\ At("open") \in Nat /\ At("convert_logs") \in Nat
        <5>1. Moved("download", "open")
          BY <2>1, <4>1
        <5> QED
          BY <5>1
      <4> QED
        BY <2>2, <4>1, <4>2 DEF FilesAccounted, resources
    <3>2. CASE ~ok
      <4>1. /\ pc[h] = "download" /\ pc' = [pc EXCEPT ![h] = "idle"]
            /\ onDisk' = onDisk /\ descriptors' = descriptors - 1
            /\ spoiled' = [spoiled EXCEPT !.download = @ + 1]
        BY <2>5, <3>2 DEF Download, LoseLogs, Finish, Goto
      <4>2. /\ At("download")' = At("download") - 1 /\ Kept("open") /\ Kept("convert_logs")
            /\ At("download") \in Nat /\ At("open") \in Nat /\ At("convert_logs") \in Nat
        <5>1. Moved("download", "idle")
          BY <2>1, <4>1
        <5> QED
          BY <5>1
      <4>3. spoiled'.download = spoiled.download + 1 /\ spoiled'.archive = spoiled.archive
        BY <2>2, <4>1
      <4> QED
        BY <2>2, <4>1, <4>2, <4>3 DEF FilesAccounted
    <3> QED
      BY <3>1, <3>2
  <2>6. ASSUME NEW ok \in BOOLEAN, OpenArchive(h, ok) PROVE FilesAccounted'
    <3>1. CASE ok
      <4>1. /\ pc[h] = "open" /\ pc' = [pc EXCEPT ![h] = "convert_logs"]
            /\ onDisk' = onDisk /\ descriptors' = descriptors + 1 /\ spoiled' = spoiled
        BY <2>6, <3>1 DEF OpenArchive, Goto
      <4>2. /\ At("open")' = At("open") - 1 /\ At("convert_logs")' = At("convert_logs") + 1
            /\ Kept("download")
            /\ At("download") \in Nat /\ At("open") \in Nat /\ At("convert_logs") \in Nat
        <5>1. Moved("open", "convert_logs")
          BY <2>1, <4>1
        <5> QED
          BY <5>1
      <4> QED
        BY <2>2, <4>1, <4>2 DEF FilesAccounted
    <3>2. CASE ~ok
      <4>1. /\ pc[h] = "open" /\ pc' = [pc EXCEPT ![h] = "idle"]
            /\ onDisk' = onDisk /\ descriptors' = descriptors
            /\ spoiled' = [spoiled EXCEPT !.archive = @ + 1]
        BY <2>6, <3>2 DEF OpenArchive, LoseLogs, Finish, Goto
      <4>2. /\ At("open")' = At("open") - 1 /\ Kept("download") /\ Kept("convert_logs")
            /\ At("download") \in Nat /\ At("open") \in Nat /\ At("convert_logs") \in Nat
        <5>1. Moved("open", "idle")
          BY <2>1, <4>1
        <5> QED
          BY <5>1
      <4>3. spoiled'.archive = spoiled.archive + 1 /\ spoiled'.download = spoiled.download
        BY <2>2, <4>1
      <4> QED
        BY <2>2, <4>1, <4>2, <4>3 DEF FilesAccounted
    <3> QED
      BY <3>1, <3>2
  <2>7. CASE ConvertLogs(h)
    <3>1. PICK to \in {"consume_logs", "panicked"} :
            /\ pc[h] = "convert_logs" /\ pc' = [pc EXCEPT ![h] = to]
            /\ onDisk' = onDisk - 1 /\ descriptors' = descriptors - 2 /\ spoiled' = spoiled
      BY <2>7 DEF ConvertLogs, Goto, OpenAfterCleanup
    <3>2. /\ At("convert_logs")' = At("convert_logs") - 1 /\ Kept("download") /\ Kept("open")
          /\ At("download") \in Nat /\ At("open") \in Nat /\ At("convert_logs") \in Nat
      <4>1. Moved("convert_logs", to) /\ to \notin HoldsFile
        BY <2>1, <3>1 DEF HoldsFile
      <4> QED
        BY <4>1 DEF HoldsFile
    <3> QED
      BY <2>2, <3>1, <3>2 DEF FilesAccounted
  <2> QED
    BY <1>2, <2>3, <2>4, <2>5, <2>6, <2>7, WithoutFiles DEF Acts, Local
<1> QED
  BY <1>1, <1>2 DEF Next, Idle, Acts

\* The temporary files and descriptors that are left are those of handlers that
\* still work, one file per failed download and a file with its descriptor per
\* archive that could not be opened.
THEOREM FilesStayAccounted == Spec => []FilesAccounted
<1>1. Init => FilesAccounted
  <2> SUFFICES ASSUME Init PROVE FilesAccounted
    OBVIOUS
  <2>1. ASSUME NEW place \in HoldsFile PROVE At(place) = 0
    <3>1. {h \in Handlers : pc[h] = place} = {}
      BY <2>1 DEF Init, HoldsFile
    <3> QED
      BY <3>1, FS_EmptySet DEF At
  <2>2. At("download") = 0 /\ At("open") = 0 /\ At("convert_logs") = 0
    BY <2>1 DEF HoldsFile
  <2> QED
    BY <2>2 DEF Init, FilesAccounted
<1>2. SafeInv /\ FilesAccounted /\ [Next]_vars => FilesAccounted'
  BY FilesStep DEF SafeInv
<1> QED
  BY <1>1, <1>2, SafeAlways, PTL DEF Spec

\* The variables keep their types: files and descriptors never fall below zero.
THEOREM TypeCorrect == Spec => []TypeOK
<1>1. SafeInv /\ FilesAccounted => TypeOK
  <2> SUFFICES ASSUME SafeInv, FilesAccounted PROVE TypeOK
    OBVIOUS
  <2>1. ASSUME NEW place PROVE At(place) \in Nat
    <3>1. IsFiniteSet({h \in Handlers : pc[h] = place})
      BY WebhookAssumption, FS_Subset
    <3> QED
      BY <3>1, FS_CardinalityType DEF At
  <2>2. /\ At("download") \in Nat /\ At("open") \in Nat /\ At("convert_logs") \in Nat
        /\ spoiled.download \in Nat /\ spoiled.archive \in Nat
    BY <2>1 DEF SafeInv, Shape
  <2>3. onDisk \in Nat /\ descriptors \in Nat
    BY <2>2 DEF FilesAccounted
  <2> QED
    BY <2>3 DEF SafeInv, Shape, Places, TypeOK
<1> QED
  BY <1>1, SafeAlways, FilesStayAccounted, PTL
===============================================================================
