------------------------------ MODULE DroneWebhook ------------------------------
(***************************************************************************)
(* droneReceiver.ServeHTTP, handleEvent and generateLogs of                *)
(* receiver/dronereceiver: one goroutine of net/http per webhook.  A build *)
(* becomes a trace and the logs of its steps, which are asked for one step *)
(* after the other before anything is passed on.  Identifiers are random;  *)
(* one is told by the webhook and the stage and step it was drawn for.     *)
(***************************************************************************)
EXTENDS DroneServer, DroneConfig, FiniteSets, SequencesExt

CONSTANTS
  Handlers,     \* the goroutines net/http serves webhooks on
  Strays,       \* what else may come in
  Services,     \* the sets of pipelines the receiver may be part of
  Second        \* the nanoseconds of a second

ASSUME HookAssumption ==
  /\ Strays \subseteq {"unsigned", "forged", "malformed", "no_repo", "no_build"}
  /\ Services \subseteq SUBSET {"metrics", "traces", "logs"}
  /\ Second \in Nat \ {0}

VARIABLES
  pipelines,  \* the signals there is a consumer for
  pc,         \* where each handler is
  req,        \* the webhook it serves: what it is, and the how manieth
  asked,      \* how many steps' logs it asked for
  got,        \* the logs it has, in order
  replies,    \* history: the steps Drone was asked for, and whether it answered
  offered,    \* history: the traces and logs consumers were called with
  received    \* how many webhooks came in

hook == <<pipelines, pc, req, asked, got, replies, offered, received>>

Nothing == [kind |-> "none"]

HookInit ==
  /\ pipelines \in Services /\ received = 0
  /\ pc = [h \in Handlers |-> "idle"] /\ req = [h \in Handlers |-> Nothing]
  /\ asked = [h \in Handlers |-> 0] /\ got = [h \in Handlers |-> <<>>]
  /\ replies = {} /\ offered = {}
-------------------------------------------------------------------------------
\* getOtelExitCode
Code(status) ==
  CASE status \in {"failure", "error"} -> "error"
    [] status = "success" -> "ok"
    [] OTHER -> "unset"

ShapeOf(r) == builds[r.build].shape

\* The steps that get a span, as pairs of stage and step, in the order of the loops.
StepsOf(shape) ==
  FlattenSeq([i \in DOMAIN shape.stages |->
    LET steps == shape.stages[i].steps
    IN  FlattenSeq([j \in DOMAIN steps |->
          IF steps[j].status = "skipped" THEN <<>> ELSE <<<<i, j>>>>])])

StepAt(shape, p) == shape.stages[p[1]].steps[p[2]]

Id(r, i, j) == <<r.serial, i, j>>

\* The spans of handleEvent; stage 0 and step 0 stand for none.
BuildSpan(r) == [id |-> Id(r, 0, 0), parent |-> <<>>, code |-> Code(r.status)]
StageSpan(r, i) ==
  [id |-> Id(r, i, 0), parent |-> Id(r, 0, 0), code |-> Code(ShapeOf(r).stages[i].status)]
StepSpan(r, p) ==
  [id |-> Id(r, p[1], p[2]), parent |-> Id(r, p[1], 0),
   code |-> Code(StepAt(ShapeOf(r), p).status)]

Spans(r) ==
  {BuildSpan(r)} \cup {StageSpan(r, i) : i \in DOMAIN ShapeOf(r).stages}
    \cup {StepSpan(r, p) : p \in ToSet(StepsOf(ShapeOf(r)))}

\* Mutant of Delta: prevLineTimestamp is not assigned.
DeltaFromZero(lines) ==
  LET d[i \in 0 .. Len(lines)] ==
        IF i = 0 THEN 0 ELSE IF lines[i] = 0 THEN d[i - 1] + 1 ELSE 0
  IN  d

\* delta after each line: the lines of one second are counted.
Delta(lines) ==
  LET prev(i) == IF i = 1 THEN 0 ELSE lines[i - 1]
      d[i \in 0 .. Len(lines)] ==
        IF i = 0 THEN 0 ELSE IF lines[i] = prev(i) THEN d[i - 1] + 1 ELSE 0
  IN  d

\* The timestamps generateLogs gives the lines of a step.
Stamps(step) ==
  [i \in DOMAIN step.lines |-> (step.started + step.lines[i]) * Second + Delta(step.lines)[i]]

\* Drone's lines are in their order, and fewer than a second has nanoseconds.
LinesInTurn ==
  \A shape \in Shapes :
    \A i \in DOMAIN shape.stages : \A j \in DOMAIN shape.stages[i].steps :
      LET lines == shape.stages[i].steps[j].lines
      IN  Len(lines) < Second /\ \A k \in 2 .. Len(lines) : lines[k - 1] <= lines[k]

\* generateLogs: what becomes of the lines of a step.
StepLogs(r, p) ==
  [span |-> Id(r, p[1], p[2]), stamps |-> Stamps(StepAt(ShapeOf(r), p))]
-------------------------------------------------------------------------------
\* The guards of handleEvent: the repository and the repository's branch, which
\* is not the build's, are configured.
Enabled(shape) == shape.branch \in BranchesOf(shape.repo)

\* Mutant of Wanted: the Finished check, which a TODO of the code doubts, is gone.
WantedAtAnyTime(r) == r.kind = "build" /\ Enabled(ShapeOf(r))

\* handleEvent returns a trace.
Wanted(r) == r.kind = "build" /\ Finished(r.status) /\ Enabled(ShapeOf(r))

\* A webhook comes in: one Drone sent, now or earlier or for the second time, or a
\* stray one.
Receive(h, r) ==
  /\ pc[h] = "idle"
  /\ received' = received + 1
  /\ req' = [req EXCEPT ![h] = r]
  /\ pc' = [pc EXCEPT ![h] = "serving"]
  /\ UNCHANGED <<pipelines, asked, got, replies, offered>>

\* Mutant of Leave: the logs stay.
LeaveLogs(h) ==
  /\ pc' = [pc EXCEPT ![h] = "idle"] /\ req' = [req EXCEPT ![h] = Nothing]
  /\ asked' = [asked EXCEPT ![h] = 0] /\ UNCHANGED got

\* Back to net/http: every variable of the handler is gone.
Leave(h) ==
  /\ pc' = [pc EXCEPT ![h] = "idle"] /\ req' = [req EXCEPT ![h] = Nothing]
  /\ asked' = [asked EXCEPT ![h] = 0] /\ got' = [got EXCEPT ![h] = <<>>]

\* verifySignature fails (400 without a signature, 403 with a wrong one), or the body
\* is no event (400).
Reject(h) ==
  /\ pc[h] = "serving" /\ req[h].kind \in {"unsigned", "forged", "malformed"}
  /\ Leave(h)
  /\ UNCHANGED <<pipelines, replies, offered, received>>

\* An event without a repository: evt.Repo.Build panics, which net/http recovers.
PanicWithoutRepo(h) ==
  /\ pc[h] = "serving" /\ req[h].kind = "no_repo"
  /\ Leave(h)
  /\ UNCHANGED <<pipelines, replies, offered, received>>

\* handleEvent returns nothing, and nothing is passed on; the answer is 200.
Ignore(h) ==
  /\ pc[h] = "serving" /\ req[h].kind \in {"no_build", "build"} /\ ~Wanted(req[h])
  /\ Leave(h)
  /\ UNCHANGED <<pipelines, replies, offered, received>>

\* handleEvent comes to its loops.
Convert(h) ==
  /\ pc[h] = "serving" /\ Wanted(req[h])
  /\ pc' = [pc EXCEPT ![h] = "converting"]
  /\ UNCHANGED <<pipelines, req, asked, got, replies, offered, received>>

Steps(h) == StepsOf(ShapeOf(req[h]))

\* Mutant of AskLogs: the first error ends the fetching.
AskLogsUntilError(h, ok) ==
  LET p == Steps(h)[asked[h] + 1]
  IN  /\ pc[h] = "converting" /\ asked[h] < Len(Steps(h))
      /\ asked' = [asked EXCEPT ![h] = IF ok THEN @ + 1 ELSE Len(Steps(h))]
      /\ got' = [got EXCEPT ![h] = IF ok THEN Append(@, StepLogs(req[h], p)) ELSE @]
      /\ replies' = replies \cup {[id |-> Id(req[h], p[1], p[2]), ok |-> ok]}
      /\ UNCHANGED <<pipelines, pc, req, offered, received>>

\* generateLogs of the next step: Drone returns its lines, or an error, which
\* leaves these logs out.  The request has no deadline.
AskLogs(h, ok) ==
  LET p == Steps(h)[asked[h] + 1]
  IN  /\ pc[h] = "converting" /\ asked[h] < Len(Steps(h))
      /\ asked' = [asked EXCEPT ![h] = @ + 1]
      /\ got' = [got EXCEPT ![h] = IF ok THEN Append(@, StepLogs(req[h], p)) ELSE @]
      /\ replies' = replies \cup {[id |-> Id(req[h], p[1], p[2]), ok |-> ok]}
      /\ UNCHANGED <<pipelines, pc, req, offered, received>>

Offer(signal, h, content) ==
  IF signal \in pipelines
  THEN offered' = offered \cup {[signal |-> signal, serial |-> req[h].serial,
                                 build |-> req[h].build, status |-> req[h].status,
                                 content |-> content]}
  ELSE UNCHANGED offered

\* Mutant of OfferTraces: traces that are refused are converted anew.
OfferTracesAgain(h, ok) ==
  /\ pc[h] = "converting" /\ asked[h] = Len(Steps(h))
  /\ Offer("traces", h, Spans(req[h]))
  /\ pc' = [pc EXCEPT ![h] = IF ok THEN "offering" ELSE "serving"]
  /\ UNCHANGED <<pipelines, req, asked, got, replies, received>>

\* handleEvent has returned: the traces are passed on, if there is a consumer.  Whether
\* it takes them makes no difference: the error is logged.
OfferTraces(h, ok) ==
  /\ pc[h] = "converting" /\ asked[h] = Len(Steps(h))
  /\ Offer("traces", h, Spans(req[h]))
  /\ pc' = [pc EXCEPT ![h] = "offering"]
  /\ UNCHANGED <<pipelines, req, asked, got, replies, received>>

\* The same with the logs; the answer is 200.
OfferLogs(h) ==
  /\ pc[h] = "offering"
  /\ Offer("logs", h, got[h])
  /\ Leave(h)
  /\ UNCHANGED <<pipelines, replies, received>>

Webhooks ==
  {[kind |-> "build", serial |-> received + 1, build |-> e.build, status |-> e.status] :
     e \in outbox}
    \cup {[kind |-> s] : s \in Strays}

HandlerStep(h) ==
  \/ Reject(h) \/ PanicWithoutRepo(h) \/ Ignore(h) \/ Convert(h) \/ OfferLogs(h)
  \/ \E ok \in BOOLEAN : OfferTraces(h, ok)

HookNext ==
  \E h \in Handlers :
    \/ \E r \in Webhooks : Receive(h, r)
    \/ HandlerStep(h)
    \/ \E ok \in BOOLEAN : AskLogs(h, ok)
-------------------------------------------------------------------------------
Request == [kind : {"build"}, serial : Nat, build : Nat, status : Statuses]

HookTypeOK ==
  /\ pipelines \in Services /\ received \in Nat
  /\ pc \in [Handlers -> {"idle", "serving", "converting", "offering"}]
  /\ req \in [Handlers -> Request \cup [kind : Strays] \cup {Nothing}]
  /\ asked \in [Handlers -> Nat]
  /\ DOMAIN got = Handlers /\ \A h \in Handlers : Len(got[h]) <= asked[h]

\* The steps of a build that were not skipped.
Unskipped(shape) ==
  UNION {{<<i, j>> : j \in {k \in DOMAIN shape.stages[i].steps :
                             shape.stages[i].steps[k].status # "skipped"}} :
           i \in DOMAIN shape.stages}

\* Every step of a build that was not skipped has a span in the trace, and its logs
\* are passed on under that span unless Drone refused just these; no other logs are
\* (the loops of handleEvent).
StepLogsKept ==
  \A o \in offered : o.signal = "logs" =>
    LET ids == {Id(o, p[1], p[2]) : p \in Unskipped(ShapeOf(o))}
        answered == {r.id : r \in {x \in replies : x.ok}}
        refused  == {r.id : r \in {x \in replies : ~x.ok}}
        logged   == {l.span : l \in ToSet(o.content)}
    IN  /\ ids \subseteq answered \cup refused
        /\ logged = ids \cap answered
        /\ \A t \in offered : t.signal = "traces" /\ t.serial = o.serial =>
             ids \subseteq {span.id : span \in t.content}

\* The lines of a step keep their order and their second: no two have one time
\* (delta in generateLogs).
LineTimes ==
  \A o \in offered : o.signal = "logs" =>
    \A l \in ToSet(o.content) :
      LET step == StepAt(ShapeOf(o), <<l.span[2], l.span[3]>>)
      IN  /\ \A i \in DOMAIN l.stamps : l.stamps[i] \div Second = step.started + step.lines[i]
          /\ \A i \in 2 .. Len(l.stamps) : l.stamps[i - 1] < l.stamps[i]
===============================================================================
