-------------------------------- MODULE SpanTree --------------------------------
(***************************************************************************)
(* The spans of a run and the identifiers that make them and the run's     *)
(* logs one tree: receiver/githubactionsreceiver/trace_event_handling.go.  *)
(* The root span of a run, the spans of each of its jobs and the records   *)
(* of its logs come from different deliveries, in any order and more than  *)
(* once, and share nothing but names and numbers.                          *)
(*                                                                         *)
(* Every identifier is cut from the SHA-256 of a text.  The hashes of      *)
(* different texts are taken to be different, so that an identifier is its *)
(* text and where it is cut.  A text is a sequence of characters: 0 .. 9   *)
(* are the digits, other numbers the other characters.                     *)
(***************************************************************************)
EXTENDS Integers, Sequences

CONSTANTS
  Runs,     \* attempts of runs: run ID, attempt, whether a previous one is named
  Jobs,     \* completed jobs of them
  S, T,     \* the letters s and t
  Slash, Underscore

Zero == 0   \* the zero time

\* logged: the archive has a file for the step.
Step == [number : Nat, done : BOOLEAN, conclusion : {"success", "failure", "skipped"},
         started : Nat, completed : Nat, logged : BOOLEAN]

RunType == [id : Nat, attempt : Nat \ {0}, previous : BOOLEAN]
JobType == [run : Nat, attempt : Nat \ {0}, job : Nat, name : Seq(Nat),
            steps : Seq(Step), started : Nat, completed : Nat]

ASSUME SpanAssumption ==
  /\ Runs \subseteq RunType /\ Jobs \subseteq JobType
  /\ {S, T, Slash, Underscore} \subseteq Nat \ (0 .. 9)
  /\ S # T /\ Slash \notin {S, T, Underscore} /\ Underscore \notin {S, T}

\* GitHub counts the steps of a job from 1, its jobs have different numbers, and
\* the directory of a job in an archive is its name.  There is one attempt of a run
\* of each number.
ASSUME JobAssumption ==
  /\ \A j \in Jobs : /\ \A i \in DOMAIN j.steps : j.steps[i].number # 0
                    /\ \A i \in DOMAIN j.name : j.name[i] # Slash
  /\ \A j, k \in Jobs :
       j.run = k.run /\ j.attempt = k.attempt /\ j.job = k.job => j = k
  /\ \A q, r \in Runs : q.id = r.id /\ q.attempt = r.attempt => q = r

VARIABLES
  roots,   \* the root spans the traces consumer took
  spans,   \* the spans of jobs and steps it took
  logs,    \* the groups of records the logs consumer took, one per file
  fetched  \* history: the attempts whose logs were converted

vars == <<roots, spans, logs, fetched>>
-------------------------------------------------------------------------------
\* %d
Digits[n \in Nat] ==
  IF n < 10 THEN <<n>> ELSE Append(Digits[n \div 10], n % 10)

RunText(id, attempt) == Digits[id] \o Digits[attempt]

Trace(text) == [text |-> text, from |-> 0, to |-> 32]
Span(text)  == [text |-> text, from |-> 16, to |-> 32]

\* generateTraceID, generateParentSpanID, generateJobSpanID
TraceId(id, attempt)      == Trace(RunText(id, attempt) \o <<T>>)
ParentId(id, attempt)     == Span(RunText(id, attempt) \o <<S>>)
JobId(id, attempt, name)  == Span(RunText(id, attempt) \o name)

\* Mutant of StepId: the number is left out.
StepIdUnnumbered(id, attempt, name, number) == JobId(id, attempt, name)

\* generateStepSpanID
StepId(id, attempt, name, number) ==
  Span(RunText(id, attempt) \o name \o Digits[number])

\* Mutant of JobParent: the first attempt's root span.
FirstAttemptRoot(j) == ParentId(j.run, 1)

\* The parent createParentSpan gives the span of a job.
JobParent(j) == ParentId(j.run, j.attempt)

\* Mutant of PreviousAttempt: the attempt the root span is of.
SameAttempt(r) == r.attempt

\* The attempt whose trace createRootSpan links to.
PreviousAttempt(r) == r.attempt - 1

\* createRootSpan
RootSpan(r) ==
  [run |-> r.id, attempt |-> r.attempt,
   trace |-> TraceId(r.id, r.attempt), id |-> ParentId(r.id, r.attempt),
   links |-> IF r.previous /\ r.attempt > 1
               THEN {TraceId(r.id, PreviousAttempt(r))} ELSE {}]

Conclusions(j) == {j.steps[i].conclusion : i \in DOMAIN j.steps}
AllSuccessful(j) ==
  \A i \in DOMAIN j.steps : j.steps[i].done /\ j.steps[i].conclusion = "success"

\* Mutants of JobStatus: the loop ends at the first step without success; the
\* conclusion of the last step as it is.
StatusOfFirstMiss(j) ==
  IF AllSuccessful(j) THEN "ok"
  ELSE LET first == CHOOSE i \in DOMAIN j.steps :
             /\ j.steps[i].conclusion # "success"
             /\ \A k \in 1 .. i - 1 : j.steps[k].conclusion = "success"
       IN  IF j.steps[first].conclusion = "failure" THEN "error" ELSE "unset"
LastConclusion(j) == IF j.steps = <<>> THEN "ok" ELSE j.steps[Len(j.steps)].conclusion

\* The status createParentSpan gives the span of a job.
JobStatus(j) ==
  IF "failure" \in Conclusions(j) THEN "error"
  ELSE IF AllSuccessful(j) THEN "ok" ELSE "unset"

\* Mutant of JobEnd: the first step's.
FirstStepEnd(j) == IF j.steps = <<>> THEN j.completed ELSE j.steps[1].completed

\* When createParentSpan begins and ends the span of a job: before createSpan
\* has seen to steps without a completion time.
JobStart(j) == IF j.steps = <<>> THEN j.started ELSE j.steps[1].started
JobEnd(j)   == IF j.steps = <<>> THEN j.completed ELSE j.steps[Len(j.steps)].completed

\* createParentSpan; number 0 stands for none.
JobSpan(j) ==
  [run |-> j.run, attempt |-> j.attempt, job |-> j.job, number |-> 0,
   trace |-> TraceId(j.run, j.attempt), id |-> JobId(j.run, j.attempt, j.name),
   parent |-> JobParent(j), start |-> JobStart(j), end |-> JobEnd(j),
   status |-> JobStatus(j)]

StepEnd(s) == IF s.completed = Zero THEN s.started ELSE s.completed

StepStatus(s) ==
  CASE s.conclusion = "success" -> "ok"
    [] s.conclusion = "failure" -> "error"
    [] OTHER -> "unset"

\* createSpan
StepSpan(j, s) ==
  [run |-> j.run, attempt |-> j.attempt, job |-> j.job, number |-> s.number,
   trace |-> TraceId(j.run, j.attempt),
   id |-> StepId(j.run, j.attempt, j.name, s.number),
   parent |-> JobId(j.run, j.attempt, j.name),
   start |-> s.started, end |-> StepEnd(s), status |-> StepStatus(s)]

\* processSteps
StepSpans(j) == {StepSpan(j, j.steps[i]) : i \in DOMAIN j.steps}

\* system.txt
System == <<S, T>>

\* The steps of a job the archive has a file for.
Logged(j) == {i \in DOMAIN j.steps : j.steps[i].logged}

JobsOf(r) == {j \in Jobs : j.run = r.id /\ j.attempt = r.attempt}

\* The archive of an attempt: its whole log per job, and the directory of the job
\* with a file for each step that wrote one and a system file.  job and number say
\* who wrote a file.
Archive(r) ==
  UNION {LET Entry(dir, name, number) ==
               [dir |-> dir, name |-> name, job |-> j.job, number |-> number]
             In(base) == j.name \o <<Slash>> \o base
         IN  {Entry(FALSE, <<0, Underscore>> \o j.name, 0), Entry(TRUE, In(<<>>), 0),
              Entry(FALSE, In(System), 0)}
             \cup {Entry(FALSE, In(Digits[j.steps[i].number] \o <<Underscore, T>>),
                         j.steps[i].number) : i \in Logged(j)} : j \in JobsOf(r)}

\* strings.IndexByte, 0 if there is none.
IndexOf(text, char) ==
  IF \E i \in DOMAIN text : text[i] = char
    THEN CHOOSE i \in DOMAIN text :
           text[i] = char /\ \A k \in 1 .. i - 1 : text[k] # char
    ELSE 0

\* The name of the job a file is of: up to the first slash.
JobDir(f) == SubSeq(f.name, 1, IndexOf(f.name, Slash) - 1)

\* extractJobsAndFilesFromZip: the files of jobs; those in no directory are left out.
JobFiles(archive) == {f \in archive : ~f.dir /\ IndexOf(f.name, Slash) # 0}

\* strconv.Atoi of digits.
Value(digits) ==
  LET value[i \in 0 .. Len(digits)] ==
        IF i = 0 THEN 0 ELSE 10 * value[i - 1] + digits[i]
  IN  value[Len(digits)]

\* Mutant of BaseName: the slash is left.
BaseNameWithSlash(f) == SubSeq(f.name, Len(JobDir(f)) + 1, Len(f.name))

\* What follows the prefix jobName/.
BaseName(f) == SubSeq(f.name, Len(JobDir(f)) + 2, Len(f.name))

\* The text extractStepNumberFromFileName takes for the number.
NumberText(f) ==
  LET base == BaseName(f)
      at   == IndexOf(base, Underscore)
  IN  IF at = 0 THEN base ELSE SubSeq(base, 1, at - 1)

\* The files extractStepNumberFromFileName returns a number for.
Numbered(f) ==
  /\ BaseName(f) # <<>> /\ BaseName(f) # System
  /\ NumberText(f) # <<>> /\ \A i \in DOMAIN NumberText(f) : NumberText(f)[i] \in 0 .. 9

\* The span processLogFile lets the records of a file point at.
LogSpanId(r, f) == StepId(r.id, r.attempt, JobDir(f), Value(NumberText(f)))

\* eventToLogs: the records of the files, one group per file.
RunLogs(r) ==
  {[run |-> r.id, attempt |-> r.attempt, job |-> f.job, number |-> f.number,
    trace |-> TraceId(r.id, r.attempt), span |-> LogSpanId(r, f)] :
     f \in {g \in JobFiles(Archive(r)) : Numbered(g)}}

-------------------------------------------------------------------------------
Init == roots = {} /\ spans = {} /\ logs = {} /\ fetched = {}

\* A completed job is delivered, maybe again, and the consumer takes its spans.
DeliverJob(j) ==
  /\ spans' = spans \cup {JobSpan(j)} \cup StepSpans(j)
  /\ UNCHANGED <<roots, logs, fetched>>

\* So is a completed run.
DeliverRun(r) ==
  /\ roots' = roots \cup {RootSpan(r)}
  /\ UNCHANGED <<spans, logs, fetched>>

\* Its logs follow, with trace information only if the root span was taken.
DeliverLogs(r) ==
  /\ RootSpan(r) \in roots
  /\ logs' = logs \cup RunLogs(r) /\ fetched' = fetched \cup {r}
  /\ UNCHANGED <<roots, spans>>

Next ==
  \/ \E j \in Jobs : DeliverJob(j)
  \/ \E r \in Runs : DeliverRun(r) \/ DeliverLogs(r)

Spec == Init /\ [][Next]_vars
-------------------------------------------------------------------------------
SameAttemptOf(a, b) == a.run = b.run /\ a.attempt = b.attempt
SameJobAs(a, b)     == SameAttemptOf(a, b) /\ a.job = b.job
SameStepAs(a, b)    == SameJobAs(a, b) /\ a.number = b.number

JobSpansTaken  == {s \in spans : s.number = 0}
StepSpansTaken == {s \in spans : s.number # 0}

StartsWith(text, start) ==
  Len(start) <= Len(text) /\ \A i \in DOMAIN start : text[i] = start[i]

\* A name is another one, or that name with digits after it.
Extends(name, other) ==
  /\ StartsWith(name, other)
  /\ \A i \in Len(other) + 1 .. Len(name) : name[i] \in 0 .. 9

\* Nothing separates the parts of a text.  So it may be that of another run, if one
\* run's ID has the other's digits and more, and that of another job of the attempt,
\* if one's name is the other's with digits after it: build2 and step 2 of build.
NearRuns(m, n) ==
  m # n /\ (StartsWith(Digits[m], Digits[n]) \/ StartsWith(Digits[n], Digits[m]))
NearJobs(j, k) ==
  /\ j # k /\ SameAttemptOf(j, k)
  /\ Extends(j.name, k.name) \/ Extends(k.name, j.name)
Confusable(a, b) ==
  \/ NearRuns(a.run, b.run)
  \/ \E j, k \in Jobs : SameJobAs(a, j) /\ SameJobAs(b, k) /\ NearJobs(j, k)

\* What OneTree and PreviousAttemptLinked take: no run's digits begin with another's,
\* and the jobs of an attempt have different names.
RunIds    == {r.id : r \in Runs} \cup {j.run : j \in Jobs}
RunsApart == \A m, n \in RunIds : ~NearRuns(m, n)
NamesApart ==
  \A j, k \in Jobs : SameAttemptOf(j, k) /\ j.name = k.name => j = k

\* The steps of a job run one after the other.
StepsInTurn ==
  \A j \in Jobs :
    /\ \A i \in DOMAIN j.steps : j.steps[i].started <= StepEnd(j.steps[i])
    /\ \A i \in 2 .. Len(j.steps) : StepEnd(j.steps[i - 1]) <= j.steps[i].started

Id(from) == [text : Seq(Nat), from : {from}, to : {32}]

\* The variables keep their types.
TypeOK ==
  /\ \A r \in roots : /\ r.trace \in Id(0) /\ r.id \in Id(16)
                      /\ \A l \in r.links : l \in Id(0)
  /\ \A s \in spans : /\ s.trace \in Id(0) /\ s.id \in Id(16) /\ s.parent \in Id(16)
                      /\ s.start \in Nat /\ s.end \in Nat
                      /\ s.status \in {"ok", "error", "unset"}
  /\ \A l \in logs : l.trace \in Id(0) /\ l.span \in Id(16)

\* Within a trace an identifier is that of one span only: the root span, a job or
\* a step, of one attempt.
IdsIdentify ==
  /\ \A a, b \in spans : a.trace = b.trace /\ a.id = b.id => SameStepAs(a, b)
  /\ \A r \in roots, a \in spans : r.trace = a.trace => r.id # a.id

\* It is, but for what the texts cannot tell apart: near runs, jobs of one attempt
\* with near names, and a job called s, which has the text of the root span.  And
\* only near runs share a trace.
AlikeOnlyIfConfusable ==
  /\ \A a, b \in spans :
       a.trace = b.trace /\ a.id = b.id => SameStepAs(a, b) \/ Confusable(a, b)
  /\ \A r \in roots, a \in spans :
       r.trace = a.trace /\ r.id = a.id =>
         \/ NearRuns(r.run, a.run)
         \/ a.number = 0 /\ \E j \in Jobs : SameJobAs(a, j) /\ j.name = <<S>>
  /\ \A q, r \in roots :
       q.trace = r.trace => SameAttemptOf(q, r) \/ NearRuns(q.run, r.run)

\* The spans of an attempt are one tree, whichever delivery came first: the parent
\* of a step is the span of its job, the parent of a job the root span, once it is
\* there, and never the root span of another attempt.
OneTree ==
  /\ \A a \in JobSpansTaken, r \in roots :
       a.trace = r.trace /\ a.parent = r.id <=> SameAttemptOf(a, r)
  /\ \A a \in StepSpansTaken, b \in JobSpansTaken :
       a.trace = b.trace /\ a.parent = b.id <=> SameJobAs(a, b)

\* Records point at the span of the step they were written by, and at another only
\* if the texts cannot tell the two apart; and once the logs of an attempt were
\* converted, those of each step the archive has a file for are there, and nothing
\* else of the archive.
LogsFindTheirStep ==
  /\ \A l \in logs, s \in spans :
       /\ SameStepAs(l, s) => l.trace = s.trace /\ l.span = s.id
       /\ l.trace = s.trace /\ l.span = s.id => SameStepAs(l, s) \/ Confusable(l, s)
  /\ \A r \in fetched : \A j \in JobsOf(r) :
       {l.number : l \in {k \in logs : SameAttemptOf(k, j) /\ k.job = j.job}}
         = {j.steps[i].number : i \in Logged(j)}

\* The root span of an attempt links to the trace of the attempt before it, and to
\* no trace of any other attempt.
PreviousAttemptLinked ==
  \A a, b \in roots :
    b.trace \in a.links <=>
      /\ a.run = b.run /\ a.attempt = b.attempt + 1
      /\ \E r \in Runs : r.id = a.run /\ r.attempt = a.attempt /\ r.previous

\* The last step of the job a span is of was sent without a completion time.
LastStepOpen(a) ==
  \E j \in Jobs : /\ SameJobAs(a, j) /\ j.steps # <<>>
                  /\ j.steps[Len(j.steps)].completed = Zero

\* The span of a job begins and ends around the spans of its steps, unless the last
\* of them was sent without a completion time: that is read before it is corrected,
\* so that the span of the job then ends at the zero time, before all of its steps.
JobCoversSteps ==
  \A a \in JobSpansTaken, b \in StepSpansTaken :
    SameJobAs(a, b) =>
      /\ a.start <= b.start
      /\ IF LastStepOpen(a) THEN a.end = Zero ELSE b.end <= a.end

\* A job failed if a step did, and succeeded only if all of its steps did.
JobStatusFromSteps ==
  \A a \in JobSpansTaken :
    LET steps == {b \in StepSpansTaken : SameJobAs(a, b)}
    IN  /\ a.status = "error" <=> \E b \in steps : b.status = "error"
        /\ a.status = "ok" => \A b \in steps : b.status = "ok"
===============================================================================
