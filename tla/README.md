# TLA+ verification of grafana-ci-otel-collector

This project models the parts of the repository that hold its own logic: the
GitHub Actions receiver (`receiver/githubactionsreceiver`), the Drone receiver
(`receiver/dronereceiver`) and the shared component both are built on
(`internal/sharedcomponent`). Everything else the repository holds is build
configuration, generated code, mocks and documentation.

Paths below are relative to the repository's root; `GHA/` stands for
`receiver/githubactionsreceiver/` and `DR/` for `receiver/dronereceiver/`.

## 1. Inventory

| Component | State it keeps | Operations | Talks to |
| --- | --- | --- | --- |
| Metrics handler (`GHA/metric_event_handling.go`, `GHA/metric_duration.go`, `GHA/internal/metadata/generated_metrics.go`) | one mutex; an LRU cache of counters; an LRU cache of duration histograms; the data points in the generated metrics builder | `workflowJobEventToMetrics`, `workflowRunEventToMetrics`, `buildInfoMetrics`, duration histograms, sweep of stale histograms | called by HTTP handlers and the build-info ticker; the result goes to the metrics consumer after the lock is released |
| Receiver lifecycle (`GHA/receiver.go` 42-251, `internal/sharedcomponent`) | map of receivers by configuration, start and stop onces, server, wait group, ticker context | create per signal, `Start`, `Shutdown`, server goroutine, ticker goroutine | the collector calls it; it runs the server and the ticker |
| Webhook endpoint (`GHA/receiver.go` 253-371) | locals of one request: event, `traceErr` | `ServeHTTP`: path, signature, parsing, metrics, status, traces, logs, response | net/http calls it, it calls the three converters and consumers |
| Workflow logs (`GHA/log_event_handling.go`) | temporary file, zip reader, one `logEntryBuilder` per job | ask GitHub for the archive, download, open, split into records, clean up | GitHub's API, the file system |
| Traces (`GHA/trace_event_handling.go`, `GHA/trace_attributes.go`) | none; identifiers are hashes of names and numbers | `eventToTraces`: the root span of a run, the job span and step spans of a job | jobs, runs and logs are processed in different requests and meet only in these identifiers |
| Drone handler (`DR/receiver.go`, `DR/handler.go`) | none between requests | signature, `handleEvent`, `generateLogs` | Drone's webhooks call it; it asks Drone's API for logs |
| Drone scraper (`DR/scraper.go`, `DR/internal/metadata/generated_metrics.go`) | database handle, metrics builder | `Start`, `scrape` with its three queries | scraperhelper's controller calls it; it queries Drone's database |
| Configuration (`GHA/config.go`, `GHA/factory.go`, `DR/config.go`, `DR/factory.go`) | the configuration | `Validate`, defaults | the collector |

What is hard in this code:

* **Concurrency.** net/http serves every delivery on a goroutine of its own; all
  of them and the ticker share the metrics builder and two caches. The lock is
  released before the consumer is called.
* **Order.** GitHub sends the events of a run in any order and again when it
  likes; spans of a run come from many deliveries and meet only in identifiers
  that are hashes of concatenated names and numbers.
* **Limits.** Both caches evict; histograms expire; log entries have a maximal
  size, and so has a line.
* **Failure.** Every consumer may refuse, GitHub's API may fail at four places,
  a handler may panic and net/http recovers it; each of the scraper's queries may
  fail or break off while the others succeed, and Drone may refuse the logs of
  some steps.
* **Stale reads.** The scraper's three queries see three states of Drone's table,
  which webhooks describe as it was when they were sent.
* **Lifecycle.** Three signals share one receiver; `Shutdown` waits for two
  goroutines and not for requests in flight.

What makes each component correct, in a sentence each:

* Metrics: no event is lost or counted twice, a handler passes on its own points
  only, cumulative values do not decrease, no delivery blocks another for ever.
* Lifecycle: one start, one stop, nothing of the receiver runs after `Shutdown`,
  which returns.
* Webhook: consumers see authentic, completed events; logs bear the identity of
  a trace only if the trace was delivered; every request is answered or crashes,
  unless GitHub does not answer; temporary files go away.
* Logs: the records of a step are made of that step's lines, nothing is lost or
  reordered, no record exceeds the limit.
* Traces: whatever the order of deliveries, the spans of a run form one tree and
  logs point into it.
* Drone scraper: an emission is that of one scrape, a failed query is never seen
  at the consumer, restarts do not fall, `repo_info` does not go back to an older
  build, every build with a known status is counted once.
* Drone handler: the logs of a step are kept under its span unless Drone refused
  just these, the lines of a step keep their order and second, a webhook is
  answered unless Drone does not answer.
* Both together: a build that has a trace is counted by the next scrape.

## 2. Modules

| Module | What it is |
| --- | --- |
| `LruOrder` | recency order and eviction of golang-lru (external), as the two caches use it |
| `DurationHistogram` | `histogramState`: buckets, `observe`, what the sweep removes |
| `MetricsHandler` | the metrics handler with its goroutines: the concurrent core; uses the two above |
| `OneService` | abstract: a service that is started and stopped once |
| `ReceiverLifecycle` | the receiver behind its shared component; implements `OneService` |
| `Webhook` | `ServeHTTP` from the request to the answer, with the download of logs |
| `LogEntries` | the lines of a job's log files turned into records |
| `SpanTree` | the spans of runs, jobs and steps, the archive of a run's logs, and the identifiers that join them |
| `DroneServer` | Drone (external): its table of builds and the webhooks it sends |
| `DroneConfig` | the repositories and branches of the Drone receiver's configuration |
| `DroneScraper` | the scraper: `Start`, `scrape`, what the controller passes on |
| `DroneWebhook` | the Drone receiver's `ServeHTTP` |
| `DroneReceiver` | composes the four: Drone, scraper and handlers in one process |
| `MC...` | small instances of the module of that name for TLC |
| `MetricsHandlerProofs`, `ReceiverLifecycleProofs`, `LogEntriesProofs`, `WebhookProofs`, `SpanTreeProofs`, `DroneReceiverProofs` | theorems about the module of that name |
| `MetricsCachesProofs` | theorems about the two caches, on top of `MetricsHandlerProofs` |
| `Induction` | lemmas the theorems share: induction over numbers, intervals and finite sets, and sums |

The modules meet where the code's parts meet. `Webhook` sees of the metrics
handler whether the conversion panics (`countable`) and leaves what is counted
to `MetricsHandler`; it sees of a delivery's trace its run and attempt and
leaves the identifiers to `SpanTree`; it opens an archive and leaves what its
files become to `LogEntries`. `ReceiverLifecycle` knows handlers only as
goroutines that outlive `Shutdown`. No state is in two modules, except that
`withTraceInfo` of `Webhook` is the guard of `DeliverLogs` in `SpanTree`.

### MetricsHandler

A goroutine's program counter `pc` follows the handler: `idle`, `waiting` (for
`m.mu`), then inside the critical section `load`, `store`, `build_info` and
`emit`, then `consume` (lock released, `ConsumeMetrics` not called yet), or
`panicked`. `ev`, `stamp`, `cur` and `out` are the locals of a handler (the
event, `now`, `curVal`/`found`, the emitted metrics). `counters`/`recency` and
`hists`/`histOrder` are the two caches, `buffer` is what the metrics builder
holds, `sink` what the consumer accepted in order. `seen`, `lost`, `measured`
and `dropped` are history: they are written and never read by actions.

A step is one lock-protected access or one call out of the handler; the section
between `Lock` and the deferred `Unlock` is split so that a missing lock would
show. The key of a counter is (repository, labels, is-main, status, conclusion);
the first three are one *group*, the last two a *cell* of it. Keys of
histograms are kept as sequences of name parts cut at the separator, because the
separator is what can go wrong with them. That the labels, the repository and the
conclusion contain none is an assumption of the model, which has them as one value
of the key. `measured` is the sequence of durations observed with the same
attributes; `HistogramsExact` counts in it those between the bounds of each bucket.

`Emit` contains the whole tail of the code: `Emit`, the duration metric, the
sweep and the deferred unlock. `EmitPanics` is `ResourceMetrics().At(0)` of an
emission in which nothing was recorded. Which key of a zero-initialised group is
evicted first depends on Go's map iteration order, which is random: `LruOrder`
keeps recency as a partial order, in which keys added by one such loop are not
ordered, and `Victims` leaves the choice open until one of them is evicted.

### ReceiverLifecycle

The collector's calls (external, one at a time: build, start, shut down, or give
up after a failed creation), the two onces, the HTTP server (`nil`, open,
closed), the server and ticker goroutines, the wait group, and the handlers,
which nobody waits for. The `Ended` step is the end of the process.

### Webhook

One program counter per handler, as in `ServeHTTP`: `received` is before the
checks of path, signature and event; `metrics` and `consume_metrics`, `status`,
`traces` and `consume_traces`, `logs` are its sections; `ask`, `create`,
`download`, `open`, `convert_logs` and `consume_logs` are those of `eventToLogs`
and `getWorkflowRunLogsZip`; `panicked` is a handler net/http is going to
recover. `traceErr` and `linked` are its locals of that name and
`withTraceInfo`. `onDisk` and `descriptors` count the temporary files and the
descriptors of `tmpFile` and `zipReader`; each of the code's error paths is a
branch of its own, with the cleanup it does or does not do, and `ConvertLogs`
contains the deferred cleanup, panicking or not. `answers` is history: what was
answered to whom, and whether the logs of that run were lost to one of the four
failures (`LoseLogs`), the only excuse `AcceptedMeansOffered` has for not
offering them. The receiver always has a GitHub client, as `newReceiver` makes
one. A delivery is a record of what the handler's conditions ask about it.

### LogEntries

One `logEntryBuilder` serves all files of a job, so it is a variable of the
module and the files come one after the other. A line is a timestamp (or none)
and a size; a body is the set of lines it is made of and their size. The actions
are the branches of the loop in `processLogEntries`: empty line, timestamp,
orphan, line that does not fit, line that is appended; `CloseFile` is the end of
the scanner, which a line that fills its buffer also brings about.

### SpanTree

The hash is taken to be injective, so that an identifier is its text and the
part that is cut out of the hash. Texts are sequences of characters, because
they are put together without separators: which texts may be equal is what there
is to check. The actions are the deliveries: a completed job brings its span and
those of its steps, a completed run its root span and, once that was accepted,
the run's logs; all in any order, and again.

The archive of a run's logs is GitHub's (external): for every job its whole log,
and a directory of that job's name with a system file and a file for each step
that wrote one (`logged`). An entry of it carries, as history, which job and
step wrote it, so that a property can ask whether `extractJobsAndFilesFromZip`
and `extractStepNumberFromFileName` find out. `JobAssumption` says what the code
relies on: directories are named like jobs, job names have no slash, steps are
numbered from 1. The names may otherwise be any, those included that read like
another job's name with a step's number after it, and so may the numbers of
runs: `Confusable` says which spans cannot be told apart for that.

### DroneServer, DroneConfig

`builds` is the table both the queries and the webhooks speak of, in the order of
`build_id`; a build has a shape (repository, branches, commit, stages with steps)
that does not change and a status that moves from station to station and ends.
`outbox` holds every webhook sent, and is never emptied: a webhook may come late,
twice or never. `ReposConfig` is the configuration; what `Config.Validate`
demands of it is `ValidRepos`, an assumption. What is not a configured slug or
branch is grouped as `other` by the scraper and ignored by the handler, each by
its own condition.

### DroneScraper

`at` follows the controller's goroutine through `Start` (`starting`) and `scrape`
(`builds`, `restarts`, `info`, `emit`; `idle` in between). `connected` is
`dbPool`, `buffer` the builder's points, `failed` the accumulated errors,
`consumed` what the controller passed on, in order. A point carries the number of
its scrape for its time. A query is one step on the table as it is then; its
result may be any part of the rows, with an error or (as `rows.Err` is not asked)
without; `whole` is history and says that the first query was read in full. The
queries are modelled by the rows they return, grouping, `CASE` and `MAX` included.
`exited` is `os.Exit` after the timeout, `crashed` the dereference of a nil pool.
`StartHook` says whether the controller was given `droneScraper.Start`, which
`newMetricsReceiver` does not do.

### DroneWebhook

`pc` of a handler is `idle`, `serving` (before `handleEvent`'s guards),
`converting` (its loops) or `offering` (between the two consumers). `req` is the
webhook with a serial number, which stands for the random trace ID; `asked` counts
the steps whose logs were asked for, `got` holds the answers. Asking is a step of
its own for every step of the build, so that everything else happens in between.
`replies` and `offered` are history.

### DroneReceiver

The composition interleaves Drone, the scraper (in a metrics pipeline) and the
handlers (in a pipeline of traces or logs). They share the table, the
configuration and the process: when the scraper exits or crashes, handlers stop.

## 3. Runs that pass

| Run | Configuration | Shows |
| --- | --- | --- |
| `metrics_counters` | two handlers and the ticker, three deliveries, two clock readings, no eviction | `EmissionsArePrivate`: a handler takes only its own points out of the shared builder. `CountersExact`: no increment is lost or counted twice. `JobSamplesOrdered`: of two samples of a job counter the smaller is not the younger. `UnrecordedPanic`: a handler panics exactly over an event of which nothing is recorded, whatever others left in the builder or took from it. `EveryDeliveryFinishes`: also after another delivery panicked inside the critical section |
| `metrics_caches` | one handler; a counters cache of 7 cells for two groups of 6, two histograms, a TTL of 2 | `CountersExact` for groups that lost nothing, `CachesWithinLimits`, `HistogramsExact` (a histogram holds every duration, in the bucket between whose bounds it lies, until it is first dropped), `LiveHistogramsSurvive` (only an eviction or the TTL removes one) |
| `lifecycle` | three signals, two requests in flight | `ServiceSpec` (refinement of `OneService`), `ShutdownReturns`, `RegisteredUntilStopped` |
| `webhook` | two handlers, eleven kinds of deliveries, three of them received; a receiver for all signals and one for logs only | `LogsLinkDeliveredTraces`, `OnlyValidatedOffered`, `AcceptedMeansOffered` (a 202 means that all consumers were called, that of logs included unless they could not be fetched), `FilesAccounted`, `AnsweredUnlessGitHubIsSilent` (from every place; only asking GitHub and downloading may last for ever) |
| `log_entries` | two files of up to three lines | `RecordsStayInStep`, `RecordsAreEntries`, `RecordsWithinLimit` |
| `span_tree` | three attempts of two runs with six jobs and their archives | `AlikeOnlyIfConfusable` (two spans share an identifier only if their names and numbers read the same), `OneTree`, `LogsFindTheirStep` (records point at the span of the step that wrote them, the logs of every step that has a file are there, and nothing else of the archive), `PreviousAttemptLinked`, `JobCoversSteps` (or the job's span ends at zero, if its last step came without a completion time), `JobStatusFromSteps` |
| `drone` | one handler, four sets of pipelines with bounds of their own (below) | `EmissionsOfOneScrape`, `RestartsNeverFall`, `InfoMovesOn`, `BuildsAddUp`, `StepLogsKept`, `LineTimes`, `TracedBuildsAreCounted`, `HandledUnlessDroneIsSilent` |

Every run but `metrics_caches`, which repeats a module, also checks its module's
`TypeOK`.

**Bounds.**

* `MetricsHandler`: three deliveries on two handlers (`MaxEvents`) let one
  handler overtake another and a third event count on top of both; the
  properties compare at most two emissions, and the theorems hold for any
  number. Two clock readings (`MaxClock`) order two stamps; one tick
  (`MaxTicks`). Seven cells for two groups of six is a cache in which one group
  pushes out a part of the other. The TTL is two units and the clock goes to
  two, so that a histogram can be seen again, expire, or be evicted.
* `Webhook`: `MaxDeliveries` is three on two handlers, so that a delivery fails
  while another works and a third comes after both. The deliveries contain one
  for each condition of `ServeHTTP`.
* `LogEntries`: sizes up to six stand for a megabyte, a timestamp takes two of
  them. Two files (`MaxFiles`) are what the builder can confuse; three lines are
  an entry, a line that fills it up and one that does not fit any more.
* `SpanTree`: two attempts of a run and another run; jobs two of whose names begin
  with that of a third, one of them with a digit after it, steps 1, 2 and 12, so
  that texts are prefixes of each other and one is another; a job without steps,
  one whose last step has no completion time, a step without a log. The module has
  no counter that grows.
* `DroneReceiver`: `Bounds` gives each set of pipelines its own. The scraper alone
  has two builds and two scrapes: a restart is a second build, and a property of
  samples compares two. The handler of traces and logs has two builds and two
  webhooks, so that one can come late or again; that of logs only has one build.
  All together have one build, two scrapes and two webhooks. Three shapes: a
  configured branch with two stages, a skipped step and lines within a second;
  the same commit and branch in a repository that is not configured; a branch
  that is not configured. Two stations and one outcome let a build skip, pass and
  end. There is one handler, as handlers share nothing but history; the theorems
  hold for any number. The run has `StartHook = TRUE`: it shows what `scrape`
  does once it is reached with a pool. Its configuration and that of
  `drone_unconnected` switch the deadlock check off, because a process that exited
  stops.

**Fairness.** `MetricsHandler`: a goroutine that can run does (weak fairness of
each goroutine's work) and `sync.Mutex` starves nobody (strong fairness of
`Lock`): Go's mutex hands itself over to a waiter of more than a millisecond.
Consumers are assumed to return. `ReceiverLifecycle`: goroutines run, and
`select` picks a case that is ready infinitely often (Go chooses at random), so
`TickerReturns` is strongly fair; nothing is assumed of the collector starting
to stop, or of HTTP handlers returning. `Webhook`: goroutines run and consumers
return (weak fairness of `Local`), while GitHub need not answer: the requests to
it have no deadline, and the property excepts them. `DroneReceiver`: the
handlers' own steps are taken, consumers return; neither Drone's answers, whose
client has no deadline either, nor the scraper need be fair, and the property
excepts a handler that waits for Drone. `LogEntries` and `SpanTree` state safety
only.

## 4. Runs that find a disagreement

Five runs show that the code does not do what a document, a comment or a test of
the repository says; PROJECT.json quotes the lines.

| Run | Violated | How |
| --- | --- | --- |
| `metrics_out_of_order` | `CounterArrivesMonotonic` | two handlers release the lock, then call the consumer in the other order |
| `metrics_evicted_sibling` | `CounterArrivesMonotonic` | one cell of a group is evicted; its next event zeroes the siblings still cached |

| `span_ids_collide` | `IdsIdentify` | a job `build2` and step 2 of a job `build` of the same attempt get one span identifier |
| `log_long_line` | `EveryEntryIsRecorded` | a line as long as the scanner's buffer ends the reading of its file |
| `drone_unconnected` | `ScrapeHasPool` | the metrics controller is not given `droneScraper.Start`; the first scrape uses a nil pool |

Each has a theorem beside it that says how far the disagreement goes:
`OneHandlerArrivesInOrder`, `AlikeIsConfusable`, `ReadableEntriesAreRecorded` and
`UnhookedNeverEmits` (section 5).

Disagreements met while modelling that have no run of their own. The models
contain the behaviour, their instances stay clear of it or allow it:

* Run events read the time before they take the lock
  (`GHA/metric_event_handling.go:204`), job events after (`:103`): samples of
  run counters may be out of order. `JobSamplesOrdered` is therefore about jobs.
* A job labelled `default` shares the cache keys of runs
  (`GHA/metric_event_handling.go:34`). `CountersExact` counts events by key.
* A run with the action `requested`, of which a test says that it "produces no
  metric" (`GHA/metric_duration_test.go:395`), panics: nothing is recorded and
  `At(0)` of the empty emission is out of range
  (`GHA/metric_event_handling.go:252`). So does any event whose counter is
  disabled, and a job of that kind (`:166`). `metrics_counters` delivers such
  runs; `UnrecordedPanic` says that these panic, and no others.
* Names with colons can share the key of a histogram (`GHA/metric_duration.go:109`).
* The name of a self-hosted runner without an underscore panics
  (`GHA/trace_attributes.go:57`), and so does a run without a start time.
  `Webhook` has both (`runnerSplits`, `started`).
* The default path is `/ghaevents` (`GHA/factory.go:20`), the receiver's README
  says `/events` (line 34).
* A line that does not fit its entry is skipped and a later, shorter one still
  appended (`GHA/log_event_handling.go:322`), where line 28 says "truncated".
* The texts of trace and step identifiers have no separators
  (`GHA/trace_event_handling.go:219`, `:269`), unlike the receiver's README
  (lines 224, 226), and span identifiers are characters 16 to 31 of the hash
  (`:238`), where the README's scripts cut the first 16. Without separators the
  runs 1 attempt 11 and 11 attempt 1 share a trace, and so do a job named like
  another one followed by a digit and a step of that other one; GitHub's run IDs
  are long and grow, which makes the first unlikely. The second is the run
  `span_ids_collide`, on the instance of `span_tree`.
* The span of a job takes its end from its last step
  (`GHA/trace_event_handling.go:84`) before `createSpan` replaces a completion
  time that is zero (`:192`, `:193`): such a job's span ends at the zero time,
  before it begins. `SeveralJobs` has such a job, and `JobCoversSteps` says so
  of it.
* The Drone receiver's `ServeHTTP` does not look at the path, although `path` is
  a setting; its comment gives the default as `/events` (`DR/config.go:29`), the
  factory as `/drone/webhook` (`DR/factory.go:18`).
* `handleEvent` compares the repository's branch with the configured ones, the
  scraper's queries the build's source branch: a build of a branch that is not
  configured is traced if the repository's default branch is.
* Restarts group builds by commit and branch without the repository: a build of
  the same commit in a fork counts as a restart.
* A webhook whose event has no repository panics where the build is read
  (`DR/handler.go:30`), before the check for a missing build.
* The Drone receiver offers logs after the traces they belong to were refused
  (`DR/receiver.go:149`), unlike the GitHub Actions receiver.
* Drone sends every change as `updated`; each that arrives after the build's end
  makes another trace of it, with other identifiers.
* `Start` of the scraper waits for `pgxpool.New`, which parses the connection
  string and connects later: its loop does not find out that a database is down.

## 5. Proofs

The theorems hold for every value of the constants and assume nothing but the
named `ASSUME`s of the modules, which TLC evaluates for each instance. Some have
a hypothesis besides, on what GitHub or Drone sends, because the code is wrong
without it. Five are operators of the modules, and the instances of the passing
runs are held to them (`InstanceAssumption` of their MC modules):

| Hypothesis | Says | Why it may be assumed |
| --- | --- | --- |
| `RunsApart` (`SpanTree`) | no run ID begins with another one's digits | texts of identifiers have no separators (section 4); IDs are of one length for years |
| `NamesApart` (`SpanTree`) | the jobs of an attempt have different names | identifiers are made of a job's name and not of its number; a workflow chooses the names, and GitHub adds the values to those of a matrix |
| `StepsInTurn` (`SpanTree`) | the steps of a job follow each other | a runner works on one step at a time |
| `KeysTold` (`MetricsHandler`) | different dimensions have different histogram keys | false only for names with colons (section 4) |
| `LinesInTurn` (`DroneWebhook`) | a step's log lines are in order, and fewer than a second has nanoseconds | Drone numbers lines as they are written, and limits logs |

Two more are cases and no assumptions on the code: one handler at a time
(`OneHandlerArrivesInOrder`), and the controller as the factory makes it
(`~StartHook`, `UnhookedNeverEmits`).

`Induction` holds what the others share. The provers cannot instantiate the
library's theorems that take an operator, so induction is stated over sets: a
set of numbers that has 0 and with every number the next has all of them
(`Induct`, from least elements), likewise for subsets of a finite set
(`InductOnSubsets`). From this follows what `SumFunctionOnSet` of the community
modules computes, although it is a fold over an arbitrary order: it is the one
function that satisfies its recursion (`SumsAgree`, `SumsExist`, `SumIs`), any
summand may be taken first (`SumNat`), and sizes of disjoint sets add up
(`SumOfCounts`).

`MetricsHandlerProofs`, for any sets of handlers, groups, events and any bounds:

* `TypeCorrect`: `Spec => []TypeOK`.
* `MutualExclusion`: a goroutine inside the critical section holds the mutex.
* `CountersAreExact`: `Spec => []CountersExact`. `CountersExact` alone is not
  inductive: between `Load` and `Store` the handler works with a value it read
  earlier. The inductive invariant adds that this value is still the cached one
  (`LoadInv`), which needs that nobody else is inside the section (`LockInv`),
  and that a cell that is not cached and was never evicted was never counted.
* `EmissionsPrivate`: `Spec => []EmissionsArePrivate`, from `PrivateInv`: the
  builder is empty when the lock is free and holds points of its holder only.
* `JobSamplesInOrder`: `Spec => []JobSamplesOrdered`. A job reads the clock
  after it took the lock, so its stamp is not younger than the clock and not
  older than that of anybody before (`StampInv`), and its value is the number of
  events counted so far (from `IInv`). `SampleInv` compares every point that
  exists, in the builder, in a handler's hands or at the consumer, with every
  other.
* `OnlyUnrecordedPanic`: `Spec => []UnrecordedPanic`. Who emits holds the lock, so
  the builder has the points of its own event (`PrivateInv`), and none if nothing is
  recorded of it (`EmptyInv`).
* `OneHandlerArrivesInOrder` delimits those of `metrics_out_of_order` and
  `metrics_evicted_sibling`: with one handler, the ticker beside it, the counters
  of a group that was never evicted arrive in their order, for any events.
  `ArrivalInv` says that no point on its way is below one that arrived; accepting
  an emission keeps this because then nothing else with counters is on its way.

`MetricsCachesProofs`, for any cache sizes and TTL too, if the generated maps of
statuses and conclusions are finite (`AttributeAssumption`):

* `LimitsHold`: `Spec => []CachesWithinLimits`. `Evicting` says that what
  `Victims` drops brings a finite cache back to its size, `OrdersUse` and
  `OrdersWithout` that using and dropping keys leave a strict order of the keys
  that are left. `CacheInv` adds that the caches are finite, which an eviction
  needs to count keys.
* `HistogramsLive`: `Spec => LiveHistogramsSurvive`. `HistInv` says that no
  histogram was last seen in the future, so that the sweep which follows an
  observation cannot take it for old unless it was.
* `DurationsAddUp`: with `KeysTold`, `Spec => []HistogramsExact`. `ExactInv` lets a
  key that is not cached stand for an empty histogram, so that the first
  observation is no special case. `InBucketIff` says that `BucketOf`, which counts
  the bounds below a duration, finds the one bucket between whose bounds it lies,
  for any increasing bounds; `ObservedMore`, that an observation adds one there and
  nothing elsewhere.

`WebhookProofs`, for any finite set of handlers, any deliveries and pipelines:

* `TypeCorrect`, `NothingUnvalidated`, `LinksResolve`, `AcceptedIsOffered` and
  `FilesStayAccounted`: every invariant of the run. The inductive invariant
  `SafeInv` says for each place of `ServeHTTP` what a handler that is there knows
  and has done (`Progress`): what the checks found, which consumers were called,
  that `linked` stands for an accepted root span of the same delivery. What a
  consumer was called with was offered by a handler that had come so far
  (`OfferedByHandlers`). `FilesAccounted` relates counters to the number of
  handlers at certain places; `Counted` says how these cardinalities change when
  one handler moves, which is why the set of handlers must be finite.

`ReceiverLifecycleProofs`, for any set of signals and handlers:

* `TypeCorrect` and `RegisteredUntilStoppedAlways`. The invariant that is
  inductive says what the wait group counts (`WgInv`), what the onces have seen
  (`StartInv`), how the calls follow each other (`PhaseInv`), and that nothing
  is alive once `Shutdown` returned (`StopInv`).
* `Implements`: `Spec => ServiceSpec`. Initial states map to initial states; the
  first call of the receiver's `Start`, the end of its last goroutine and the
  return of its `Shutdown` map to the steps of `OneService`, all other steps
  stutter. `WgInv` gives what the abstract stop demands: when the wait is over
  nobody works any more.

`LogEntriesProofs`, for any number of files with any lines and any limit:

* `TypeCorrect`, `LimitIsKept` (no body over `maxLogEntryBytes`, from the same
  bound on the builder, `SizeInv`) and
* `BuilderIsPrivate`: `Spec => []RecordsStayInStep`. A record is made when the
  next entry begins or the file ends, from what the builder gathered before;
  `BuilderInv` says of the builder that it is empty between files, and holds
  lines of an entry of the file being read, after whose beginning no other began.

* `BodiesAddUp`: `Spec => []RecordsWithinLimit`, and
* `RecordsAreTheEntries`: `Spec => []RecordsAreEntries`. `LinesInv` and `OrderInv`
  say that builder and records hold lines that were read, that what they hold
  adds up to their sizes and is in order; `EntriesInv`, that an entry whose
  file keeps the limits is a record, or in the builder as far as it was read.
  A line of such an entry always fits, because a part of a text is not longer
  than the text (`TextOfPart`).
* `ReadableEntriesAreRecorded` delimits the finding of `log_long_line`: of a file
  without such a line no entry is lost, whatever the other files are.

`SpanTreeProofs`, for any runs, jobs with any steps and archives:

* `StatusesAgree`: `Spec => []JobStatusFromSteps`. Every span taken is that of a
  known job or of one of its steps (`Known`), and a job's span was taken together
  with all of its steps' (`Whole`).
* `SpanTypes`: `Spec => []TypeOK`.
* `AlikeIsConfusable`: `Spec => []AlikeOnlyIfConfusable`, for any names and numbers.
  The same invariant says what each identifier was made of; what remains is which
  texts put together without separators can be equal: those of runs one of whose
  IDs begins with the other's, and those of jobs one of whose names is the other's
  with digits after it. This delimits the finding of `span_ids_collide`.
* `SpansAreOneTree` with `RunsApart` and `NamesApart`, `LinksToPreviousAttempt` with
  `RunsApart`: `Spec => []` of `OneTree` and `PreviousAttemptLinked`. They need less
  than different identifiers: a parent is a job's or a run's span, whose texts end
  in a name or a letter.
* `LogsAreOfSteps`: `Spec => []LogsFindTheirStep`, for any names and numbers, and
  archives laid out as section 2 says, whichever steps have a file. Names with a
  slash, for which the code would take a part of the name for the directory, are
  excluded by `JobAssumption`.
* `JobsCoverSteps`, with `StepsInTurn`: `Spec => []JobCoversSteps`, by induction
  over the steps of a job.

`DroneReceiverProofs`, for any builds, configuration, pipelines, handlers and
bounds. Drone's part is shown first: whatever it does, builds stay, shapes stay
and the status of a finished build stays (`TableGrows`).

* `TypeCorrect`: `Spec => []TypeOK`, with `ServerInv` (a webhook about a finished
  build is still true of the table) and `HookInv` (what a handler or a history
  says of a build was said by such a webhook).
* `TracesAreCounted`: `Spec => TracedBuildsAreCounted`, from these two: a traced
  build is in the table with the status of its trace, hence in a group of the
  query, whose count is at least that of the traced builds in it (`ValueIsCount`).
* `UnhookedNeverEmits`: with the controller as `newMetricsReceiver` makes it
  (`~StartHook`) there is never a pool, the first scrape ends the process and
  nothing is consumed, whatever Drone does. The other theorems about the scraper
  say what `scrape` does once it is given a pool.
* `EmissionsAreScrapes`: `Spec => []EmissionsOfOneScrape`. The builder is empty
  between scrapes, and in one it holds what the queries done so far recorded, each
  series once (`BufferInv`).
* `RestartsRise`: `Spec => []RestartsNeverFall`. What was consumed is no more than
  the table has now (`RestartsInv`), and the table's number only grows; a failed
  query's zero is in the builder only while `failed` holds.
* `InfoAdvances`: `Spec => []InfoMovesOn`. For a point of a finished build the
  next choice for its branch is that build or a later one (`InfoInv`), since
  finished builds are rivals for ever and the assumption says that no outcome is
  excluded from the query.
* `BuildsCountedOnce`: `Spec => BuildsAddUp`. The points of the first query are one
  for each group with a build of a known status (`PointsAreCounts`), and the
  groups share no build, so that their counts add up to the number of builds
  (`SumOfCounts`).
* `LogsArePassedOn`: `Spec => []StepLogsKept`. No two handlers work on one webhook
  (`SerialInv`); while one asks for the logs of step after step, its answers are
  those to the steps it has asked for so far (`AskedInv`); what it offers is made of
  them, and nothing is asked for that webhook afterwards (`OfferedInv`).
  `Flattened` says what the nested loops over stages and steps come to, which the
  model writes with `FlattenSeq`.
* `LinesKeepOrder`: with `LinesInTurn`, `Spec => []LineTimes`. `DeltaCounts`
  says what the recursive function `Delta` computes: how many lines of the same
  second came before.

Only model-checked: the liveness properties (`EveryDeliveryFinishes`,
`ShutdownReturns`, `AnsweredUnlessGitHubIsSilent`, `HandledUnlessDroneIsSilent`;
fairness and ENABLED are out of the prover's reach), and what the five runs of
section 4 refute. Every invariant and every action property of a passing run is
the subject of a theorem.

## 6. Not modelled

`internal/semconv` (constants), `internal/components` (a list), generated
configuration, log and status code, `DR/internal/mocks`, `internal/tools`, the
distribution manifest, Docker files and CI: no logic of their own. The code of
`DR/sharedcomponent.go` is that of `internal/sharedcomponent`, and `Start` and
`Shutdown` of the Drone receiver are those of the GitHub Actions receiver without
the ticker: `ReceiverLifecycle` models them for the latter, and a second copy
would ask nothing new. `Config.Validate` of the GitHub Actions receiver checks
single settings; what follows from them (a path, a secret or none) is in the
deliveries of `Webhook`. Metrics can be switched off one by one: the counters of
`MetricsHandler` by `EnabledMetrics`, for which the theorems hold and which the
runs leave on; those of the Drone receiver are all on.

Left out of modelled parts: logging, attribute values no property is about, the
gzip and zip formats, how GitHub and Drone sign, database drivers and the text of
queries (quotes in names included). Job directories in an archive are taken to be
named like the job; GitHub may shorten or replace characters of a name, which
then has records that point at no span. Crash recovery does not arise: nothing is
persisted, counters begin again at zero with the process.

## 7. Plan

Done, in the order of importance: the metrics handler with its proofs, the order
of samples and the caches included; the lifecycle with its refinement and
proofs; the webhook and its proofs; log records with their proofs; the span tree
with the archive of logs, and the proofs of its identifiers; the Drone receiver,
its parts composed, and its proofs. To do:

1. The flags that switch off the Drone receiver's metrics, as `EnabledMetrics` of
   `MetricsHandler` is for the counters; its runs have them all on.
2. The order in which the collector starts and stops the Drone receiver's scraper
   and server, should they come to share more than the configuration.
3. An abstract specification of the metrics handler, a map of counters that is
   updated at one instant, which the locked section implements while nothing is
   evicted.
