---------------------------- MODULE MetricsHandler ----------------------------
(***************************************************************************)
(* metricsHandler of receiver/githubactionsreceiver: HTTP handlers and the *)
(* build-info ticker turn events into metrics under one mutex, and pass    *)
(* the result to the metrics consumer after they have released it.         *)
(*                                                                         *)
(* A delivery is one webhook request.  Its group stands for the triple     *)
(* (repository, sorted labels, head branch is main) of a counter key; the  *)
(* labels of a run are always "default", so RunGroups are the groups with  *)
(* that label string and JobGroups those the labels of jobs produce.       *)
(***************************************************************************)
EXTENDS LruOrder, DurationHistogram

CONSTANTS
  Handlers,            \* the goroutines net/http serves deliveries on
  Ticker,              \* the goroutine that emits build_info
  Nobody,              \* the holder of a free mutex
  JobGroups, RunGroups,
  Statuses,            \* the status attribute values, in both generated maps
  Conclusions,         \* the conclusion attribute values, likewise
  Events,              \* the events that may be delivered
  EnabledMetrics,      \* the counters the configuration leaves enabled
  CountersCacheSize,   \* metricsMaxCacheSize
  HistogramCacheSize,
  MaxEvents,           \* bound: deliveries received
  MaxTicks,            \* bound: build_info emissions
  MaxClock             \* bound: clock readings told apart

Groups  == JobGroups \cup RunGroups
Cells   == Groups \X Statuses \X Conclusions
Kinds   == {"job", "run"}
Procs   == Handlers \cup {Ticker}
NoCell  == <<"build_info">>

\* What the handler reads of an event.  wellFormed: repository and payload are
\* there and the repository has a name.  workflow, job: the names, cut at each
\* colon.  oneStep: the job lists exactly one step.  timed: the timestamps
\* its duration is computed from are not zero.
EventType ==
  [kind : Kinds, wellFormed : BOOLEAN, group : Groups, action : STRING,
   conclusion : STRING, oneStep : BOOLEAN, workflow : Seq(STRING),
   job : Seq(STRING), timed : BOOLEAN, duration : Int]

InfoEvent == [kind |-> "info"]

ASSUME HandlerAssumption ==
  /\ Ticker \notin Handlers /\ Nobody \notin Procs
  /\ {"completed", "aborted"} \subseteq Statuses
  /\ {"null"} \subseteq Conclusions
  /\ \A e \in Events :
       /\ e.kind \in Kinds
       /\ e.group \in IF e.kind = "job" THEN JobGroups ELSE RunGroups
  /\ EnabledMetrics \subseteq Kinds \cup {"info"}
  /\ CountersCacheSize \in Nat \ {0} /\ HistogramCacheSize \in Nat \ {0}
  /\ MaxEvents \in Nat /\ MaxTicks \in Nat /\ MaxClock \in Nat

\* The records have the fields above, and the generated maps are finite.
ASSUME EventAssumption == Events \subseteq EventType
ASSUME AttributeAssumption == IsFiniteSet(Statuses) /\ IsFiniteSet(Conclusions)

VARIABLES
  pc,        \* where each goroutine is
  ev,        \* the event it works on
  stamp,     \* its local now
  cur,       \* its locals curVal and found
  out,       \* the metrics it got from Emit and has not passed on yet
  mu,        \* the holder of m.mu
  counters,  \* countersCache: values of the cached cells
  recency,   \* countersCache: order of use
  hists,     \* histogramCache: states of the cached keys
  histOrder, \* histogramCache: order of use
  buffer,    \* the data points in the metrics builder
  sink,      \* what the consumer accepted, in order of the calls
  seen,      \* history: events counted, per kind and cell
  lost,      \* history: the cells countersCache ever evicted
  measured,  \* history: durations in order of observation, per set of dimensions
  dropped,   \* history: the keys histogramCache ever evicted or swept
  clock, received, ticks

locals   == <<pc, ev, stamp, cur, out>>
caches   == <<counters, recency, hists, histOrder>>
history  == <<seen, lost, measured, dropped>>
bounds   == <<clock, received, ticks>>
vars     == <<locals, mu, caches, buffer, sink, history, bounds>>
-------------------------------------------------------------------------------
\* Mutant of ConclusionOf: no fallback to null.
ConclusionAsSent(e) == e.conclusion

\* The status and the conclusion an event is counted under.
ConclusionOf(e) == IF e.conclusion \in Conclusions THEN e.conclusion ELSE "null"

StatusOf(e) ==
  IF /\ e.kind = "job" /\ e.oneStep
     /\ e.action = "completed" /\ ConclusionOf(e) = "cancelled"
    THEN "aborted" ELSE e.action

CellOf(e)    == <<e.group, StatusOf(e), ConclusionOf(e)>>
CellsOf(g)   == {g} \X Statuses \X Conclusions
Counted(e)   == e.wellFormed /\ e.action \in Statuses

\* The attributes of a duration data point; a run has no job name.
Dimensions(e) ==
  [kind |-> e.kind, group |-> e.group, conclusion |-> e.conclusion,
   workflow |-> e.workflow, job |-> IF e.kind = "job" THEN e.job ELSE <<>>]

\* The key of a duration histogram: its dimensions joined by colons.  Assumed: the
\* repository, labels, conclusion and is-main parts, which the model has as one
\* value, contain none.
HistogramKey(dims) ==
  <<dims.kind, dims.group, dims.conclusion>> \o dims.workflow \o dims.job

\* No two names are the same once their parts are joined.
KeysTold ==
  \A d, e \in {Dimensions(x) : x \in Events} : HistogramKey(d) = HistogramKey(e) => d = e

Measured(e) == e.action = "completed" /\ e.timed

\* Mutant of StampsLocked: jobs do as runs do.
OnlyInfoStampsLocked(e) == e.kind = "info"

\* workflowRunEventToMetrics reads the time before it takes the lock, the others
\* after.
StampsLocked(e) == e.kind # "run"

\* A data point as recordDataPoint builds it: nothing for a disabled metric.
Points(kind, cellValues, now) ==
  IF kind \in EnabledMetrics
    THEN {[metric |-> kind, cell |-> c, val |-> cellValues[c], ts |-> now] :
            c \in DOMAIN cellValues}
    ELSE {}

AfterLock(e) ==
  IF e.kind = "info" THEN "build_info" ELSE IF Counted(e) THEN "load" ELSE "emit"
-------------------------------------------------------------------------------
NoCur == [val |-> 0, found |-> FALSE]

Init ==
  /\ pc = [p \in Procs |-> "idle"] /\ ev = [p \in Procs |-> InfoEvent]
  /\ stamp = [p \in Procs |-> 0] /\ cur = [p \in Procs |-> NoCur]
  /\ out = [p \in Procs |-> {}]
  /\ mu = Nobody
  /\ counters = <<>> /\ recency = {} /\ hists = <<>> /\ histOrder = {}
  /\ buffer = {} /\ sink = <<>>
  /\ seen = [k \in Kinds |-> [c \in Cells |-> 0]] /\ lost = {}
  /\ measured = [d \in {Dimensions(e) : e \in Events} |-> <<>>] /\ dropped = {}
  /\ clock = 0 /\ received = 0 /\ ticks = 0

\* A delivery reaches its converter.
Receive(h, e) ==
  /\ pc[h] = "idle" /\ received < MaxEvents
  /\ pc' = [pc EXCEPT ![h] = "waiting"] /\ ev' = [ev EXCEPT ![h] = e]
  /\ stamp' = IF StampsLocked(e) THEN stamp ELSE [stamp EXCEPT ![h] = clock]
  /\ received' = received + 1
  /\ UNCHANGED <<cur, out, mu, caches, buffer, sink, history, clock, ticks>>

\* The ticker fires, or has just been started.
Tick ==
  /\ pc[Ticker] = "idle" /\ ticks < MaxTicks
  /\ pc' = [pc EXCEPT ![Ticker] = "waiting"]
  /\ ticks' = ticks + 1
  /\ UNCHANGED <<ev, stamp, cur, out, mu, caches, buffer, sink, history, clock, received>>

\* Mutant of LockFree: no mutex.
LockFreely == TRUE

\* When m.mu.Lock returns.
LockFree == mu = Nobody

Lock(p) ==
  /\ pc[p] = "waiting" /\ LockFree
  /\ mu' = p
  /\ pc' = [pc EXCEPT ![p] = AfterLock(ev[p])]
  /\ stamp' = IF StampsLocked(ev[p]) THEN [stamp EXCEPT ![p] = clock] ELSE stamp
  /\ UNCHANGED <<ev, cur, out, caches, buffer, sink, history, bounds>>

\* curVal, found := loadFromCache(...)
Load(p) ==
  /\ pc[p] = "load"
  /\ LET c == CellOf(ev[p])
         found == c \in DOMAIN counters
     IN  /\ cur' = [cur EXCEPT ![p] =
                      [val |-> IF found THEN counters[c] ELSE 0, found |-> found]]
         /\ recency' = IF found THEN Use(recency, DOMAIN counters, {c}) ELSE recency
  /\ pc' = [pc EXCEPT ![p] = "store"]
  /\ UNCHANGED <<ev, stamp, out, mu, counters, hists, histOrder, buffer, sink, history, bounds>>

\* Mutant of Stores: found is ignored.
StoresZeroAlways(p) ==
  [d \in CellsOf(ev[p].group) |-> IF d = CellOf(ev[p]) THEN cur[p].val + 1 ELSE 0]

\* The values storeInCache is called with: zero for the rest of a group whose
\* cell was not cached, and the incremented counter.
Stores(p) ==
  LET c == CellOf(ev[p])
  IN  [d \in {c} \cup (IF cur[p].found THEN {} ELSE CellsOf(ev[p].group)) |->
         IF d = c THEN cur[p].val + 1 ELSE 0]

Store(p) ==
  /\ pc[p] = "store"
  /\ LET c      == CellOf(ev[p])
         stores == Stores(p)
         cached == DOMAIN counters \cup DOMAIN stores
         order  == Use(Use(recency, cached, DOMAIN stores \ {c}), cached, {c})
     IN  /\ \E V \in Victims(cached, order, CountersCacheSize) :
              /\ counters' = [d \in cached \ V |->
                                IF d \in DOMAIN stores THEN stores[d] ELSE counters[d]]
              /\ recency' = Without(order, V)
              /\ lost' = lost \cup (cached \cap V)
         /\ buffer' = buffer \cup Points(ev[p].kind, stores, stamp[p])
         /\ seen' = [seen EXCEPT ![ev[p].kind][c] = @ + 1]
  /\ pc' = [pc EXCEPT ![p] = "emit"]
  /\ UNCHANGED <<ev, stamp, cur, out, mu, hists, histOrder, sink, measured, dropped, bounds>>

\* buildInfoMetrics: RecordBuildInfoDataPoint.
BuildInfo(p) ==
  /\ pc[p] = "build_info"
  /\ buffer' = buffer \cup Points("info", [c \in {NoCell} |-> 1], stamp[p])
  /\ pc' = [pc EXCEPT ![p] = "emit"]
  /\ UNCHANGED <<ev, stamp, cur, out, mu, caches, sink, history, bounds>>

\* Mutant of HistogramOf: the latest event only.
FreshHistogram(k) == NewHistogramState

\* The histogram an observation is added to.
HistogramOf(k) == IF k \in DOMAIN hists THEN hists[k] ELSE NewHistogramState

\* append{Job,Run}DurationMetric and sweepStaleHistograms.
Measure(p) ==
  LET e     == ev[p]
      k     == HistogramKey(Dimensions(e))
      state == Observe(HistogramOf(k), e.duration, clock)
      cached == DOMAIN hists \cup {k}
      order == Use(histOrder, cached, {k})
  IN  \E V \in Victims(cached, order, HistogramCacheSize) :
        LET states == [d \in cached \ V |->
                         IF d = k THEN state ELSE hists[d]]
            gone   == V \cup Stale(states, clock)
        IN  /\ hists' = Restrict(states, DOMAIN states \ gone)
            /\ histOrder' = Without(order, gone)
            /\ out' = [out EXCEPT ![p] = buffer \cup
                 {[metric |-> "duration", dims |-> Dimensions(e), count |-> state.count,
                   sum |-> state.sum, bucketCounts |-> state.bucketCounts]}]
            /\ measured' = [measured EXCEPT ![Dimensions(e)] = Append(@, e.duration)]
            /\ dropped' = dropped \cup gone

Sweep(p) ==
  LET gone == Stale(hists, clock)
  IN  /\ hists' = Restrict(hists, DOMAIN hists \ gone)
      /\ histOrder' = Without(histOrder, gone)
      /\ out' = [out EXCEPT ![p] = buffer]
      /\ dropped' = dropped \cup gone
      /\ UNCHANGED measured

\* ResourceMetrics().At(0) of an emission in which nothing was recorded.
Panics(e, points) == e.kind \in Kinds /\ e.wellFormed /\ points = {}

\* Mutant of MovedOut: emit does not initialise its data again.
NotMovedOut == buffer

\* What is left in the builder once Emit has moved its data out.
MovedOut == {}

\* m.mb.Emit, the rest of the function, and the deferred m.mu.Unlock.
Emit(p) ==
  /\ pc[p] = "emit" /\ ~Panics(ev[p], buffer)
  /\ IF ev[p].kind \in Kinds /\ ev[p].wellFormed
       THEN IF Measured(ev[p]) THEN Measure(p) ELSE Sweep(p)
       ELSE /\ out' = [out EXCEPT ![p] = buffer]
            /\ UNCHANGED <<hists, histOrder, measured, dropped>>
  /\ buffer' = MovedOut /\ mu' = Nobody
  /\ pc' = [pc EXCEPT ![p] = "consume"]
  /\ UNCHANGED <<ev, stamp, cur, counters, recency, sink, seen, lost, bounds>>

\* Mutant of Unlocked: m.mu.Unlock() as the last statement, without defer.
StillLocked == mu

\* The panic unwinds through the deferred unlock.
Unlocked == Nobody

EmitPanics(p) ==
  /\ pc[p] = "emit" /\ Panics(ev[p], buffer)
  /\ mu' = Unlocked
  /\ pc' = [pc EXCEPT ![p] = "panicked"]
  /\ UNCHANGED <<ev, stamp, cur, out, caches, buffer, sink, history, bounds>>

\* The locals go with the calls that held them.
Return(p) ==
  /\ pc' = [pc EXCEPT ![p] = "idle"] /\ ev' = [ev EXCEPT ![p] = InfoEvent]
  /\ stamp' = [stamp EXCEPT ![p] = 0] /\ cur' = [cur EXCEPT ![p] = NoCur]
  /\ out' = [out EXCEPT ![p] = {}]

\* net/http recovers it and drops the connection.
Recover(h) ==
  /\ pc[h] = "panicked"
  /\ Return(h)
  /\ UNCHANGED <<mu, caches, buffer, sink, history, bounds>>

\* ConsumeMetrics; an error is only logged.
Consume(p, accepted) ==
  /\ pc[p] = "consume"
  /\ sink' = IF accepted THEN Append(sink, out[p]) ELSE sink
  /\ Return(p)
  /\ UNCHANGED <<mu, caches, buffer, history, bounds>>

\* Time passes.
Advance ==
  /\ clock < MaxClock
  /\ clock' = clock + 1
  /\ UNCHANGED <<locals, mu, caches, buffer, sink, history, received, ticks>>

\* What a goroutine does once it has an event.
Work(p) ==
  \/ Load(p) \/ Store(p) \/ BuildInfo(p) \/ Emit(p) \/ EmitPanics(p)
  \/ Recover(p) \/ \E accepted \in BOOLEAN : Consume(p, accepted)

\* Every goroutine waits for a request or for the next tick.
Idle == (\A p \in Procs : pc[p] = "idle") /\ UNCHANGED vars

Next ==
  \/ Idle
  \/ \E h \in Handlers, e \in Events : Receive(h, e)
  \/ Tick
  \/ Advance
  \/ \E p \in Procs : Lock(p) \/ Work(p)

Spec == Init /\ [][Next]_vars

\* A goroutine that can run does, and sync.Mutex starves nobody.
Fairness == \A p \in Procs : SF_vars(Lock(p)) /\ WF_vars(Work(p))

FairSpec == Spec /\ Fairness
-------------------------------------------------------------------------------
Section == {"build_info", "load", "store", "emit"}

\* Every variable the handlers share keeps its type.
TypeOK ==
  /\ pc \in [Procs -> {"idle", "waiting", "consume", "panicked"} \cup Section]
  /\ ev \in [Procs -> Events \cup {InfoEvent}]
  /\ stamp \in [Procs -> Nat]
  /\ cur \in [Procs -> [val : Nat, found : BOOLEAN]]
  /\ mu \in Procs \cup {Nobody}
  /\ DOMAIN counters \subseteq Cells /\ counters \in [DOMAIN counters -> Nat]
  /\ seen \in [Kinds -> [Cells -> Nat]]
  /\ lost \subseteq Cells
  /\ clock \in Nat /\ received \in Nat /\ ticks \in Nat

Emissions == Range(sink) \cup Range(out)

\* The counter and build_info points a handler records for its own event.
OwnPoints(e, now, points) ==
  LET counts == {pt \in points : pt.metric # "duration"}
  IN  /\ \A pt \in counts : pt.metric = e.kind /\ pt.ts = now
      /\ e.kind \in Kinds => \A pt \in counts : pt.cell \in CellsOf(e.group)
      /\ e.kind \in Kinds \cap EnabledMetrics /\ Counted(e) =>
           \E pt \in counts : pt.cell = CellOf(e) /\ pt.val > 0

\* What a handler takes out of the shared builder was recorded for its own
\* event: points of its kind, group and time, one of them counting the event.
EmissionsArePrivate ==
  \A p \in Procs : pc[p] = "consume" => OwnPoints(ev[p], stamp[p], out[p])

\* No event is lost or counted twice: as long as the cache never evicted a cell
\* of a group, each of its counters is the number of events of that cell.
CountersExact ==
  \A g \in Groups : CellsOf(g) \cap lost = {} =>
    \A c \in CellsOf(g) :
      (IF c \in DOMAIN counters THEN counters[c] ELSE 0)
        = seen["job"][c] + seen["run"][c]

\* workflowJobEventToMetrics reads the time under the lock, so that a later
\* sample of a job counter that was not evicted is never a smaller one.
JobSamplesOrdered ==
  \A A, B \in Emissions : \A a \in A, b \in B :
    /\ a.metric = "job" /\ b.metric = "job"
    /\ a.cell = b.cell /\ CellsOf(a.cell[1]) \cap lost = {}
    /\ a.ts < b.ts
    => a.val <= b.val

\* The samples of a counter that was never evicted reach the consumer in an order
\* in which its value does not decrease, as the documented monotonic sum.
CounterArrivesMonotonic ==
  \A i, j \in DOMAIN sink : i < j =>
    \A a \in sink[i], b \in sink[j] :
      /\ a.metric \in Kinds /\ b.metric = a.metric
      /\ b.cell = a.cell /\ a.cell \notin lost
      => a.val <= b.val

\* Of two keys of a cache one is the older at most.
Orders(order, keys) ==
  \A x \in order : x \in keys \X keys /\ <<x[2], x[1]>> \notin order

\* The caches hold no more than their size, and what was evicted, swept or used
\* again has left nothing in their orders.
CachesWithinLimits ==
  /\ Orders(recency, DOMAIN counters) /\ Orders(histOrder, DOMAIN hists)
  /\ Cardinality(DOMAIN counters) <= CountersCacheSize
  /\ Cardinality(DOMAIN hists) <= HistogramCacheSize

\* There is one cumulative histogram per set of dimensions: until it is evicted or
\* swept it holds every duration that was observed with them, each in the bucket
\* between whose bounds it lies.
HistogramsExact ==
  \A dims \in DOMAIN measured :
    LET k == HistogramKey(dims)
    IN  k \notin dropped /\ measured[dims] # <<>> =>
          /\ k \in DOMAIN hists
          /\ hists[k].count = Len(measured[dims])
          /\ \A b \in Buckets : hists[k].bucketCounts[b] = HowMany(measured[dims], b)

\* A histogram leaves the cache only when it is a TTL old or the cache is full,
\* and never loses observations while it is there.
LiveHistogramsSurvive ==
  [][\A k \in DOMAIN hists :
       IF k \in DOMAIN hists'
         THEN /\ hists'[k].count >= hists[k].count
              /\ \A b \in Buckets : hists'[k].bucketCounts[b] >= hists[k].bucketCounts[b]
         ELSE \/ clock - hists[k].lastSeen >= HistogramTTL
              \/ Cardinality(DOMAIN hists) = HistogramCacheSize]_vars

\* A well-formed event of which nothing is recorded: its action is no status, or its
\* counter is disabled.
Unrecorded(e) ==
  e.kind \in Kinds /\ e.wellFormed /\ ~(e.kind \in EnabledMetrics /\ Counted(e))

\* A delivery panics in At(0) exactly if nothing of it is recorded: no handler
\* panics because another took its points out of the shared builder, and none is
\* spared by what another left there.
UnrecordedPanic ==
  \A p \in Procs :
    /\ pc[p] = "panicked" => Unrecorded(ev[p])
    /\ pc[p] = "consume" => ~Unrecorded(ev[p])

\* Every delivery that reached its converter gets done, whatever the handlers
\* before it did, and so does every tick.
EveryDeliveryFinishes ==
  \A p \in Procs : pc[p] = "waiting" ~> pc[p] = "idle"
===============================================================================
