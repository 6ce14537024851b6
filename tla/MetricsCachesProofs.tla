-------------------------- MODULE MetricsCachesProofs --------------------------
(***************************************************************************)
(* Theorems about the two caches of MetricsHandler, for any handlers,      *)
(* events, cache sizes and TTL: CachesWithinLimits, that a histogram which *)
(* is neither evicted nor a TTL old stays, LiveHistogramsSurvive, and that *)
(* it holds every observation once, HistogramsExact.                       *)
(***************************************************************************)
EXTENDS MetricsHandlerProofs, Induction

\* The keys that are left in an order are those left in the cache.
LEMMA OrdersWithout ==
  ASSUME NEW order, NEW keys, Orders(order, keys), NEW V, NEW rest, keys \ V \subseteq rest
  PROVE  Orders(Without(order, V), rest)
  BY DEF Orders, Without

\* The keys used last are younger than all others.
LEMMA OrdersUse ==
  ASSUME NEW order, NEW old, Orders(order, old), NEW keys, old \subseteq keys,
         NEW S \in SUBSET keys
  PROVE  Orders(Use(order, keys, S), keys)
<1>1. \A x \in Without(order, S) : /\ x \in keys \X keys /\ <<x[2], x[1]>> \notin order
                                   /\ x[1] \notin S /\ x[2] \notin S
  BY DEF Orders, Without
<1>2. \A x \in (keys \ S) \X S : x \in keys \X keys /\ x[1] \notin S /\ x[2] \in S
  OBVIOUS
<1>3. \A x \in Use(order, keys, S) : <<x[2], x[1]>> \notin Use(order, keys, S)
  BY <1>1, <1>2 DEF Use, Without
<1> QED
  BY <1>1, <1>2, <1>3 DEF Orders, Use

\* An eviction brings a cache back to its size, and happens only over it.
LEMMA Evicting ==
  ASSUME NEW keys, IsFiniteSet(keys), NEW order, NEW size \in Nat,
         NEW V \in Victims(keys, order, size)
  PROVE  /\ IsFiniteSet(keys \ V) /\ Cardinality(keys \ V) <= size
         /\ V # {} => Cardinality(keys) > size
<1>1. Cardinality(keys) \in Nat
  BY FS_CardinalityType
<1>2. CASE Cardinality(keys) <= size
  <2>1. V = {}
    BY <1>2 DEF Victims
  <2> QED
    BY <1>2, <2>1
<1>3. CASE ~(Cardinality(keys) <= size)
  <2>1. V \in SUBSET keys /\ Cardinality(V) = Cardinality(keys) - size
    BY <1>3 DEF Victims, kSubset
  <2>2. /\ IsFiniteSet(keys \ V)
        /\ Cardinality(keys \ V) = Cardinality(keys) - Cardinality(keys \cap V)
    BY FS_Difference
  <2>3. keys \cap V = V
    BY <2>1
  <2>4. Cardinality(keys \ V) = Cardinality(keys) - (Cardinality(keys) - size)
    BY <2>1, <2>2, <2>3, Zenon
  <2>5. Cardinality(keys \ V) = size
    BY <1>1, <2>4
  <2> QED
    BY <1>1, <1>3, <2>2, <2>5
<1> QED
  BY <1>2, <1>3

\* A group has finitely many cells.
LEMMA CellsAreFinite ==
  ASSUME NEW g
  PROVE  IsFiniteSet(CellsOf(g))
<1> DEFINE f == [x \in Statuses \X Conclusions |-> <<g, x[1], x[2]>>]
<1>1. IsFiniteSet(Statuses \X Conclusions)
  BY AttributeAssumption, FS_Product
<1>2. f \in Surjection(Statuses \X Conclusions, CellsOf(g))
  <2>1. \A c \in CellsOf(g) : \E x \in Statuses \X Conclusions : f[x] = c
    <3> SUFFICES ASSUME NEW c \in CellsOf(g)
                 PROVE  \E x \in Statuses \X Conclusions : f[x] = c
      OBVIOUS
    <3>1. <<c[2], c[3]>> \in Statuses \X Conclusions /\ c = <<g, c[2], c[3]>>
      BY DEF CellsOf
    <3> QED
      BY <3>1
  <2>2. f \in [Statuses \X Conclusions -> CellsOf(g)]
    BY DEF CellsOf
  <2> QED
    BY <2>1, <2>2 DEF Surjection
<1> QED
  BY <1>1, <1>2, FS_Surjection
-------------------------------------------------------------------------------
\* CachesWithinLimits with what an eviction must know to count keys.
CacheInv ==
  IsFiniteSet(DOMAIN counters) /\ IsFiniteSet(DOMAIN hists) /\ CachesWithinLimits

\* loadFromCache changes the order only.
LEMMA LoadCaches ==
  ASSUME CacheInv, NEW p \in Procs, Load(p)
  PROVE  CacheInv'
<1>1. UNCHANGED <<counters, hists, histOrder>>
  BY DEF Load
<1>2. Orders(recency', DOMAIN counters)
  <2> DEFINE c == CellOf(ev[p])
  <2>1. CASE c \in DOMAIN counters
    <3>1. recency' = Use(recency, DOMAIN counters, {c})
      BY <2>1 DEF Load
    <3>2. {c} \in SUBSET DOMAIN counters /\ Orders(recency, DOMAIN counters)
      BY <2>1 DEF CacheInv, CachesWithinLimits
    <3> QED
      BY <3>1, <3>2, OrdersUse
  <2>2. CASE c \notin DOMAIN counters
    BY <2>2 DEF Load, CacheInv, CachesWithinLimits
  <2> QED
    BY <2>1, <2>2
<1> QED
  BY <1>1, <1>2 DEF CacheInv, CachesWithinLimits, Orders

\* storeInCache may add a group, and evicts what is over.
LEMMA StoreCaches ==
  ASSUME IInv, CacheInv, NEW p \in Procs, Store(p)
  PROVE  CacheInv'
<1> DEFINE c == CellOf(ev[p])
           S == DOMAIN Stores(p)
           cached == DOMAIN counters \cup S
           order == Use(Use(recency, cached, S \ {c}), cached, {c})
<1>1. c \in S /\ S \subseteq CellsOf(ev[p].group)
  BY CellOfCells DEF Stores, IInv, LoadInv, Store
<1>2. IsFiniteSet(cached)
  <2>1. IsFiniteSet(S)
    BY <1>1, CellsAreFinite, FS_Subset
  <2> QED
    BY <2>1, FS_Union DEF CacheInv
<1>3. Orders(order, cached)
  <2>1. Orders(Use(recency, cached, S \ {c}), cached)
    <3>1. Orders(recency, DOMAIN counters) /\ S \ {c} \in SUBSET cached
      BY DEF CacheInv, CachesWithinLimits
    <3> QED
      BY <3>1, OrdersUse
  <2> QED
    BY <1>1, <2>1, OrdersUse
<1>4. PICK V \in Victims(cached, order, CountersCacheSize) :
        DOMAIN counters' = cached \ V /\ recency' = Without(order, V)
  BY DEF Store
<1>5. IsFiniteSet(cached \ V) /\ Cardinality(cached \ V) <= CountersCacheSize
  BY <1>2, Evicting, HandlerAssumption
<1>6. Orders(recency', DOMAIN counters')
  BY <1>3, <1>4, OrdersWithout
<1>7. UNCHANGED <<hists, histOrder>>
  BY DEF Store
<1> QED
  BY <1>4, <1>5, <1>6, <1>7 DEF CacheInv, CachesWithinLimits, Orders

\* The sweep removes keys only.
LEMMA SweepCaches ==
  ASSUME CacheInv, NEW p \in Procs, Sweep(p), UNCHANGED <<counters, recency>>
  PROVE  CacheInv'
<1>1. PICK gone : DOMAIN hists' = DOMAIN hists \ gone /\ histOrder' = Without(histOrder, gone)
  BY DEF Sweep, Restrict
<1>2. /\ IsFiniteSet(DOMAIN hists') /\ Cardinality(DOMAIN hists') <= Cardinality(DOMAIN hists)
      /\ Cardinality(DOMAIN hists') \in Nat /\ Cardinality(DOMAIN hists) \in Nat
  BY <1>1, FS_Subset, FS_CardinalityType DEF CacheInv
<1>3. Cardinality(DOMAIN hists') <= HistogramCacheSize
  BY <1>2, HandlerAssumption DEF CacheInv, CachesWithinLimits
<1>4. Orders(histOrder', DOMAIN hists')
  BY <1>1, OrdersWithout DEF CacheInv, CachesWithinLimits
<1> QED
  BY <1>2, <1>3, <1>4 DEF CacheInv, CachesWithinLimits, Orders

\* An observation may add a key, which may evict one, and sweeps.
LEMMA MeasureCaches ==
  ASSUME CacheInv, NEW p \in Procs, Measure(p), UNCHANGED <<counters, recency>>
  PROVE  CacheInv'
<1> DEFINE k == HistogramKey(Dimensions(ev[p]))
           cached == DOMAIN hists \cup {k}
           order == Use(histOrder, cached, {k})
<1>1. PICK V \in Victims(cached, order, HistogramCacheSize) :
        \E stale : /\ DOMAIN hists' = (cached \ V) \ (V \cup stale)
                   /\ histOrder' = Without(order, V \cup stale)
  BY DEF Measure, Restrict
<1>2. IsFiniteSet(cached)
  BY FS_AddElement DEF CacheInv
<1>3. IsFiniteSet(cached \ V) /\ Cardinality(cached \ V) <= HistogramCacheSize
  BY <1>2, Evicting, HandlerAssumption
<1>4. IsFiniteSet(DOMAIN hists') /\ Cardinality(DOMAIN hists') <= Cardinality(cached \ V)
  BY <1>1, <1>3, FS_Subset
<1>5. Cardinality(DOMAIN hists') <= HistogramCacheSize
  BY <1>3, <1>4, FS_CardinalityType, HandlerAssumption
<1>6. Orders(order, cached)
  BY OrdersUse DEF CacheInv, CachesWithinLimits
<1>7. Orders(histOrder', DOMAIN hists')
  <2>1. PICK gone : histOrder' = Without(order, gone) /\ cached \ gone \subseteq DOMAIN hists'
    BY <1>1
  <2> QED
    BY <1>6, <2>1, OrdersWithout
<1> QED
  BY <1>4, <1>5, <1>7 DEF CacheInv, CachesWithinLimits, Orders

LEMMA CacheStep == IInv /\ CacheInv /\ [Next]_vars => CacheInv'
<1> SUFFICES ASSUME IInv, CacheInv, [Next]_vars PROVE CacheInv'
  OBVIOUS
<1>1. ASSUME UNCHANGED caches PROVE CacheInv'
  BY <1>1 DEF caches, CacheInv, CachesWithinLimits, Orders
<1>2. CASE Idle \/ Tick \/ Advance \/ UNCHANGED vars
  BY <1>1, <1>2 DEF Idle, Tick, Advance, vars
<1>3. CASE \E h \in Handlers, e \in Events : Receive(h, e)
  BY <1>1, <1>3 DEF Receive
<1>4. ASSUME NEW p \in Procs,
             \/ Lock(p) \/ BuildInfo(p) \/ EmitPanics(p) \/ Recover(p)
             \/ \E accepted \in BOOLEAN : Consume(p, accepted)
      PROVE  CacheInv'
  BY <1>1, <1>4 DEF Lock, BuildInfo, EmitPanics, Recover, Consume
<1>5. ASSUME NEW p \in Procs, Emit(p) PROVE CacheInv'
  <2>1. UNCHANGED <<counters, recency>>
    BY <1>5 DEF Emit
  <2>2. CASE UNCHANGED <<hists, histOrder>>
    BY <1>1, <2>1, <2>2 DEF caches
  <2> QED
    BY <1>5, <2>1, <2>2, MeasureCaches, SweepCaches DEF Emit
<1> QED
  BY <1>2, <1>3, <1>4, <1>5, LoadCaches, StoreCaches DEF Next, Work

LEMMA CacheAlways == Spec => []CacheInv
<1>1. Init => CacheInv
  <2> SUFFICES ASSUME Init PROVE CacheInv
    OBVIOUS
  <2>1. DOMAIN counters = {} /\ DOMAIN hists = {} /\ recency = {} /\ histOrder = {}
    BY DEF Init
  <2> QED
    BY <2>1, FS_EmptySet, HandlerAssumption DEF CacheInv, CachesWithinLimits, Orders
<1> QED
  BY <1>1, CacheStep, SpecIInv, PTL DEF Spec

\* Both caches stay within their sizes, whatever is counted and measured, and their
\* orders are of the keys they hold (storeInCache, appendJobDurationMetric,
\* appendRunDurationMetric, sweepStaleHistograms).
THEOREM LimitsHold == Spec => []CachesWithinLimits
<1>1. CacheInv => CachesWithinLimits
  BY DEF CacheInv
<1> QED
  BY <1>1, CacheAlways, PTL
-------------------------------------------------------------------------------
\* The bucket of a duration is one of a histogram's.
LEMMA BucketOfBuckets ==
  ASSUME NEW duration
  PROVE  BucketOf(duration) \in Buckets
<1> DEFINE below == {i \in DOMAIN DurationBucketBounds : DurationBucketBounds[i] < duration}
<1>1. /\ Len(DurationBucketBounds) \in Nat
      /\ DOMAIN DurationBucketBounds = 1 .. Len(DurationBucketBounds)
  BY HistogramAssumption
<1>2. /\ IsFiniteSet(DOMAIN DurationBucketBounds)
      /\ Cardinality(DOMAIN DurationBucketBounds) = Len(DurationBucketBounds)
  <2>1. ASSUME NEW n \in Nat PROVE IsFiniteSet(1 .. n) /\ Cardinality(1 .. n) = n
    <3>1. IsFiniteSet(1 .. n) /\ Cardinality(1 .. n) = IF 1 > n THEN 0 ELSE n - 1 + 1
      BY FS_Interval
    <3> QED
      BY <3>1
  <2> QED
    BY <1>1, <2>1
<1>3. /\ IsFiniteSet(below) /\ Cardinality(below) \in Nat
      /\ Cardinality(below) <= Len(DurationBucketBounds)
  BY <1>2, FS_Subset, FS_CardinalityType
<1>4. BucketOf(duration) = 1 + Cardinality(below)
  BY DEF BucketOf
<1> QED
  BY <1>1, <1>3, <1>4 DEF Buckets

\* What is cached are histograms, and none was seen in the future.
HistInv == \A k \in DOMAIN hists : hists[k] \in Histogram /\ hists[k].lastSeen <= clock

\* An observation adds to a histogram.
LEMMA Observing ==
  ASSUME NEW state \in Histogram, NEW duration \in Int, NEW now \in Nat
  PROVE  /\ Observe(state, duration, now) \in Histogram
         /\ Observe(state, duration, now).lastSeen = now
         /\ Observe(state, duration, now).count >= state.count
         /\ \A b \in Buckets :
              Observe(state, duration, now).bucketCounts[b] >= state.bucketCounts[b]
  BY BucketOfBuckets DEF Observe, Histogram

\* What LiveHistogramsSurvive demands of a cached key.
Survives(j) ==
  IF j \in DOMAIN hists'
    THEN /\ hists'[j].count >= hists[j].count
         /\ \A b \in Buckets : hists'[j].bucketCounts[b] >= hists[j].bucketCounts[b]
    ELSE \/ clock - hists[j].lastSeen >= HistogramTTL
         \/ Cardinality(DOMAIN hists) = HistogramCacheSize

\* A histogram that is the same as before survives.
LEMMA SameSurvives ==
  ASSUME HistInv, NEW j \in DOMAIN hists, j \in DOMAIN hists', hists'[j] = hists[j]
  PROVE  Survives(j)
<1>1. hists[j] \in Histogram
  BY DEF HistInv
<1> QED
  BY <1>1 DEF Survives, Histogram

\* The sweep removes what is a TTL old.
LEMMA SweepHists ==
  ASSUME HistInv, NEW p \in Procs, Sweep(p), clock' = clock
  PROVE  HistInv' /\ \A j \in DOMAIN hists : Survives(j)
<1>1. hists' = Restrict(hists, DOMAIN hists \ Stale(hists, clock))
  BY DEF Sweep
<1>2. /\ DOMAIN hists' = DOMAIN hists \ Stale(hists, clock)
      /\ \A j \in DOMAIN hists' : hists'[j] = hists[j]
  BY <1>1 DEF Restrict
<1>3. HistInv'
  BY <1>2 DEF HistInv
<1>4. ASSUME NEW j \in DOMAIN hists PROVE Survives(j)
  <2>1. CASE j \in DOMAIN hists'
    BY <1>2, <2>1, SameSurvives
  <2>2. CASE j \notin DOMAIN hists'
    BY <1>2, <2>2 DEF Survives, Stale
  <2> QED
    BY <2>1, <2>2
<1> QED
  BY <1>3, <1>4

\* An observation adds to its histogram; others go if they are a TTL old, or one of
\* a full cache does.
LEMMA MeasureHists ==
  ASSUME IInv, CacheInv, HistInv, NEW p \in Procs, ev[p] \in Events, Measure(p), clock' = clock
  PROVE  HistInv' /\ \A j \in DOMAIN hists : Survives(j)
<1> DEFINE k == HistogramKey(Dimensions(ev[p]))
           cached == DOMAIN hists \cup {k}
           order == Use(histOrder, cached, {k})
           state == Observe(HistogramOf(k), ev[p].duration, clock)
           States(V) == [d \in cached \ V |-> IF d = k THEN state ELSE hists[d]]
<1>1. PICK V \in Victims(cached, order, HistogramCacheSize) :
        hists' = Restrict(States(V), DOMAIN States(V) \ (V \cup Stale(States(V), clock)))
  BY DEF Measure
<1>2. /\ DOMAIN hists' = (cached \ V) \ Stale(States(V), clock)
      /\ \A j \in DOMAIN hists' : hists'[j] = IF j = k THEN state ELSE hists[j]
  BY <1>1 DEF Restrict
<1>3. clock \in Nat /\ ev[p].duration \in Int
  BY EventAssumption DEF IInv, TypeOK, EventType
<1>4. HistogramOf(k) \in Histogram
  <2>1. NewHistogramState \in Histogram
    BY DEF NewHistogramState, Histogram
  <2> QED
    BY <2>1 DEF HistogramOf, HistInv
<1>5. /\ state \in Histogram /\ state.lastSeen = clock
      /\ state.count >= HistogramOf(k).count
      /\ \A b \in Buckets : state.bucketCounts[b] >= HistogramOf(k).bucketCounts[b]
  BY <1>3, <1>4, Observing
<1>6. HistInv'
  <2>1. ASSUME NEW j \in DOMAIN hists'
        PROVE  hists'[j] \in Histogram /\ hists'[j].lastSeen <= clock
    <3>1. CASE j = k
      <4>1. hists'[j] = state
        BY <1>2, <3>1
      <4> QED
        BY <4>1, <1>3, <1>5
    <3>2. CASE j # k
      <4>1. hists'[j] = hists[j] /\ j \in DOMAIN hists
        BY <1>2, <3>2
      <4> QED
        BY <4>1 DEF HistInv
    <3> QED
      BY <3>1, <3>2
  <2> QED
    BY <2>1 DEF HistInv
<1>7. ASSUME NEW j \in DOMAIN hists PROVE Survives(j)
  <2>1. CASE j \in DOMAIN hists' /\ j = k
    <3>1. HistogramOf(j) = hists[j] /\ hists'[j] = state
      BY <1>2, <2>1 DEF HistogramOf
    <3> QED
      BY <1>5, <2>1, <3>1 DEF Survives
  <2>2. CASE j \in DOMAIN hists' /\ j # k
    BY <1>2, <2>2, SameSurvives
  <2>3. CASE j \in V
    <3>1. IsFiniteSet(cached) /\ Cardinality(cached) <= Cardinality(DOMAIN hists) + 1
      <4>1. IsFiniteSet(DOMAIN hists) /\ Cardinality(DOMAIN hists) \in Nat
        BY FS_CardinalityType DEF CacheInv
      <4>2. /\ IsFiniteSet(cached)
            /\ Cardinality(cached) = IF k \in DOMAIN hists THEN Cardinality(DOMAIN hists)
                                     ELSE Cardinality(DOMAIN hists) + 1
        BY <4>1, FS_AddElement
      <4> QED
        BY <4>1, <4>2
    <3>2. Cardinality(cached) > HistogramCacheSize
      BY <2>3, <3>1, Evicting, HandlerAssumption
    <3>3. Cardinality(DOMAIN hists) <= HistogramCacheSize /\ Cardinality(DOMAIN hists) \in Nat
      BY FS_CardinalityType DEF CacheInv, CachesWithinLimits
    <3>4. Cardinality(DOMAIN hists) = HistogramCacheSize
      BY <3>1, <3>2, <3>3, FS_CardinalityType, HandlerAssumption
    <3>5. j \notin DOMAIN hists'
      BY <1>1, <2>3 DEF Restrict
    <3> QED
      BY <3>4, <3>5 DEF Survives
  <2>4. CASE j \notin V /\ j \notin DOMAIN hists'
    <3>1. j \in cached \ V /\ clock - States(V)[j].lastSeen >= HistogramTTL
      BY <1>2, <2>4 DEF Stale
    <3>2. hists[j].lastSeen \in Nat /\ hists[j].lastSeen <= clock
      BY DEF HistInv, Histogram
    <3>3. CASE j = k
      <4>1. States(V)[j].lastSeen = clock
        BY <1>5, <3>1, <3>3
      <4>2. HistogramTTL \in Nat /\ 0 >= HistogramTTL
        BY <1>3, <3>1, <4>1, HistogramAssumption
      <4> QED
        BY <1>3, <2>4, <3>2, <4>2 DEF Survives
    <3>4. CASE j # k
      <4>1. States(V)[j] = hists[j]
        BY <3>1, <3>4
      <4> QED
        BY <2>4, <3>1, <4>1 DEF Survives
    <3> QED
      BY <3>3, <3>4
  <2> QED
    BY <2>1, <2>2, <2>3, <2>4
<1> QED
  BY <1>6, <1>7

LEMMA HistStep ==
  IInv /\ CacheInv /\ HistInv /\ [Next]_vars =>
    HistInv' /\ \A j \in DOMAIN hists : Survives(j)
<1> DEFINE Goal == HistInv' /\ \A j \in DOMAIN hists : Survives(j)
<1> SUFFICES ASSUME IInv, CacheInv, HistInv, [Next]_vars PROVE Goal
  OBVIOUS
<1>1. ASSUME hists' = hists, clock' \in {clock, clock + 1} PROVE Goal
  <2>1. HistInv'
    <3>1. clock \in Nat
      BY DEF IInv, TypeOK
    <3>2. \A k \in DOMAIN hists : hists[k].lastSeen \in Nat
      BY DEF HistInv, Histogram
    <3> QED
      BY <1>1, <3>1, <3>2 DEF HistInv
  <2> QED
    BY <1>1, <2>1, SameSurvives
<1>2. CASE Idle \/ Tick \/ Advance \/ UNCHANGED vars
  BY <1>1, <1>2 DEF Idle, Tick, Advance, vars, caches, bounds
<1>3. CASE \E h \in Handlers, e \in Events : Receive(h, e)
  BY <1>1, <1>3 DEF Receive, caches
<1>4. ASSUME NEW p \in Procs,
             \/ Lock(p) \/ Load(p) \/ Store(p) \/ BuildInfo(p) \/ EmitPanics(p) \/ Recover(p)
             \/ \E accepted \in BOOLEAN : Consume(p, accepted)
      PROVE  Goal
  BY <1>1, <1>4 DEF Lock, Load, Store, BuildInfo, EmitPanics, Recover, Consume, caches, bounds
<1>5. ASSUME NEW p \in Procs, Emit(p) PROVE Goal
  <2>1. clock' = clock
    BY <1>5 DEF Emit, bounds
  <2>2. CASE hists' = hists
    BY <1>1, <2>1, <2>2
  <2>3. CASE hists' # hists
    <3>1. ev[p] \in Events
      BY <1>5, <2>3 DEF Emit, IInv, TypeOK, InfoEvent, Kinds
    <3> QED
      BY <1>5, <2>1, <2>3, <3>1, MeasureHists, SweepHists DEF Emit
  <2> QED
    BY <2>2, <2>3
<1> QED
  BY <1>2, <1>3, <1>4, <1>5 DEF Next, Work

\* A duration histogram loses no observations, and leaves the cache only when it is
\* a TTL old or the cache is full, for any handlers, events, sizes and TTL.
THEOREM HistogramsLive == Spec => LiveHistogramsSurvive
<1>1. Init => HistInv
  BY DEF Init, HistInv
<1>2. IInv /\ CacheInv /\ HistInv /\ [Next]_vars => HistInv'
  BY HistStep
<1>3. IInv /\ CacheInv /\ HistInv /\ [Next]_vars =>
        [\A k \in DOMAIN hists :
           IF k \in DOMAIN hists'
             THEN /\ hists'[k].count >= hists[k].count
                  /\ \A b \in Buckets : hists'[k].bucketCounts[b] >= hists[k].bucketCounts[b]
             ELSE \/ clock - hists[k].lastSeen >= HistogramTTL
                  \/ Cardinality(DOMAIN hists) = HistogramCacheSize]_vars
  BY HistStep DEF Survives
<1> QED
  BY <1>1, <1>2, <1>3, SpecIInv, CacheAlways, PTL DEF Spec, LiveHistogramsSurvive
-------------------------------------------------------------------------------
\* HistogramsExact without the condition that something was measured: a key that is
\* not cached stands for an empty histogram.
ExactInv ==
  /\ measured \in [{Dimensions(e) : e \in Events} -> Seq(Int)]
  /\ \A dims \in DOMAIN measured :
       LET k == HistogramKey(dims)
       IN  k \notin dropped =>
             /\ HistogramOf(k).count = Len(measured[dims])
             /\ \A b \in Buckets :
                  HistogramOf(k).bucketCounts[b] = HowMany(measured[dims], b)

\* The numbers from one to another are as many as the latter.
LEMMA CountTo ==
  ASSUME NEW n \in Nat
  PROVE  IsFiniteSet(1 .. n) /\ Cardinality(1 .. n) = n
<1>1. IsFiniteSet(1 .. n) /\ Cardinality(1 .. n) = IF 1 > n THEN 0 ELSE n - 1 + 1
  BY FS_Interval
<1> QED
  BY <1>1

\* Between the bounds of a bucket are the durations BucketOf puts there.
LEMMA InBucketOf ==
  ASSUME NEW d \in Int, NEW b \in Buckets, InBucket(d, b)
  PROVE  BucketOf(d) = b
<1> DEFINE B == DurationBucketBounds
<1>1. /\ Len(B) \in Nat /\ DOMAIN B = 1 .. Len(B) /\ b \in 1 .. Len(B) + 1
      /\ \A i \in 1 .. Len(B) : B[i] \in Int
  BY HistogramAssumption DEF Buckets
<1>2. \A i, j \in 1 .. Len(B) : i < j => B[i] < B[j]
  BY <1>1, HistogramAssumption
<1>3. (b > 1 => B[b - 1] < d) /\ (b <= Len(B) => d <= B[b])
  BY DEF InBucket
<1> HIDE DEF B
<1>4. ASSUME NEW i \in 1 .. Len(B) PROVE B[i] < d <=> i \in 1 .. b - 1
  <2>1. CASE i < b
    <3>1. b - 1 \in 1 .. Len(B) /\ B[b - 1] < d /\ (i < b - 1 => B[i] < B[b - 1])
      BY <1>1, <1>2, <1>3, <2>1
    <3>2. i = b - 1 \/ i < b - 1
      BY <1>1, <2>1
    <3> QED
      BY <1>1, <2>1, <3>1, <3>2
  <2>2. CASE ~(i < b)
    <3>1. b \in 1 .. Len(B) /\ d <= B[b] /\ (b < i => B[b] < B[i])
      BY <1>1, <1>2, <1>3, <2>2
    <3>2. i = b \/ b < i
      BY <1>1, <2>2
    <3>3. d <= B[i]
      BY <1>1, <3>1, <3>2
    <3> QED
      BY <1>1, <2>2, <3>3
  <2> QED
    BY <2>1, <2>2
<1>5. {i \in 1 .. Len(B) : B[i] < d} = 1 .. b - 1
  BY <1>1, <1>4
<1>6. b - 1 \in Nat /\ 1 + (b - 1) = b
  BY <1>1
<1>7. BucketOf(d) = 1 + Cardinality(1 .. b - 1)
  BY <1>1, <1>5 DEF BucketOf, B
<1> QED
  BY <1>6, <1>7, CountTo

\* Every duration lies in some bucket: the least whose bound is not below it, or the
\* last.
LEMMA SomeBucket ==
  ASSUME NEW d \in Int
  PROVE  \E b \in Buckets : InBucket(d, b)
<1> DEFINE n == Len(DurationBucketBounds)
           Above == {b \in 1 .. n : d <= DurationBucketBounds[b]}
<1>1. n \in Nat /\ Buckets = 1 .. n + 1 /\ \A i \in 1 .. n : DurationBucketBounds[i] \in Int
  BY HistogramAssumption DEF Buckets
<1>2. CASE Above = {}
  <2>1. n > 0 => DurationBucketBounds[n] < d
    BY <1>1, <1>2
  <2>2. InBucket(d, n + 1)
    BY <1>1, <2>1 DEF InBucket
  <2> QED
    BY <1>1, <2>2
<1>3. CASE Above # {}
  <2>1. PICK b \in Above : \A m \in Above : b <= m
    <3>1. Above \subseteq Nat
      BY <1>1
    <3> HIDE DEF Above
    <3> QED
      BY <1>3, <3>1, LeastElement
  <2>2. b > 1 => DurationBucketBounds[b - 1] < d
    BY <1>1, <2>1
  <2>3. InBucket(d, b)
    BY <1>1, <2>1, <2>2 DEF InBucket
  <2> QED
    BY <1>1, <2>1, <2>3
<1> QED
  BY <1>2, <1>3

LEMMA InBucketIff ==
  ASSUME NEW d \in Int, NEW b \in Buckets
  PROVE  InBucket(d, b) <=> BucketOf(d) = b
  BY InBucketOf, SomeBucket

\* A duration more is one more in its bucket, and there only.
LEMMA OneMore ==
  ASSUME NEW durations \in Seq(Int), NEW d \in Int, NEW b \in Buckets
  PROVE  /\ HowMany(durations, b) \in Nat
         /\ HowMany(Append(durations, d), b)
              = IF BucketOf(d) = b THEN HowMany(durations, b) + 1 ELSE HowMany(durations, b)
<1> DEFINE n == Len(durations)
           more == Append(durations, d)
           In(s) == {i \in DOMAIN s : InBucket(s[i], b)}
<1>1. /\ n \in Nat /\ DOMAIN durations = 1 .. n /\ DOMAIN more = 1 .. n + 1
      /\ more[n + 1] = d /\ \A i \in 1 .. n : more[i] = durations[i]
  OBVIOUS
<1>2. HowMany(durations, b) = Cardinality(In(durations)) /\ HowMany(more, b) = Cardinality(In(more))
  BY DEF HowMany
<1>3. IsFiniteSet(In(durations)) /\ Cardinality(In(durations)) \in Nat
  BY <1>1, CountTo, FS_Subset, FS_CardinalityType
<1> HIDE DEF more
<1>4. CASE BucketOf(d) = b
  <2>1. InBucket(d, b)
    BY <1>4, InBucketIff
  <2>2. In(more) = In(durations) \cup {n + 1} /\ n + 1 \notin In(durations)
    BY <1>1, <2>1
  <2>3. Cardinality(In(more)) = Cardinality(In(durations)) + 1
    BY <1>3, <2>2, FS_AddElement
  <2> QED
    BY <1>2, <1>3, <1>4, <2>3 DEF more
<1>5. CASE BucketOf(d) # b
  <2>1. ~InBucket(d, b)
    BY <1>5, InBucketIff
  <2>2. In(more) = In(durations)
    BY <1>1, <2>1
  <2> QED
    BY <1>2, <1>3, <1>5, <2>2 DEF more
<1> QED
  BY <1>4, <1>5

\* A new histogram holds nothing, and an observation is added to what is there.
LEMMA NewIsEmpty ==
  /\ NewHistogramState \in Histogram /\ NewHistogramState.count = Len(<<>>)
  /\ \A b \in Buckets : NewHistogramState.bucketCounts[b] = HowMany(<<>>, b)
<1>1. ASSUME NEW b \in Buckets PROVE HowMany(<<>>, b) = 0
  <2>1. HowMany(<<>>, b) = Cardinality({})
    BY DEF HowMany
  <2> QED
    BY <2>1, FS_EmptySet
<1> QED
  BY <1>1 DEF NewHistogramState, Histogram

LEMMA ObservedMore ==
  ASSUME NEW state \in Histogram, NEW d \in Int, NEW now \in Nat, NEW durations \in Seq(Int),
         state.count = Len(durations),
         \A b \in Buckets : state.bucketCounts[b] = HowMany(durations, b)
  PROVE  LET more == Append(durations, d)
         IN  /\ Observe(state, d, now).count = Len(more)
             /\ \A b \in Buckets : Observe(state, d, now).bucketCounts[b] = HowMany(more, b)
<1>1. Observe(state, d, now).count = Len(Append(durations, d))
  BY DEF Observe
<1>2. ASSUME NEW b \in Buckets
      PROVE  Observe(state, d, now).bucketCounts[b] = HowMany(Append(durations, d), b)
  <2>1. state.bucketCounts \in [Buckets -> Nat]
    BY DEF Histogram
  <2>2. Observe(state, d, now).bucketCounts = [state.bucketCounts EXCEPT ![BucketOf(d)] = @ + 1]
    BY DEF Observe
  <2>3. Observe(state, d, now).bucketCounts[b]
          = IF BucketOf(d) = b THEN state.bucketCounts[b] + 1 ELSE state.bucketCounts[b]
    BY <2>1, <2>2, BucketOfBuckets
  <2> QED
    BY <2>3, OneMore
<1> QED
  BY <1>1, <1>2

\* A key that is not dropped keeps its histogram, or its absence.
LEMMA SweepExact ==
  ASSUME ExactInv, NEW p \in Procs, Sweep(p)
  PROVE  ExactInv'
<1>1. /\ measured' = measured
      /\ DOMAIN hists' = DOMAIN hists \ Stale(hists, clock)
      /\ \A k \in DOMAIN hists' : hists'[k] = hists[k]
      /\ dropped' = dropped \cup Stale(hists, clock)
  BY DEF Sweep, Restrict
<1>2. ASSUME NEW k, k \notin dropped'
      PROVE  k \notin dropped /\ HistogramOf(k)' = HistogramOf(k)
  BY <1>1, <1>2 DEF HistogramOf
<1> QED
  BY <1>1, <1>2 DEF ExactInv

\* An observation is added to the histogram of its key, which is that of no other
\* dimensions.
LEMMA MeasureExact ==
  ASSUME KeysTold, IInv, HistInv, ExactInv, NEW p \in Procs, ev[p] \in Events, Measure(p)
  PROVE  ExactInv'
<1> DEFINE own == Dimensions(ev[p])
           k == HistogramKey(own)
           cached == DOMAIN hists \cup {k}
           order == Use(histOrder, cached, {k})
           state == Observe(HistogramOf(k), ev[p].duration, clock)
           States(V) == [d \in cached \ V |-> IF d = k THEN state ELSE hists[d]]
<1>1. PICK V \in Victims(cached, order, HistogramCacheSize) :
        /\ hists' = Restrict(States(V), DOMAIN States(V) \ (V \cup Stale(States(V), clock)))
        /\ dropped' = dropped \cup (V \cup Stale(States(V), clock))
        /\ measured' = [measured EXCEPT ![own] = Append(@, ev[p].duration)]
  BY DEF Measure
<1> DEFINE gone == V \cup Stale(States(V), clock)
<1>2. /\ DOMAIN hists' = cached \ gone
      /\ \A j \in DOMAIN hists' : hists'[j] = IF j = k THEN state ELSE hists[j]
      /\ dropped' = dropped \cup gone
  BY <1>1 DEF Restrict
<1>3. own \in DOMAIN measured /\ measured \in [{Dimensions(e) : e \in Events} -> Seq(Int)]
  BY DEF ExactInv
<1>4. ev[p].duration \in Int /\ clock \in Nat
  BY EventAssumption DEF IInv, TypeOK, EventType
<1>5. /\ measured' \in [{Dimensions(e) : e \in Events} -> Seq(Int)]
      /\ DOMAIN measured' = DOMAIN measured
      /\ measured'[own] = Append(measured[own], ev[p].duration)
      /\ \A dims \in DOMAIN measured : dims # own => measured'[dims] = measured[dims]
  BY <1>1, <1>3, <1>4
<1>6. HistogramOf(k) \in Histogram
  BY NewIsEmpty DEF HistogramOf, HistInv
<1> DEFINE Holds(h, durations) ==
             /\ h.count = Len(durations)
             /\ \A b \in Buckets : h.bucketCounts[b] = HowMany(durations, b)
<1>7. ASSUME Holds(HistogramOf(k), measured[own])
      PROVE  Holds(state, Append(measured[own], ev[p].duration))
  BY <1>3, <1>4, <1>6, <1>7, ObservedMore
<1> HIDE DEF state
<1>8. ASSUME NEW dims \in DOMAIN measured, HistogramKey(dims) \notin dropped'
      PROVE  Holds(HistogramOf(HistogramKey(dims))', measured'[dims])
  <2> DEFINE key == HistogramKey(dims)
  <2>1. Holds(HistogramOf(key), measured[dims])
    BY <1>2, <1>8 DEF ExactInv
  <2>2. CASE dims = own
    <3>1. key = k /\ k \in DOMAIN hists' /\ hists'[k] = state
      BY <1>2, <1>8, <2>2
    <3>2. HistogramOf(key)' = state
      BY <3>1 DEF HistogramOf
    <3>3. Holds(state, measured'[dims])
      BY <1>5, <1>7, <2>1, <2>2, Zenon
    <3> QED
      BY <3>2, <3>3, Zenon
  <2>3. CASE dims # own
    <3>1. key # k
      BY <1>3, <2>3 DEF KeysTold
    <3>2. HistogramOf(key)' = HistogramOf(key)
      <4>1. key \notin gone
        BY <1>2, <1>8
      <4>2. key \in DOMAIN hists' <=> key \in DOMAIN hists
        BY <1>2, <3>1, <4>1
      <4>3. key \in DOMAIN hists => hists'[key] = hists[key]
        BY <1>2, <3>1, <4>2
      <4> QED
        BY <4>2, <4>3 DEF HistogramOf
    <3>3. measured'[dims] = measured[dims]
      BY <1>5, <2>3
    <3> QED
      BY <2>1, <3>2, <3>3, Zenon
  <2> QED
    BY <2>2, <2>3
<1> QED
  BY <1>5, <1>8 DEF ExactInv

LEMMA ExactStep ==
  ASSUME KeysTold, IInv, HistInv, ExactInv, [Next]_vars
  PROVE  ExactInv'
<1>1. ASSUME UNCHANGED <<hists, measured, dropped>> PROVE ExactInv'
  BY <1>1 DEF ExactInv, HistogramOf
<1>2. CASE Idle \/ Tick \/ Advance \/ UNCHANGED vars
  BY <1>1, <1>2 DEF Idle, Tick, Advance, vars, caches, history
<1>3. CASE \E h \in Handlers, e \in Events : Receive(h, e)
  BY <1>1, <1>3 DEF Receive, caches, history
<1>4. ASSUME NEW p \in Procs,
             \/ Lock(p) \/ Load(p) \/ Store(p) \/ BuildInfo(p) \/ EmitPanics(p) \/ Recover(p)
             \/ \E accepted \in BOOLEAN : Consume(p, accepted)
      PROVE  ExactInv'
  BY <1>1, <1>4 DEF Lock, Load, Store, BuildInfo, EmitPanics, Recover, Consume, caches, history
<1>5. ASSUME NEW p \in Procs, Emit(p) PROVE ExactInv'
  <2>1. CASE UNCHANGED <<hists, histOrder, measured, dropped>>
    BY <1>1, <2>1
  <2>2. CASE ~UNCHANGED <<hists, histOrder, measured, dropped>>
    <3>1. ev[p] \in Events
      BY <1>5, <2>2 DEF Emit, IInv, TypeOK, InfoEvent, Kinds
    <3> QED
      BY <1>5, <2>2, <3>1, MeasureExact, SweepExact DEF Emit
  <2> QED
    BY <2>1, <2>2
<1> QED
  BY <1>2, <1>3, <1>4, <1>5 DEF Next, Work

\* Every duration measured is in the one histogram of its attributes, in the bucket
\* between whose bounds it lies, until that is evicted or swept: two deliveries never
\* observe into a stale state, whoever measures in between (appendJobDurationMetric,
\* appendRunDurationMetric).  Names whose parts join to the same key are excluded.
THEOREM DurationsAddUp ==
  ASSUME KeysTold
  PROVE  Spec => []HistogramsExact
<1>1. Init => ExactInv
  <2> SUFFICES ASSUME Init PROVE ExactInv
    OBVIOUS
  <2>1. /\ measured = [d \in {Dimensions(e) : e \in Events} |-> <<>>] /\ DOMAIN hists = {}
    BY DEF Init
  <2>2. \A k : HistogramOf(k) = NewHistogramState
    BY <2>1 DEF HistogramOf
  <2> QED
    <3>1. measured \in [{Dimensions(e) : e \in Events} -> Seq(Int)]
      BY <2>1
    <3>2. \A dims \in DOMAIN measured : measured[dims] = <<>>
      BY <2>1
    <3> QED
      BY <2>2, <3>1, <3>2, NewIsEmpty, Zenon DEF ExactInv
<1>2. Init => HistInv
  BY DEF Init, HistInv
<1>3. IInv /\ CacheInv /\ HistInv /\ [Next]_vars => HistInv'
  BY HistStep
<1>4. IInv /\ HistInv /\ ExactInv /\ [Next]_vars => ExactInv'
  BY ExactStep
<1>5. ExactInv => HistogramsExact
  <2> SUFFICES ASSUME ExactInv, NEW dims \in DOMAIN measured,
                      HistogramKey(dims) \notin dropped, measured[dims] # <<>>
               PROVE  LET k == HistogramKey(dims)
                      IN  /\ k \in DOMAIN hists
                          /\ hists[k].count = Len(measured[dims])
                          /\ \A b \in Buckets :
                               hists[k].bucketCounts[b] = HowMany(measured[dims], b)
    BY DEF HistogramsExact
  <2>1. /\ HistogramOf(HistogramKey(dims)).count = Len(measured[dims])
        /\ \A b \in Buckets :
             HistogramOf(HistogramKey(dims)).bucketCounts[b] = HowMany(measured[dims], b)
    BY DEF ExactInv
  <2>2. Len(measured[dims]) # 0
    <3>1. measured[dims] \in Seq(Int)
      BY DEF ExactInv
    <3> QED
      BY <3>1
  <2>3. NewHistogramState.count = 0
    BY DEF NewHistogramState
  <2>4. HistogramKey(dims) \in DOMAIN hists
    BY <2>1, <2>2, <2>3, Zenon DEF HistogramOf
  <2> QED
    BY <2>1, <2>4 DEF HistogramOf
<1> QED
  BY <1>1, <1>2, <1>3, <1>4, <1>5, SpecIInv, CacheAlways, PTL DEF Spec
===============================================================================
