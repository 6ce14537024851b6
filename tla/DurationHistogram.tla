-------------------------- MODULE DurationHistogram --------------------------
(***************************************************************************)
(* The cumulative duration histograms of                                   *)
(* receiver/githubactionsreceiver/metric_duration.go: one histogramState   *)
(* per cache key, kept in histogramCache.                                  *)
(***************************************************************************)
EXTENDS Integers, Sequences, FiniteSets

CONSTANTS
  DurationBucketBounds,  \* durationBucketBounds, an increasing sequence
  HistogramTTL           \* histogramTTL, in units of the model's clock

ASSUME HistogramAssumption ==
  /\ DurationBucketBounds \in Seq(Int)
  /\ \A i, j \in DOMAIN DurationBucketBounds :
       i < j => DurationBucketBounds[i] < DurationBucketBounds[j]
  /\ HistogramTTL \in Nat

Buckets == 1 .. Len(DurationBucketBounds) + 1

Histogram ==
  [count : Nat, sum : Int, bucketCounts : [Buckets -> Nat], lastSeen : Nat]

\* Mutant of BucketOf: a duration on a bound goes above it.
BucketAbove(duration) ==
  1 + Cardinality({i \in DOMAIN DurationBucketBounds :
                     DurationBucketBounds[i] <= duration})

\* The first bucket whose bound is not below the duration, or the overflow one.
BucketOf(duration) ==
  1 + Cardinality({i \in DOMAIN DurationBucketBounds :
                     DurationBucketBounds[i] < duration})

NewHistogramState ==
  [count |-> 0, sum |-> 0, bucketCounts |-> [b \in Buckets |-> 0], lastSeen |-> 0]

Observe(state, duration, now) ==
  [count        |-> state.count + 1,
   sum          |-> state.sum + duration,
   bucketCounts |-> [state.bucketCounts EXCEPT ![BucketOf(duration)] = @ + 1],
   lastSeen     |-> now]

\* A bucket reaches from above the bound before it to its own bound, the first from
\* below all and the last to above all.
InBucket(duration, b) ==
  /\ b > 1 => DurationBucketBounds[b - 1] < duration
  /\ b <= Len(DurationBucketBounds) => duration <= DurationBucketBounds[b]

\* The number of durations that belong in a bucket.
HowMany(durations, b) ==
  Cardinality({i \in DOMAIN durations : InBucket(durations[i], b)})

\* Mutant of Stale: the TTL in a unit too small.
StaleTooSoon(states, now) ==
  {k \in DOMAIN states : now - states[k].lastSeen > 0}

\* The keys sweepStaleHistograms removes.
Stale(states, now) ==
  {k \in DOMAIN states : now - states[k].lastSeen >= HistogramTTL}
==============================================================================
