\* Eviction of one cell sets its cached siblings back to zero.
SPECIFICATION Spec
CONSTANTS
  gJob = gJob  gJob2 = gJob2  gRun = gRun  h1 = h1  h2 = h2
  Handlers = {h1}
  Ticker = ticker
  Nobody = nobody
  JobGroups = {gJob, gJob2}
  RunGroups = {}
  Statuses = {"completed", "aborted"}
  Conclusions = {"null", "success"}
  Events <- TwoGroupEvents
  EnabledMetrics = {"job", "run", "info"}
  DurationBucketBounds <- Bounds
  HistogramTTL = 9
  CountersCacheSize = 5
  HistogramCacheSize = 2
  MaxEvents = 4
  MaxTicks = 0
  MaxClock = 0
INVARIANT
  CounterArrivesMonotonic
