\* Two handlers pass their metrics on after they released the lock.
SPECIFICATION Spec
CONSTANTS
  gJob = gJob  gJob2 = gJob2  gRun = gRun  h1 = h1  h2 = h2
  Handlers = {h1, h2}
  Ticker = ticker
  Nobody = nobody
  JobGroups = {gJob}
  RunGroups = {gRun}
  Statuses = {"completed", "aborted"}
  Conclusions = {"null", "success"}
  Events <- RunEvents
  EnabledMetrics = {"job", "run", "info"}
  DurationBucketBounds <- Bounds
  HistogramTTL = 9
  CountersCacheSize = 8
  HistogramCacheSize = 2
  MaxEvents = 2
  MaxTicks = 0
  MaxClock = 0
INVARIANT
  CounterArrivesMonotonic
