\* A counters cache smaller than two groups' cells, histograms with a short TTL and
\* room for two, one handler at a time.
SPECIFICATION Spec
CONSTANTS
  gJob = gJob  gJob2 = gJob2  gRun = gRun  h1 = h1  h2 = h2
  Handlers = {h1}
  Ticker = ticker
  Nobody = nobody
  JobGroups = {gJob, gJob2}
  RunGroups = {}
  Statuses = {"completed", "aborted"}
  Conclusions = {"success", "cancelled", "null"}
  Events <- CacheEvents
  EnabledMetrics = {"job", "run", "info"}
  DurationBucketBounds <- Bounds
  HistogramTTL = 2
  CountersCacheSize = 7
  HistogramCacheSize = 2
  MaxEvents = 3
  MaxTicks = 0
  MaxClock = 2
INVARIANTS
  CountersExact
  CachesWithinLimits
  HistogramsExact
PROPERTY
  LiveHistogramsSurvive
