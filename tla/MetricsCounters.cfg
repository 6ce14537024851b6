\* Two handlers and the ticker; the counters cache never fills up.
SPECIFICATION FairSpec
CONSTANTS
  gJob = gJob  gJob2 = gJob2  gRun = gRun  h1 = h1  h2 = h2
  Handlers = {h1, h2}
  Ticker = ticker
  Nobody = nobody
  JobGroups = {gJob}
  RunGroups = {gRun}
  Statuses = {"completed", "aborted"}
  Conclusions = {"null", "success"}
  Events <- MixedEvents
  EnabledMetrics = {"job", "run", "info"}
  DurationBucketBounds <- Bounds
  HistogramTTL = 9
  CountersCacheSize = 8
  HistogramCacheSize = 2
  MaxEvents = 3
  MaxTicks = 1
  MaxClock = 1
INVARIANTS
  TypeOK
  EmissionsArePrivate
  CountersExact
  JobSamplesOrdered
  UnrecordedPanic
PROPERTY
  EveryDeliveryFinishes
