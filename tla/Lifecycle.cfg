\* One receiver, three signals, two handlers.
SPECIFICATION FairSpec
CONSTANTS
  h1 = h1  h2 = h2
  Signals = {"traces", "logs", "metrics"}
  Metrics = "metrics"
  Handlers = {h1, h2}
INVARIANTS
  TypeOK
  RegisteredUntilStopped
PROPERTIES
  ServiceSpec
  ShutdownReturns
