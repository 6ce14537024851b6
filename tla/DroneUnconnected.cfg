SPECIFICATION Spec
CONSTANTS
  Names = {"a", "x", "main", "feature", "c1"}
  Shapes <- MCShapes
  Stations <- MCStations
  Outcomes = {"success"}
  ReposConfig <- MCReposConfig
  Known <- MCKnown
  Excluded <- MCExcluded
  StartHook = FALSE
  Handlers = {h1}
  Strays = {"unsigned", "no_repo"}
  Services <- MCServices
  Bounds <- MCBounds
  Second = 8
INVARIANT ScrapeHasPool
CHECK_DEADLOCK FALSE
