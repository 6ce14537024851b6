SPECIFICATION Spec
CONSTANTS
  Names = {"a", "x", "main", "feature", "c1"}
  Shapes <- MCShapes
  Stations <- MCStations
  Outcomes = {"success"}
  ReposConfig <- MCReposConfig
  Known <- MCKnown
  Excluded <- MCExcluded
  StartHook = TRUE
  Handlers = {h1}
  Strays = {"unsigned", "no_repo"}
  Services <- MCServices
  Bounds <- MCBounds
  Second = 8
INVARIANTS
  TypeOK
  EmissionsOfOneScrape
  RestartsNeverFall
  InfoMovesOn
  StepLogsKept
  LineTimes
PROPERTIES
  BuildsAddUp
  TracedBuildsAreCounted
  HandledUnlessDroneIsSilent
CHECK_DEADLOCK FALSE
