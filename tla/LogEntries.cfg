\* Two files of one job, of up to three lines each.
SPECIFICATION Spec
CONSTANTS
  Steps = {1, 2}
  Times = {1, 2}
  NoTime = 0
  Contents <- SmallFiles
  StampSize = 2
  MaxSize = 6
  MaxFiles = 2
INVARIANTS
  TypeOK
  RecordsStayInStep
  RecordsAreEntries
  RecordsWithinLimit
