\* One file with a line too long for the scanner.
SPECIFICATION Spec
CONSTANTS
  Steps = {1, 2}
  Times = {1, 2}
  NoTime = 0
  Contents <- LongLine
  StampSize = 2
  MaxSize = 6
  MaxFiles = 1
INVARIANT
  EveryEntryIsRecorded
