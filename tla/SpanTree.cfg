\* Three attempts of two runs with six jobs.
SPECIFICATION Spec
CONSTANTS
  S = 10
  T = 11
  Slash = 14
  Underscore = 15
  Runs <- ThreeAttempts
  Jobs <- SeveralJobs
INVARIANTS
  TypeOK
  AlikeOnlyIfConfusable
  OneTree
  LogsFindTheirStep
  PreviousAttemptLinked
  JobCoversSteps
  JobStatusFromSteps
