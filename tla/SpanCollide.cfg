\* The same runs and jobs: job <<12, 2>> against step 2 of job <<12>>.
SPECIFICATION Spec
CONSTANTS
  S = 10
  T = 11
  Slash = 14
  Underscore = 15
  Runs <- ThreeAttempts
  Jobs <- SeveralJobs
INVARIANT
  IdsIdentify
