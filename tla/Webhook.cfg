\* Two handlers; receivers with all consumers and with one; GitHub may not answer.
SPECIFICATION FairSpec
CONSTANTS
  h1 = h1  h2 = h2
  Handlers = {h1, h2}
  Deliveries <- AllDeliveries
  Path = "/ghaevents"
  Configurations <- AllOrLogs
  MaxDeliveries = 3
INVARIANTS
  TypeOK
  LogsLinkDeliveredTraces
  OnlyValidatedOffered
  AcceptedMeansOffered
  FilesAccounted
PROPERTY
  AnsweredUnlessGitHubIsSilent
