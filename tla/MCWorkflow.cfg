SPECIFICATION FairSpec
CONSTANTS
  Nodes <- MCNodes
  Shared <- MCShared
  MaxRuns = 4
  MaxUserRuns = 1
  Episodes = {1}
  Target = "script"
  Through = TRUE
  Selected = {}
  HasFile = TRUE
  Rebuild = FALSE
  WantsBeats = TRUE
  MaxParallel = 2
  MaxIterations = 3
  Starts <- MCStarts
  Jobs <- MCJobs
CONSTRAINT UserMeets
INVARIANTS
  ProductionTypeOK
  OwnRunCounts
  NothingLeftRunning
  SuccessIsCurrent
  FailureSweepsOwn
  SharedSpared
PROPERTIES
  DependenciesFirst
  WorkflowEnds
CHECK_DEADLOCK FALSE
