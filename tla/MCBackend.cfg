SPECIFICATION BackendSpec
CONSTRAINT Family
SYMMETRY SameCallers
CONSTANTS
  Keys = {"flow", "sketch", "render", "score"}
  Projects = {"p1", "p2"}
  Users = {"ann"}
  Lanes = {"workflow", "default"}
  NoUser = NoUser
  ProjectOf <- AllProjectOf
  LaneOf <- AllLaneOf
  Limits <- MCLimits
  Readers = {}
  MaxTasks = 3
  MaxBoots = 2
  Callers = {c1, c2}
  Cancellers = {"x1"}
  WorkflowKeys = {"flow"}
  Policies <- AllPolicies
  StartPolicy <- DeepStart
  ManagedLanes = {"default"}
  NoProject = NoProject
  FaultPoints = {"mark", "full", "begin", "complete", "fail", "cancelled", "settle", "cancel"}
  MaxFaults = 2
INVARIANTS
  BackendTypeOK
  RunnerOwnsRow
  NoOrphan
  CancelSticks
  WorkConserving
  QueuesMatchJobs
  SlotsMatchThreads
CHECK_DEADLOCK FALSE
PROPERTIES
  ImplementsPromise
