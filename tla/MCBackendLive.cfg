SPECIFICATION FairSpec
CONSTANTS
  Keys = {"sketch", "render"}
  Projects = {"p1"}
  Users = {"ann"}
  Lanes = {"default"}
  NoUser = NoUser
  ProjectOf <- OneProjectOf
  LaneOf <- OneLaneOf
  Limits <- MCLimits
  Readers = {}
  MaxTasks = 2
  MaxBoots = 2
  Callers = {c1}
  Cancellers = {x1}
  WorkflowKeys = {}
  Policies <- NarrowOnly
  StartPolicy <- NarrowStart
  ManagedLanes = {"default"}
  NoProject = NoProject
  FaultPoints = {"begin", "complete"}
  MaxFaults = 1
PROPERTIES
  EveryRunSettles
  SlotsReturn
CHECK_DEADLOCK FALSE
