SPECIFICATION FairSpec
CONSTANTS
  Keys = {"flow", "sketch", "render"}
  Projects = {"p1"}
  Users = {"ann"}
  Lanes = {"workflow", "default"}
  NoUser = NoUser
  ProjectOf <- FlowProjectOf
  LaneOf <- FlowLaneOf
  Limits <- MCLimits
  Readers = {}
  MaxTasks = 3
  MaxBoots = 1
  Callers = {c1}
  Cancellers = {}
  WorkflowKeys = {"flow"}
  Policies <- NarrowOnly
  StartPolicy <- FlowStart
  ManagedLanes = {"default"}
  NoProject = NoProject
  FaultPoints = {"begin", "complete", "fail", "cancelled"}
  MaxFaults = 0
PROPERTIES
  SlotsReturn
CHECK_DEADLOCK FALSE
