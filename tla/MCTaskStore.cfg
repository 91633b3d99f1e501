SPECIFICATION Spec
CONSTANTS
  Keys = {"sketch", "render"}
  Projects = {"p1"}
  Users = {"ann"}
  Lanes = {"default"}
  NoUser = NoUser
  ProjectOf <- MCProjectOf
  LaneOf <- MCLaneOf
  Limits <- MCLimits
  Readers = {r1}
  MaxTasks = 3
  MaxBoots = 2
INVARIANTS
  NoZombieAfterSweep
  LimitsHeld
PROPERTIES
  ImplementsLifecycle
