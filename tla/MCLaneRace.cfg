SPECIFICATION Spec
CONSTANTS
  Loops = {"main", "flow"}
  Jobs = {"a", "b", "c", "d", "e"}
  ProjectOf <- MCProjectOf
  None = None
  Setups <- Shared
  QueueLimit = 2
INVARIANTS
  ConcurrencyEnforced
CHECK_DEADLOCK FALSE
