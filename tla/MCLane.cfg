SPECIFICATION Spec
CONSTANTS
  Loops = {"main", "flow"}
  Jobs = {"a", "b", "c", "d", "e"}
  ProjectOf <- MCProjectOf
  None = None
  Setups <- AloneOrShared
  QueueLimit = 2
INVARIANTS
  AcceptedOnce
CHECK_DEADLOCK FALSE
PROPERTIES
  ImplementsPromise
