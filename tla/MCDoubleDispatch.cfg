SPECIFICATION Spec
CONSTANTS
  Requests = {"a", "b"}
  Keys = {"face"}
  Tasks = {"t"}
  Bodies = {"smile", "frown"}
  Routes = {"cloud", "own"}
  ByokRoutes = {"own"}
  NoTask = NoTask
  NoRoute = NoRoute
  NoBody = NoBody
  NoOne = NoOne
  KeyOf <- SameKeyOf
  TaskOf <- SameTaskOf
  BodyOf <- SameBodyOf
  RoutesOf <- SameRoutesOf
  Attempts = 2
  MaxCrashes = 1
  MaxFails = 1
INVARIANTS
  AtMostOnce
CHECK_DEADLOCK FALSE
