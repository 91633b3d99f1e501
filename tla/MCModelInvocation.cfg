SPECIFICATION Spec
CONSTANTS
  Requests = {"a", "b", "c", "d", "e"}
  Keys = {"face", "room"}
  Tasks = {"t"}
  Bodies = {"smile", "frown"}
  Routes = {"cloud", "own"}
  ByokRoutes = {"own"}
  NoTask = NoTask
  NoRoute = NoRoute
  NoBody = NoBody
  NoOne = NoOne
  KeyOf <- MCKeyOf
  TaskOf <- MCTaskOf
  BodyOf <- MCBodyOf
  RoutesOf <- MCRoutesOf
  Attempts = 2
  MaxCrashes = 1
  MaxFails = 1
CONSTRAINTS AsksAlone RetryApart
INVARIANTS
  InvocationTypeOK
  AtMostOnce
  OneRoute
  CancelTruth
  SameAnswer
CHECK_DEADLOCK FALSE
