SPECIFICATION Spec
CONSTANTS
  MaxThreads = 2
  Main = Main
  None = None
  MaxPrio = 1
  MaxEvents = 1
  MaxSize = 2
  WordSize = 16
  Quanta = {2}
  Ios = {1}
  Calls = {"fork", "wait", "signal"}
  MaxCalls = 2
  MainForks = 1
  SoloWait = TRUE
  CreateMayFail = FALSE
INVARIANTS WaitUntilSignalled
CHECK_DEADLOCK FALSE
