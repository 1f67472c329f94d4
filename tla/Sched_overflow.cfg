SPECIFICATION Spec
CONSTANTS
  MaxThreads = 2
  Main = Main
  None = None
  MaxPrio = 1
  MaxEvents = 1
  MaxSize = 1
  WordSize = 16
  Quanta = {2}
  Ios = {1}
  Calls = {"fork"}
  MaxCalls = 1
  MainForks = 1
  SoloWait = FALSE
  CreateMayFail = FALSE
INVARIANTS RecordFits
CHECK_DEADLOCK FALSE
