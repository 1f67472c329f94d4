SPECIFICATION FairSpec
CONSTANTS
  MaxThreads = 2
  Main = Main
  None = None
  MaxPrio = 1
  MaxEvents = 1
  MaxSize = 2
  WordSize = 16
  Quanta = {1, 2}
  Ios = {1}
  Calls = {"fork", "exec", "wait", "signal"}
  MaxCalls = 3
  MainForks = 1
  SoloWait = FALSE
  CreateMayFail = FALSE
PROPERTIES EndReturns ReadyRuns
CHECK_DEADLOCK FALSE
