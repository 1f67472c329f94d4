SPECIFICATION Spec
CONSTANTS
  MaxThreads = 2
  Main = Main
  None = None
  MaxPrio = 1
  MaxEvents = 1
  MaxSize = 1
  WordSize = 16
  Quanta = {1, 2}
  Ios = {1}
  Calls = {"fork", "wait", "signal"}
  MaxCalls = 2
  MainForks = 2
  SoloWait = TRUE
  CreateMayFail = TRUE
INVARIANTS
  SemCountsLive NoThreadOutlivesScheduler NoLostWakeup ChosenThreadsExist QuantumInBounds
CHECK_DEADLOCK FALSE
