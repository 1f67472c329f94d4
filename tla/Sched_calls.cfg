SPECIFICATION Spec
CONSTANTS
  MaxThreads = 3
  Main = Main
  None = None
  MaxPrio = 1
  MaxEvents = 1
  MaxSize = 3
  WordSize = 16
  Quanta = {2}
  Ios = {1}
  Calls = {"fork", "wait", "signal"}
  MaxCalls = 2
  MainForks = 1
  SoloWait = FALSE
  CreateMayFail = FALSE
INVARIANTS
  TypeOK MutualExclusion HighestPriorityRuns OnePlaceEach NoStalePlace WorkConserving
  WaitUntilSignalled EndJoinsFinished HangsOnlyOnDevice StaysDefined
PROPERTIES PreemptionIsEarned ImplementsProcessor
CHECK_DEADLOCK FALSE
