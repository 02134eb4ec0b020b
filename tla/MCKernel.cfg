CONSTANTS
  MAX_TASKS = 5
  IDLE = 1
  UsedEvents <- MCEvents
  CreateArgs <- MCPriorities
SPECIFICATION Spec
INVARIANTS
  EveryTaskInItsQueue
  NoSleepOnMail
  AwaitedIsArmed
  PoolsConserved
  OnlyCreatePanics
  MostUrgentRuns
PROPERTIES
  TidNamesOneTask
  OnlyIdleReplyStrands
  ImplementsRendezvous
