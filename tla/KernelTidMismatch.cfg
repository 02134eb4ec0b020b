CONSTANTS
  MAX_TASKS = 4
  IDLE = 1
  UsedEvents = {"TIMER_TICK"}
  CreateArgs = {0, 1}
SPECIFICATION Spec
INVARIANTS
  NoTidMismatch
