SPECIFICATION Spec
CONSTANTS
  c1 = c1
  Clients = {c1}
  Notifier = n
  CallTypes = {"DELAY_UNTIL"}
  TickArgs = {1}
  HEAP_SIZE = 1
  WIDTH = 4
  MAX_TICKS = 5
INVARIANT NoAssertionFails
