SPECIFICATION FairSpec
CONSTANTS
  c1 = c1
  c2 = c2
  Clients = {c1, c2}
  Notifier = n
  CallTypes = {"TIME", "DELAY", "DELAY_UNTIL"}
  TickArgs = {0, 1, 3}
  HEAP_SIZE = 2
  WIDTH = 2
  MAX_TICKS = 4
INVARIANT TypeOK
PROPERTY EveryCallAnswered
