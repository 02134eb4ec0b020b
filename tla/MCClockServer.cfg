SPECIFICATION Spec
CONSTANTS
  c1 = c1
  c2 = c2
  c3 = c3
  Clients = {c1, c2, c3}
  Notifier = n
  CallTypes = {"TIME", "DELAY"}
  TickArgs = {0, 1, 2}
  HEAP_SIZE = 3
  WIDTH = 4
  MAX_TICKS = 5
SYMMETRY Symmetry
INVARIANTS NobodyForgotten EveryTickCounted NobodyOversleeps
PROPERTY NobodyWakesEarly
