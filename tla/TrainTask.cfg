CONSTANTS
  Speeds = {0, 8, 14}
  QUEUE = 2
  PAUSE = 6
  TURN = 2
  MaxCommands = 4
SPECIFICATION Spec
INVARIANTS
  NeverStranded
  ObeysInOrder
PROPERTIES
  TurnedAtZero
  EveryRestEnds
CHECK_DEADLOCK FALSE
