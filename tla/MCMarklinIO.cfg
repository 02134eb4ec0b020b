CONSTANTS
  SwitchAddrs = {3, 153}
  TrainAddrs = {77}
  Trains <- MCTrains
  Sensors = {0, 1}
  BYTES = 2
  TxRoom = 4
  Worlds <- MCWorlds
SPECIFICATION Spec
INVARIANTS
  CommandsInOrder
  NeverStranded
PROPERTIES
  WrittenWhenClear
  OneTellPerPair
  EveryCommandSent
  HeardExceptA1
CHECK_DEADLOCK FALSE
