CONSTANTS
  Clients = {4, 5}
  Names = {"Clock", "IO", "Marklin", "Long"}
  LongNames = {"Long"}
  MAX_NAME_ENTRIES = 2
  TidOfServer = 3
SPECIFICATION ConsoleSpec
INVARIANTS
  TextsAndKeysInOrder
PROPERTIES
  ImplementsDirectory
  EveryoneAnswered
CHECK_DEADLOCK FALSE
