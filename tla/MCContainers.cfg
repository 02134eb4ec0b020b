CONSTANTS
  Item = {"a", "b"}
  Priority = {0, 1, 2}
  HEAP_SIZE = 7
  Capacity = 3
SPECIFICATION ContainersSpec
INVARIANTS
  FrontIsMostUrgent
PROPERTIES
  ImplementsBag
  ImplementsDeque
