SPECIFICATION Spec
INVARIANTS
  NothingDropped
  ShortestIfThereIsOne
  PathCanBeDriven
PROPERTIES
  Answers
CHECK_DEADLOCK FALSE
