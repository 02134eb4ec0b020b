SPECIFICATION Spec
CONSTANTS
  track <- TrackAAndWye
  TrackId = "A"
  REVERSE_COST = 300
  Trains <- MCTrains
  QUEUE = 5
  Worlds <- MCWorlds
INVARIANTS
  MarksAreQueued
  MovingIsKnown
  WatchedAndKnown
  KeptApart
PROPERTIES
  Arrives
CHECK_DEADLOCK FALSE
