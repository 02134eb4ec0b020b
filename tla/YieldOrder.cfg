CONSTANTS
  Task = {1, 2, 3}
  NoTask = 0
SPECIFICATION Spec
PROPERTIES
  TasksTakeTurns
