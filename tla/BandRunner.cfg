\* A process that has returned takes no step.
CHECK_DEADLOCK FALSE
CONSTANTS
  Rooms = {r1, r2}
  PerRoom = 1
  MaxPosts = 2
  QueueSize = 1
  EventsSize = 1
  Traced = TRUE
  Faults = {"me", "rest", "build", "terminate"}
  MaxWorkers = 2
  MaxDowns = 1
  MaxMoves = 1
  MaxInterrupts = 1
SPECIFICATION Spec
INVARIANTS TypeOK LiveWorkersHeld
PROPERTIES SessionStaysOver
SYMMETRY Symmetry
