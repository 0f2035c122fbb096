\* A process that has returned takes no step.
CHECK_DEADLOCK FALSE
CONSTANTS
  Rooms = {r1, r2}
  PerRoom = 1
  MaxPosts = 2
  QueueSize = 1
  EventsSize = 2
  Traced = TRUE
  Faults = {}
  MaxWorkers = 3
  MaxDowns = 0
  MaxMoves = 0
  MaxInterrupts = 0
SPECIFICATION Spec
INVARIANTS TurnsSequential
