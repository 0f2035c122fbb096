\* A process that has returned takes no step.
CHECK_DEADLOCK FALSE
CONSTANTS
  Rooms = {r1, r2}
  PerRoom = 2
  MaxPosts = 2
  QueueSize = 1
  EventsSize = 2
  Traced = FALSE
  Faults = {}
  MaxWorkers = 2
  MaxDowns = 0
  MaxMoves = 1
  MaxInterrupts = 1
SPECIFICATION FairSpec
PROPERTIES StopReturns ServedOnConnection
