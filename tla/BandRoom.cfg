\* A room rests when every message is settled and no push is owed.
CHECK_DEADLOCK FALSE
CONSTANTS
  NumMessages = 2
  SeenLimit = 2
  QueueSize = 2
  Traced = TRUE
  OldestFirst = TRUE
  Faults = {"push", "drain", "claim", "seed", "trace", "terminate", "turn", "send", "mark"}
  MaxPushes = 1
  MaxMarks = 4
  MaxLives = 2
SPECIFICATION Spec
INVARIANTS MarkProtocol ShownOnce PlatformTold AnswerDelivered
PROPERTIES FollowsLifecycle
