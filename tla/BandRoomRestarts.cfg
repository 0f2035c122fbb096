\* A room rests when every message is settled and no push is owed.
CHECK_DEADLOCK FALSE
CONSTANTS
  NumMessages = 2
  SeenLimit = 1
  QueueSize = 2
  Traced = FALSE
  OldestFirst = FALSE
  Faults = {"send"}
  MaxPushes = 1
  MaxMarks = 4
  MaxLives = 2
SPECIFICATION FairSpec
INVARIANTS MarkProtocol
PROPERTIES EveryMentionSettles
