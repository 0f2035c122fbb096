\* A connection that has ended takes no step.
CHECK_DEADLOCK FALSE
CONSTANTS
  Writers = {"pump", "heart", "reader"}
  Reader = "reader"
  MaxStalls = 1
  Rooms = {"r1"}
  EventsSize = 1
  MaxBeats = 1
  MaxReplies = 1
  MaxSent = 1
SPECIFICATION FairSpec
INVARIANTS OwnAnswer EndJustified
PROPERTIES JoinAnswered ConnectionEnds
