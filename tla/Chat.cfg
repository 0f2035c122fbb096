\* A session that is over, or whose user types nothing, rests.
CHECK_DEADLOCK FALSE
CONSTANTS
  Tracing = {TRUE, FALSE}
  MaxTurns = 2
  MaxCalls = 2
  Streams = FALSE
  MaxPresses = 2
  Faults = {"terminate", "stdin"}
SPECIFICATION FairSpec
INVARIANTS SpansSettled CompleteTurnsSucceeded TerminateHonoured InstanceHasOutcome
PROPERTIES ExitTaken
