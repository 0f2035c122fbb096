\* A run that is over takes no step.
CHECK_DEADLOCK FALSE
CONSTANTS
  Tracing = {TRUE, FALSE}
  MaxTurns = 1
  MaxCalls = 3
  Streams = FALSE
  Faults = {"terminate"}
SPECIFICATION RunSpec
INVARIANTS RunHasOutcome ExitCodes
