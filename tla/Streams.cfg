\* An answer that was returned, or failed, takes no step.
CHECK_DEADLOCK FALSE
CONSTANTS
  Chunks <- MCChunks
  MaxChunks = 4
  MaxLen = 2
  NoIndex = NoIndex
SPECIFICATION AnswerSpec
INVARIANTS StreamAssembled
