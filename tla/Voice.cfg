\* A session nobody hangs up goes on until the bounds are reached.
CHECK_DEADLOCK FALSE
CONSTANTS
  EventsSize = 1
  MaxEvents = 4
  MaxCalls = 2
  MaxPresses = 2
  EchoGate = TRUE
  Faults = {"handshake", "drop", "player"}
SPECIFICATION FairSpec
INVARIANTS ResultsOnce TotalsSeen
PROPERTIES GateCoversReply HangUpReturns
