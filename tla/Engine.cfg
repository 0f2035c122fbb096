\* Turns stop once the history reaches MaxHistory messages: an idle engine may rest.
CHECK_DEADLOCK FALSE
CONSTANTS
  a = a
  noid = noid
  forced = forced
  other = other
  CallIds <- MCCallIds
  NoId = noid
  ToolNames <- MCToolNames
  Configs <- MCConfigs
  Responses <- MCResponses
  Seeds <- MCSeeds
  ForceTool = forced
  DefaultMaxTurns = 3
  MaxHistory = 3
SPECIFICATION FairSpec
INVARIANTS TypeOK RequestAcceptable ForcedToolCalled FinalTextComplete CallBudget FreeOnlyAfterForcedCall
PROPERTIES TurnAtomic TurnEnds
