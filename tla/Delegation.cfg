\* A rejected configuration and a finished run take no step.
CHECK_DEADLOCK FALSE
CONSTANTS
  Configs <- MCConfigs
  Root <- MCRoot
  MaxTurns = 2
SPECIFICATION Spec
INVARIANTS ConfigSound NoSelfDelegation UsageHeard OutcomesInOrder
