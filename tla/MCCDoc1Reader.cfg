\* Every kind of container, two attempts with either key.
CONSTANTS
  Containers <- All
  MaxAttempts = 2
  MaxCalls = 1
SPECIFICATION Spec
INVARIANTS ServedExact
PROPERTIES AcceptedExact NoFalseAlarm FailuresDelayed
CHECK_DEADLOCK FALSE
