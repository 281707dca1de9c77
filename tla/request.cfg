\* One request under each policy, to a client that may move at any time.
CONSTANTS
  Ports = {q1, q2}
  NoPort = NoPort
  Policies <- ManyPolicies
  Timeout = 2
  DurationMax = 1000
SPECIFICATION Spec
INVARIANTS TypeOK RestartIsRiddenOut BudgetIsKept SuccessIsHandled
PROPERTIES Ends
CHECK_DEADLOCK FALSE
