\* One call of launch, alone with its machine.
CONSTANTS
  Calls = {c1}
  Pids = {p1, p2}
  NoPid = NoPid
  Outside <- Alone
  BootTimeout = 4
  PollInterval = 1
  RefusalGrace = 3
  WakeCooldown = 2
  ProbeTime = 1
  PostTime = 2
  WakeTime = 1
  WakeAttempts = 3
SPECIFICATION Spec
INVARIANTS NoQueuedLaunch
PROPERTIES RefusedMeansNothingInFlight
CHECK_DEADLOCK FALSE
