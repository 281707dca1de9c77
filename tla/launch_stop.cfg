\* One call of launch, and a stop at any time.
CONSTANTS
  Calls = {c1}
  Pids = {p1, p2}
  NoPid = NoPid
  Outside <- Anything
  BootTimeout = 3
  PollInterval = 1
  RefusalGrace = 2
  WakeCooldown = 1
  ProbeTime = 1
  PostTime = 2
  WakeTime = 1
  WakeAttempts = 2
SPECIFICATION Spec
INVARIANTS StopLagsByOneRequest
CHECK_DEADLOCK FALSE
