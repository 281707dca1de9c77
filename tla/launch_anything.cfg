\* One call of launch against a machine that may do anything.
CONSTANTS
  Calls = {c1}
  Pids = {p1, p2}
  NoPid = NoPid
  Outside <- Anything
  BootTimeout = 3
  PollInterval = 1
  RefusalGrace = 2
  WakeCooldown = 1
  ProbeTime = 1
  PostTime = 2
  WakeTime = 1
  WakeAttempts = 2
SPECIFICATION Spec
INVARIANTS TypeOK BoundedWait StopLag
PROPERTIES KeepsContract Returns
CHECK_DEADLOCK FALSE
