\* One request with a long deadline: is it retried until then?
CONSTANTS
  Ports = {q1}
  NoPort = NoPort
  Policies <- LongDeadline
  Timeout = 1
  DurationMax = 500
SPECIFICATION Spec
INVARIANT RetriesUntilTheDeadline
CHECK_DEADLOCK FALSE
