\* One watch that is stopped in the middle of a poll: the poll tells the rest.
CONSTANTS
  Phases = {pending, gameplay}
  NoPhase = NoPhase
  Blind = FALSE
SPECIFICATION Spec
INVARIANT StopTellsOneMore
CHECK_DEADLOCK FALSE
