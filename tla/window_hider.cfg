\* One hider over one play session, in the code's own seconds; only the wait
\* for the game is cut short.
CONSTANTS
  GameWait = 7
  PollInterval = 2
  SessionPoll = 5
  RehideWindow = 10
  HideTime = 2
  UnhideWithin = 7
  Outside = {"again", "show", "fail", "blind"}
SPECIFICATION Spec
INVARIANTS TypeOK
PROPERTIES HidesOnlyAroundTheGame WindowStaysHidden HiderEnds
CHECK_DEADLOCK FALSE
