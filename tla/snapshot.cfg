\* Two runs, on a clock of a few seconds.
CONSTANTS
  Cases <- SmallCases
  Runs = 2
  WakeBudget = 3
  Settle = 2
  QueryTime = 1
  Beat = 1
SPECIFICATION Spec
INVARIANTS TypeOK ClosureIsExact SurfaceIsWorthTaking OneSnapshot
PROPERTIES DirectoryIsRespected Ends
CHECK_DEADLOCK FALSE
