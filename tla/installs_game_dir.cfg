\* An install in a directory called Game, on a machine that stays put.
CONSTANTS
  Exes <- SmallExes
  None = None
  LowerCase <- SmallLowerCase
  Sources <- GameSources
  Documents <- GameDocuments
  Moves = 0
SPECIFICATION Spec
INVARIANTS GameMatchesItself
CHECK_DEADLOCK FALSE
