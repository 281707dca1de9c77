\* Two clients that move three times.
CONSTANTS
  Exes <- SmallExes
  None = None
  LowerCase <- SmallLowerCase
  Sources <- SmallSources
  Documents <- SmallDocuments
  Moves = 3
SPECIFICATION Spec
INVARIANTS OwnerWins NotFoundMeansGone
CHECK_DEADLOCK FALSE
