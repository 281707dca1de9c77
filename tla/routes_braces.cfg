\* A value that spells the placeholder of a parameter bound after it.
CONSTANTS
  Symbols <- AllSymbols
  Functions <- SmallFunctions
  Values <- SmallValues
SPECIFICATION Spec
INVARIANT NoValueIsRewritten
CHECK_DEADLOCK FALSE
