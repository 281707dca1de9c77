\* Every small template and argument list, every pair of values.
CONSTANTS
  Symbols <- AllSymbols
  Functions <- SmallFunctions
  Values <- SmallValues
SPECIFICATION Spec
INVARIANTS TypeOK NameIsReadBack TemplateIsFound ValuesKeepTheirPlace
CHECK_DEADLOCK FALSE
