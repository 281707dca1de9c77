\* The generator over the tree as it is checked in.
CONSTANT
  Cases <- CheckedInCases
SPECIFICATION Spec
INVARIANT HandWrittenSurvives
CHECK_DEADLOCK FALSE
