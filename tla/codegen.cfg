\* The generator over every small graph of types, and over disks that fail.
CONSTANT
  Cases <- SmallCases
SPECIFICATION Spec
INVARIANTS TypeOK EachTypeOnce GroupsAreWhole CrateHoldsTogether TreeIsWhole
PROPERTIES RefusedInputSparesTheTree Ends
CHECK_DEADLOCK FALSE
