CONSTANT
  Steps <- SmallSteps
SPECIFICATION FairMapSpec
CHECK_DEADLOCK FALSE
INVARIANTS
  ItemsAreAccounted
PROPERTIES
  NothingRunsInVain
  MapEnds
