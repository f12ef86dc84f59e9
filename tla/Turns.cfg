CONSTANTS
  T = T
  H = H
  None = None
  c1 = c1
  c2 = c2
  Callbacks = {c1, c2}
  MaxResponses = 2
  MaxCalls = 1
  MaxFragments = 2
  MaxFaults = 1
SPECIFICATION FairSpec
INVARIANTS
  NothingAfterTheCause
  AnswersAreTrue
PROPERTY TurnEnds
