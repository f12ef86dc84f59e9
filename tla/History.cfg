CONSTANTS
  None = None
  p1 = p1
  p2 = p2
  RetainedGroups = 2
  Processes = {p1, p2}
  MaxTurns = 3
  MaxGroups = 4
  MaxCalls = 2
  MaxManual = 4
  MaxFaults = 2
CHECK_DEADLOCK FALSE
SPECIFICATION MCSpec
INVARIANTS
  StoreAndAgentAgree
  TurnsAreWhole
PROPERTY ImplementsSessionTurns
