CONSTANTS
  p1 = p1
  p2 = p2
  p3 = p3
  k1 = k1
  k2 = k2
  Parents = {p1, p2, p3}
  Keys = {k1, k2}
  Runtime = 2
  PerParent = 1
  PerTurn = 3
  MaxAttempts = 3
  MaxTurns = 2
  MaxEvents = 4
  MaxCrashes = 1
SPECIFICATION MCSpec
CHECK_DEADLOCK FALSE

  
PROPERTIES
  OnlyLiveAttemptsAnswer
  AttemptsSettle
