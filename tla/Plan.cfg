CONSTANTS
  MaxTasks = 4
  Reported = {"open", "blocked", "completed", "cancelled"}
  PathChoices <- Paths
  MaxAttempts = 3
  MaxEdits = 1
  MaxClaims = 1
  MaxBatch = 2
  PerParent = 2
  PerTurn = 3
SPECIFICATION MCSpec
CHECK_DEADLOCK FALSE
INVARIANTS
  BuildsAreAdmissible
  PlanCanGoOn
