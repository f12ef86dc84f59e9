SPECIFICATION FairSpec
CONSTANTS
  j1 = j1
  j2 = j2
  h1 = h1
  c1 = c1
  NoJob = NoJob
  Jobs = {j1, j2}
  NewJobs = {j1}
  HistoryJobs = {j2}
  Hosts = {h1}
  Callers = {c1}
  MaxAttempts = 2
  NewLimit = 1
  MaxGroups = 1
  MaxUnfinished = 2
  MaxTrouble = 2

  
  
PROPERTIES
  LateClaimsWriteNothing
  
