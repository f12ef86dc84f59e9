CONSTANTS
  s1 = s1
  r1 = r1
  r2 = r2
  Nobody = Nobody
  Dead = Dead
  Sessions = {s1}
  Runners = {r1, r2}
  MaxMessages = 2
  MalformedSkip = 2
  Retries = 1
  CallTime = 1
  CommitTime = 1
  Slack = 1
  Settings <- SmallSettings
  MaxFaults = 2
  MaxCrashes = 1
SPECIFICATION FairSpec

  
PROPERTY
  FlushHappens
CHECK_DEADLOCK FALSE
