CONSTANTS
  Runs = {r1}
  RunKey <- OwnKeys
  Holders = {h1, h2}
  NoHolder = none
  Keys = {k1}
  LeaseTicks = 3
  MaxWait = 2
  MaxToken = 9
  MaxAttempts = 6
  MaxCheckpoint = 2
  MaxCalls = 3
  Run = r1
  StepAttempts = 2
  RunAttempts = 5
  Interruptions = 2
  Backoff = 1
  Recheck = 1
  EffectTimeout = 2
  Latency = 1
  Settings <- SmallSettings
  MaxFaults = 2
SPECIFICATION RuntimeSpec
INVARIANTS
  
  
  PassesAreOrderly
PROPERTIES
  EventuallyFinishes
