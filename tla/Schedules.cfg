SPECIFICATION FairSpec
CONSTANTS
  h1 = h1
  h2 = h2
  NoHolder = NoHolder
  Holders = {h1, h2}
  Incapables = {{}, {h1}}
  DueAt <- ShiftedSlots
  RunKeys = {1, 2}
  KeyOf <- SharedKeys
  Policies = {"skip", "each_missed"}
  MaxRuns = 1
  Grace = 0
  ScheduleKeep = 4
  RunnerTicks = 2
  YieldTicks = 2
  MaxTime = 2
  MaxVersion = 2
  MaxControls = 2
  MaxArchives = 2
  MaxFaults = 1
  MaxEvents = 2
  MaxLate = 1
INVARIANTS
  SlotsAreDecidedOnce
PROPERTIES
  StartsUnderCurrentVersion
  DueSlotsAreDecided
