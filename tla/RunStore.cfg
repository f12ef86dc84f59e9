CONSTANTS
  r1 = r1
  r2 = r2
  r3 = r3
  h1 = h1
  h2 = h2
  k1 = k1
  k2 = k2
  Runs = {r1, r2, r3}
  RunKey <- RunKeys
  Holders = {h1, h2}
  NoHolder = none
  Keys = {k1, k2}
  LeaseTicks = 1
  MaxWait = 1
  MaxToken = 3
  MaxAttempts = 2
  MaxCheckpoint = 2
  MaxCalls = 2
SYMMETRY Symmetry
SPECIFICATION MCSpec
INVARIANTS
  RowsAgree
  EffectsAreAccounted
  KeysAreExclusive
  NeverStranded
PROPERTIES
  NothingIsRewritten
