SPECIFICATION Spec
CONSTANTS
  o1 = o1
  c1 = c1
  h1 = h1
  h2 = h2
  t1 = t1
  t2 = t2
  t3 = t3
  NoHolder = NoHolder
  NoTask = NoTask
  Owners = {o1}
  Children = {c1}
  ParentOf <- OneParent
  Holders = {h1, h2}
  Tasks = {t1, t2, t3}
  Keys = {1, 2, 3, 4, 5}
  LeaseTicks = 1
  Scopes <- SmallScopes
SYMMETRY Symmetry
CHECK_DEADLOCK FALSE
INVARIANTS
  ClaimsAreSound
  MutationsAreSound
  GrantsAreBounds
PROPERTIES
  StaleTurnsChangeNothing
