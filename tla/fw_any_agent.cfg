\* Two agents writing `loading' and `data' in any order, and hand-fed requests.
CONSTANTS
  Agents = {a1, a2}
  Admins = {r1}
  Names = {n}
  PageSize = 1
  MaxPages = 2
  TimeoutStores = {60}
  AllocFails = TRUE
  Junk = Junk
  MaxPagesOut = 3
SPECIFICATION AnySpec
INVARIANT InstancePinned
PROPERTY HandedOverIsFrozen
CHECK_DEADLOCK FALSE
