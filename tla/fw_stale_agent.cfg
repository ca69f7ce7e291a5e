\* An agent outlives its request and serves the next one.
CONSTANTS
  Agents = {a1}
  Admins = {r1}
  found = found
  missing = missing
  Names <- MCNames
  FileSize <- MCFileSize
  PageSize = 2
  MaxPages = 2
  TimeoutStores = {60}
  AllocFails = FALSE
  Junk = Junk
  OverlapAgents = TRUE
SPECIFICATION UdevSpec
INVARIANT RightFile
CHECK_DEADLOCK FALSE
