\* An agent concludes a request that has just timed out.
CONSTANTS
  Agents = {a1}
  Admins = {r1}
  found = found
  missing = missing
  Names <- MCFound
  FileSize <- MCFileSize
  PageSize = 2
  MaxPages = 2
  TimeoutStores = {60}
  AllocFails = FALSE
  Junk = Junk
  OverlapAgents = FALSE
SPECIFICATION UdevSpec
INVARIANT NoOops
