\* Two names, one file, one agent at a time, timeouts and allocation failures.
CONSTANTS
  Agents = {a1}
  Admins = {r1, r2}
  found = found
  missing = missing
  Names <- MCNames
  FileSize <- MCFileSize
  PageSize = 2
  MaxPages = 2
  TimeoutStores <- MCTimeouts
  AllocFails = TRUE
  Junk = Junk
  OverlapAgents = FALSE
SPECIFICATION FairSpec
INVARIANTS TypeOK InstancePinned PagesOwned NoPageLeak CrashOnlyAfterAbort
PROPERTIES ImplementsService TimeoutAnswers AgentAnswers
CHECK_DEADLOCK FALSE
