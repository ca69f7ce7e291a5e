\* A process holds two files of one class.
CONSTANTS
  latency = latency
  throughput = throughput
  t1 = t1
  t2 = t2
  None = None
  Threads = {t1}
  Clients = {}
  Files = {f1, f2}
  Watchers = {}
  Classes = {throughput}
  Minimized = {}
  Default <- MCDefault
  Values <- MCValues
  AnyHandles = TRUE
  MaxRequirements = 2
SPECIFICATION Spec
INVARIANT HandlesAccounted
