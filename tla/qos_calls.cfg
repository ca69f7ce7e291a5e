\* Two processes and a kernel client, one class, and a watcher.
CONSTANTS
  latency = latency
  throughput = throughput
  t1 = t1
  t2 = t2
  None = None
  Threads = {t1, t2}
  Clients = {k1}
  Files = {f1, f2}
  Watchers = {w1}
  Classes = {latency}
  Minimized = {latency}
  Default <- MCDefault
  Values <- MCValues
  AnyHandles = FALSE
  MaxRequirements = 3
SPECIFICATION FairSpec
INVARIANTS TypeOK TargetCurrent HandlesAccounted
PROPERTY TargetSettles
