\* Two calls tell their watchers out of order.
CONSTANTS
  latency = latency
  throughput = throughput
  t1 = t1
  t2 = t2
  None = None
  Threads = {t1, t2}
  Clients = {k1}
  Files = {f1}
  Watchers = {w1}
  Classes = {throughput}
  Minimized = {}
  Default <- MCDefault
  Values <- MCValues
  AnyHandles = FALSE
  MaxRequirements = 2
SPECIFICATION Spec
INVARIANT WatchersCurrent
