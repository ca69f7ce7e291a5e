SPECIFICATION Spec
CONSTANTS
    flows_cnt = 3
    TimedFlows = {1, 2}
    Traffic <- MCTraffic
    Params <- MCParams
    Limits = {4, 7}
    SmallLimit = 4
    MinQuantum = 1
    Quanta = {2}
    Start = 250
    Ticks = {5}
    Horizon = 15
    MaxPackets = 6
    FqPackets = 5
    Forever = Forever
    TimeBits = 8
    MinPacket = 0
    NoSkb = NoSkb
    Quiet = Quiet
    Oops = Oops
INVARIANTS QueuesCounted FlowsLinkedOnce ParentCounts
PROPERTIES WorkConserving TwiceOnlyByChange DropsFindPackets NoFlowStarves
CHECK_DEADLOCK FALSE
