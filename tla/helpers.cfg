INIT Init
NEXT Next
CONSTANTS
    Users = {u1, u2}
    Areas = {a1}
    Size = 2
    PageMod = 8
    Other = Other
    Buf = Buf
    Addrs = {b1, b2}
    MaxUsers = 2
    MaxPushed = 5
    Callers = {c1, c2}
    Timers = {t1, t2}
    None = None
    Retries = 1
    BlockMax = 1
    Transfers <- MCTransfers
    Families = {f1, f2}
    Cmds = {m1, m2}
    ListHead = ListHead
    Drivers = {d1, d2}
    MaxDepth = 1
    Urbs = {r1, r2}
    Unlinkers = {k1, k2}
    Nobody = Nobody
    Clients = {e1, e2}
    Top = 2
    Leaf = 2
    Setters = {s1, s2}
    LongLongMod = 128
    LongMod = 64
    IntMod = 32
    ShortMod = 16
    CharMod = 8
    Base = 4
    Width = 4
    Depth = 4
    From = From
    To = To
    AddrMod = 256
    MaxSingle = 4
    IdMod = 8
    Overflow = 6
    MaxByteMode = 16
    CpuHz = 8
    UserHz = 64
SYMMETRY Symmetric
INVARIANT BufferAccounted
INVARIANT AreasInBuffer
INVARIANT AddressesSynced
INVARIANT BlinkStops
INVARIANT BusTransfers
INVARIANT FamiliesAnswer
INVARIANT WorkNotLost
INVARIANT AnchorsBalanced
INVARIANT IdsUnique
INVARIANT StopsKept
INVARIANT ReaderKnows
INVARIANT NumbersExact
INVARIANT PacketsExact
INVARIANT DevicesExact
CHECK_DEADLOCK FALSE
