SPECIFICATION FairSpec
CONSTANTS
    p1 = p1
    p2 = p2
    Threads = {t1, t2}
    Pools = {p1, p2}
    NoThread = NoThread
    MinSize <- MinSizes
    MaxSize = 1
    MaxCalls = 4
CHECK_DEADLOCK FALSE
INVARIANTS TypeOK VmExclusive Conservation LimitOrForced NoUnderflow QuietCounters
PROPERTIES SpawnReturns
