CONSTANTS
    p1 = p1
    p2 = p2
    c1 = c1
    t1 = t1
    t2 = t2
    t3 = t3
    Producers <- PairP
    Consumers <- PairC
    Threads <- PairThreads
    Work <- PairWork
    BufferLimit = 1
    NoCaller = NoCaller
    NoThread = NoThread
    CountWaits = TRUE
    None = None

SPECIFICATION Spec

INVARIANT WaitCountExact



CHECK_DEADLOCK FALSE
