CONSTANTS
    p1 = p1
    p2 = p2
    c1 = c1
    t1 = t1
    t2 = t2
    t3 = t3
    Producers <- TrioP
    Consumers <- TrioC
    Threads <- TrioThreads
    Work <- TrioLiveWork
    BufferLimit = 1
    NoCaller = NoCaller
    NoThread = NoThread
    CountWaits = FALSE
    None = None

SPECIFICATION Spec

PROPERTY BenchmarkEnds


CHECK_DEADLOCK FALSE
