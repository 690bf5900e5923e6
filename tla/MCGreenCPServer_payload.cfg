CONSTANTS
    p1 = p1
    p2 = p2
    c1 = c1
    t1 = t1
    t2 = t2
    t3 = t3
    Producers <- TrioClientsP
    Consumers <- TrioClientsC
    Threads <- TrioThreads
    Work <- TrioWork
    BufferLimit = 1
    NoCaller = NoCaller
    NoSlot = NoSlot
    NoThread = NoThread
    None = None

SPECIFICATION Spec

INVARIANT ReadyPayloadAsSpecified



CHECK_DEADLOCK FALSE
