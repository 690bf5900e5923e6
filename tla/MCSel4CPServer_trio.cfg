CONSTANTS
    p1 = p1
    p2 = p2
    c1 = c1
    t1 = t1
    t2 = t2
    t3 = t3
    Producers <- TrioP
    Consumers <- TrioC
    Threads <- TrioThreads
    Work <- TrioWork
    BufferLimit = 2
    NoCaller = NoCaller
    NoThread = NoThread
    CountWaits = FALSE
    None = None

SPECIFICATION Spec

INVARIANT TypeOK
INVARIANT BufferAccounting
INVARIANT ReplyMatchesRequest
INVARIANT ReadyReleasesEveryClient
INVARIANT NoHang
PROPERTY ImplementsBoundedBuffer


CHECK_DEADLOCK FALSE
