CONSTANTS
    k1 = k1
    k2 = k2
    k3 = k3
    t1 = t1
    t2 = t2
    t3 = t3
    Clients <- Trio
    Threads <- TrioThreads
    Rounds = 2
    Primitive = "lock"
    EveryClientWaits = TRUE
    NoCaller = NoCaller
    NoSlot = NoSlot
    NoThread = NoThread
    None = None

SPECIFICATION Spec

INVARIANT ReplyMatchesRequest



CHECK_DEADLOCK FALSE
