CONSTANTS
    k1 = k1
    k2 = k2
    k3 = k3
    t1 = t1
    t2 = t2
    t3 = t3
    Clients <- Trio
    Threads <- TrioThreads
    Rounds = 2
    EveryClientWaits = FALSE
    ReplyPath = "slow"
    Primitive = "lock"
    NoCaller = NoCaller
    None = None

SPECIFICATION Spec

PROPERTY ReadyReachesEveryClient

CHECK_DEADLOCK FALSE
