SPECIFICATION Spec
CONSTANTS
    plain = plain
    plain2 = plain2
    tls = tls
    async = async
    sig = sig
    SockQuota = 3
    OtherQuota = 1
    Quota <- MCQuota
    Socks <- MCTLS
    TLS <- MCTLS
    Async <- MCAsync
    Signals <- MCSignals
    NoSignal = NoSignal
    NumSlots = 2
    NoSock = NoSock
    IO = IO
    Worker = Worker
    Ticker = Ticker
    OverloadSize = 2
    ReadySize = 1
    LowAfter = 0
    MaxTicks = 0
    SlowTicks = FALSE
INVARIANTS
    PauseConsistent
    PopNeverBlocks
    ClearFindsSignal
PROPERTY
    InOrder
