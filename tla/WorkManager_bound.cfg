SPECIFICATION Spec
CONSTANTS
    plain = plain
    plain2 = plain2
    tls = tls
    async = async
    sig = sig
    SockQuota = 4
    OtherQuota = 0
    Quota <- MCQuota
    Socks <- MCPlains
    TLS <- MCNone
    Async <- MCNone
    Signals <- MCNone
    NoSignal = NoSignal
    NumSlots = 2
    NoSock = NoSock
    IO = IO
    Worker = Worker
    Ticker = Ticker
    OverloadSize = 2
    ReadySize = 1
    LowAfter = 0
    MaxTicks = 1
    SlowTicks = FALSE
INVARIANT
    QueueBounded
