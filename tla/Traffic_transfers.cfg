SPECIFICATION Spec
CONSTANTS
    o1 = o1
    o2 = o2
    p1 = p1
    p2 = p2
    NumSocks = 5
    Owners <- MCOne
    MaxSessions = 2
    Ports <- MCPort
    MaxQueue = 2
    MaxBatch = 1
    SockIds <- MCSockIds
    NoSock = 0
    NoPort = NoPort
    Sequential = TRUE
INVARIANTS
    TypeOK
    SocketsHeld
    NoCrossTalk
