SPECIFICATION Spec
CONSTANTS
    o1 = o1
    o2 = o2
    p1 = p1
    p2 = p2
    NumSocks = 3
    Owners <- MCTwo
    MaxSessions = 1
    Ports <- MCPorts
    MaxQueue = 2
    MaxBatch = 2
    SockIds <- MCSockIds
    NoSock = 0
    NoPort = NoPort
    Sequential = TRUE
INVARIANTS
    NoPortLeak
    PortsHeld
