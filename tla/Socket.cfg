SPECIFICATION FairSpec
CONSTANTS
    Timeout = 2
    MaxSend = 3
    MaxData = 2
INVARIANTS
    Watched
    OnTheRightSide
PROPERTIES
    Promise
    Settles
    HandshakeEnds
    ClosedGoes
CHECK_DEADLOCK FALSE
