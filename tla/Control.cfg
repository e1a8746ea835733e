SPECIFICATION FairSpec
CONSTANTS
    MaxSessions = 1
    NumSocks = 6
    SockIds <- MCSockIds
    NoSock = 0
    Nobody = Nobody
    Data = Data
    MaxQueued = 1
    HasIdent = TRUE
    NoIdnt = FALSE
    Sequential = TRUE
    ServerFirst = TRUE
INVARIANTS
    TypeOK
    AssertsHold
    IdentFirst
    NoOrphans
    BothSecured
PROPERTY IdentEnds
