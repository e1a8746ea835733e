SPECIFICATION Spec
CONSTANTS
    MaxSessions = 1
    NumSocks = 5
    SockIds <- MCSockIds
    NoSock = 0
    Nobody = Nobody
    Data = Data
    MaxQueued = 1
    HasIdent = FALSE
    NoIdnt = FALSE
    Sequential = FALSE
    ServerFirst = TRUE
INVARIANT AssertsHold
