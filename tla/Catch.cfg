CONSTANTS
    Commands = {"AUTH", "PASV", "EPSV 1", "EPSV 2", "PORT", "EPRT", "XFER", "other"}
    MaxCommands = 3
    Manners = {"waits", "pipelines"}
    AuthOnce = TRUE
SPECIFICATION FairSpec
INVARIANTS
    TypeOK
    Bounced
    KindMatches
    Intercepted
    InStep
PROPERTIES
    AllAnswered
CHECK_DEADLOCK FALSE
