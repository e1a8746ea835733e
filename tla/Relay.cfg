SPECIFICATION Spec
CONSTANTS
    A = a
    B = b
    OverloadSize = 1
    ReadySize = 0
    MaxSend = 2
    BlocksA = 8
    BlocksB = 4
    Blocks <- MCBlocks
INVARIANTS
    TypeOK
    Conserved
    PauseEnds
    BufferBound
    NoStandoff
