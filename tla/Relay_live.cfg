SPECIFICATION FairSpec
CONSTANTS
    A = a
    B = b
    OverloadSize = 1
    ReadySize = 0
    MaxSend = 3
    BlocksA = 4
    BlocksB = 1
    Blocks <- MCBlocks
PROPERTIES
    Relayed
    
