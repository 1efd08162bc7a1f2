\* prompt peers that open and close in good order
CONSTANTS
    p1 = p1
    p2 = p2
    p3 = p3
    b1 = b1
    b2 = b2
    b3 = b3
    NULL = NULL
    Pcbs <- MCPcbs3
    Blocks <- MCBlocks3
    Env <- Graceful
SPECIFICATION FairSpec
INVARIANTS ConnectedIsLive BuffersSound
PROPERTY AlwaysReconnects
