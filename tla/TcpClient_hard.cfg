\* every hard behaviour at once; a fault really stops the board
CONSTANTS
    p1 = p1
    p2 = p2
    p3 = p3
    b1 = b1
    b2 = b2
    b3 = b3
    NULL = NULL
    Pcbs <- MCPcbs2
    Blocks <- MCBlocks1
    Env <- Everything
SPECIFICATION Spec
SYMMETRY Symmetry2
INVARIANTS PoolInv PortsDistinct TcpNewSucceeds
CHECK_DEADLOCK FALSE
