\* one end writes, the network and the heap fail once
CONSTANTS
    Seq32 = 32
    U16 = 32
    U8 = 4
    Mss = 2
    Wnd = 4
    SndBuf = 4
    SndQueueLen = 4
    MaxRtx = 2
    MaxBytes = 5
    MaxFaults = 1
    NetCap = 4
    Iss <- MCIss
    Writers <- MCWriters
    Lengths <- MCLengths
    Copies <- MCCopies
    Takes <- MCTakes
    NoDelay <- MCNoDelay
SPECIFICATION FairSpec
INVARIANTS QueuesKept NothingForgotten WindowHonoured
PROPERTIES IsByteStream Arrives
CHECK_DEADLOCK FALSE
