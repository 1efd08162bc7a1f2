\* a fast retransmit that Nagle's algorithm holds back
CONSTANTS
    Seq32 = 32
    U16 = 32
    U8 = 4
    Mss = 2
    Wnd = 4
    SndBuf = 6
    SndQueueLen = 6
    MaxRtx = 2
    MaxBytes = 6
    MaxFaults = 3
    NetCap = 4
    Iss <- MCIss
    Writers <- MCWriters
    Lengths <- MCLengths
    Copies <- MCCopies
    Takes <- ReadAtOnce
    NoDelay <- MCNoDelay
SPECIFICATION Spec
INVARIANT NothingForgotten
CHECK_DEADLOCK FALSE
