\* frames that fit an Rx buffer
CONSTANTS
    N = 3
    PoolSize = 2
    MsgSize = 2
    MboxSize = 1
    EncSize = 1
    Kinds <- Fitting
SPECIFICATION FairSpec
INVARIANTS RingSound MessagesKept PbufsKept
PROPERTIES InOrder Drained
