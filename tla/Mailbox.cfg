SPECIFICATION FairSpec
CONSTANTS
    Inputs = {5}
    Server = 10
    Callers = {4, 15}
    Size = 2
    Tries = 2
    Delay = 2
    Timeouts = {0, 2}
    Stalls = {1, 4}
    MaxFrames = 2
    MaxCalls = 2
    None = None
INVARIANT MailboxInv
PROPERTIES IsFifo FullOnlyWhenStalled CallsReturn
CHECK_DEADLOCK FALSE
