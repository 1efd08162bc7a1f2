\* one entry in the pool for each handler, and no more
CONSTANTS
    Startup <- MCStartup
    Interval <- MCInterval
    Pool = 5
    Word = 1048576
    MaxMbox = 2
    MaxSlip = 2
SPECIFICATION FairSpec
INVARIANT TimersSound
PROPERTIES Countdown EveryTimerFires
