CONSTANTS
    NT = 2
    f1 = f1
    f2 = f2
    f3 = f3
    Mix = Mix
    None = None
    Frames <- MCFrames
SPECIFICATION FairSpec
INVARIANT SentSound
PROPERTIES LossHasCause DmaDrains
