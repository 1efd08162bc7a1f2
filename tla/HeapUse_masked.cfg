\* the tasks of the board on a small heap
CONSTANTS
    Tasks <- MCTasks
    Masked <- MCMasked
    Idle = 63
    MEM_SIZE = 92
    Sizes <- MCSizes
SPECIFICATION UseSpec


PROPERTY NoSharing
