\* arbitrary bytes, full-width counters, the array size of the code
CONSTANTS
    Bytes <- MCBytes
    RX_BUF_SIZE = 50
SPECIFICATION FairSpec
INVARIANTS ReceiverInv NoStalePayload DrivenWhileShifting
PROPERTIES StrayOnlyFromLongCount EveryResponseEnds
