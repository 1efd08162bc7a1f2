SPECIFICATION Spec
CONSTANTS
    Requests <- MCRequests
    Coil <- MCCoil
    Reg <- MCReg
    Flips = {1, 128, 255}
    Cuts = {5, 8, 30}
    Slack = {0, 9}
    Dest = 4
    MAX_BUFF_SIZE = 100
    MaxExchanges = 2
INVARIANTS RequestUnderstood AnalysisRight ReplyStored
PROPERTY ScanEnds
CHECK_DEADLOCK FALSE
