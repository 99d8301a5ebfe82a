CONSTANTS
    k1 = k1  k2 = k2
    Connections = {k1}
    Limits = {2}
    MaxPieces = 1
    BuffSize = 1
    SendStep = 4
    Requests <- ManyRequests
    NULL = NULL
SPECIFICATION Safe
INVARIANTS ConnectionSetToClose
