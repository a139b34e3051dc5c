SPECIFICATION FairSpec
CONSTANTS
    a = a
    b = b
    Client = {a, b}
    FpCnt = 3
    MaxTries = 2
    MaxCloses = 1
    FaultKinds = {}
    MaxFaults = 1
    Null = Null
CHECK_DEADLOCK FALSE
INVARIANTS ServedWhileUp AcceptFindsClient 
PROPERTIES StartEnds CloseEnds ClosedIsForgotten
