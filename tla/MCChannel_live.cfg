SPECIFICATION FairSpec
CONSTANTS
    left = left
    right = right
    Node <- MCNode
    SeqCnt = 8
    MaxPackets <- OneWay3
    Closers = {}
    FaultKinds = {"lose", "duplicate", "early"}
    MaxFaults = 1
    CwndUnit = 10
    Null = Null
CHECK_DEADLOCK FALSE
PROPERTIES EverythingAcked
