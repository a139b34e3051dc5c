SPECIFICATION Spec
CONSTANTS
    left = left
    right = right
    Node <- MCNode
    SeqCnt = 8
    MaxPackets <- OneWay2
    Closers = {}
    FaultKinds = {"lose", "duplicate", "reorder", "early", "ifcRemoved"}
    MaxFaults = 2
    CwndUnit = 10
    Null = Null
CHECK_DEADLOCK FALSE
INVARIANTS WindowsAgree
PROPERTIES ImplementsTransfer
