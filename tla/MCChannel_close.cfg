SPECIFICATION Spec
CONSTANTS
    left = left
    right = right
    Node <- MCNode
    SeqCnt = 8
    MaxPackets <- Silent
    Closers = {left}
    FaultKinds = {"lose", "reorder"}
    MaxFaults = 5
    CwndUnit = 10
    Null = Null
CHECK_DEADLOCK FALSE
INVARIANTS CloseIsMutual NothingLeftBehind
