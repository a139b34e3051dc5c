SPECIFICATION Spec
CONSTANTS
    left = left
    right = right
    Node <- MCNode
    SeqCnt = 16
    MaxPackets <- OneWay17
    Closers = {}
    FaultKinds = {"lose"}
    MaxFaults = 3
    CwndUnit = 10
    Null = Null
CHECK_DEADLOCK FALSE
CONSTRAINT FaultsInBurst
INVARIANTS TimersExact HeadHeld RecoverInFlight
