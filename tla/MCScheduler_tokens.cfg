SPECIFICATION Spec
CONSTANTS
    d1 = d1
    d2 = d2
    f1 = f1
    c1 = c1
    c2 = c2
    Channel = {x}
    Packet = {d1, c1, c2}
    Control <- MCControl
    Finish <- MCFinish
    Chs = Chs
    Chf = Chf
    Ifc = Ifc
    QueueSize = 1
    MaxWindow = 2
    Closes = TRUE
    FaultKinds = {"ifcRemoved", "netDown"}
    MaxFaults = 1
    Null = Null
CHECK_DEADLOCK FALSE
INVARIANTS TypeOK TokensMatchPackets TokenMeansPacket PacketsKept
