SPECIFICATION FairSpec
CONSTANTS
    d1 = d1
    d2 = d2
    f1 = f1
    c1 = c1
    c2 = c2
    Channel = {x}
    Packet = {d1, f1}
    Control <- MCControl
    Finish <- MCFinish
    Chs = Chs
    Chf = Chf
    Ifc = Ifc
    QueueSize = 1
    MaxWindow = 1
    Closes = TRUE
    FaultKinds = {"ifcRemoved"}
    MaxFaults = 1
    Null = Null
CHECK_DEADLOCK FALSE
PROPERTIES QueuesDrain SchedulerStops
