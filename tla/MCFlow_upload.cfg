SPECIFICATION FairSpec
CONSTANTS
    client = client
    server = server
    Node <- MCNode
    Opener = client
    SeqCnt = 8
    RecvWindow = 2
    ReadsPerControl = 1
    MaxWrites <- Upload
    Closers = {client}
    FaultKinds = {"status"}
    MaxFaults = 2
    Null = Null
CHECK_DEADLOCK FALSE
INVARIANTS WindowRespected ReaderFindsPacket NoGhostFlow
PROPERTIES ImplementsStream EverythingRead CloseReturns
