SPECIFICATION PartsFairSpec
CONSTANTS
    Bits = 3
    Null = Null
    Ip = {1, 2}
    Remote = {1, 2}
    IfaceOf <- MCIface
    GwOf <- MCGw
    AddressOf <- MCAddress
    Table <- MCTable
    MaxEvents = 4
    FaultKinds = {}
    Nibble = 4
    BufLen = 64
    Thread = {t1, t2}
    Door = {1, 2}
    Datagram <- MCDatagram
    PerPool = 1
    MaxTries = 2
    MaxSends = 2
    FrameFaults = {}
    MaxCount = 3
    Job = {1, 2}
    Observer = {o1, o2}
    MaxDatagrams = 1
    MaxTicks = 2
    RecvFaults = {}
    Threads = 2
    Caller = {c1, c2, c3}
    CallFaults = {}
    MinCapacity = 2
    Chunk = {1, 2, 3}
    MaxBytes = 8
    RingFaults = {}
    Worker = {w1, w2, w3}
    Waiter = {v1, v2}
    CounterFaults = {}
    SeqCnt = 20
    Unit = 4
    MaxCwnd = 4
    InitSsthresh = 3
    MaxRetries = 1
    MaxPackets = 7
    PathFaults = {"lose", "duplicate", "reorder", "early", "close"}
    MaxPathFaults = 2
    Producer = {p1, p2}
    Consumer = {k1, k2}
    Element = {n1, n2, n3}
    MaxQueue = 2
    MaxAdds = 4
    Nil = Nil
    PoolThread = {h1, h2}
    PacketsPerPool = 1
    MaxDataSize = 1
    MaxHeaders = 2
    MaxTakes = 3
    Side = {"initiator", "peer"}
    FlowSeqCnt = 4
    RecvBuffer = 2
    StreamWrites <- MCStreamWritesOf
    StreamClosers = {"initiator", "peer"}
    StreamFaults = {}
    StopEnd = {"first", "second"}
    StopSeqCnt = 4
    StopWrites <- MCStopWritesOf
    StopClosers = {"first"}
    StopFaults = {"overtake", "early"}
    MaxStopFaults = 1
    FlowIdCnt = 3
    Acceptor = {a1, a2}
    FlowPackets = 4
    FlowWindow = 3
    StatusAfter = 1
    MuxFaults = {}
    NoStatus = NoStatus
CHECK_DEADLOCK FALSE
INVARIANTS IdNamesOneAddress InterfacesSound RoutesFollowed WireSound  JobsSound ReceiverSound WaitsSound HandlersSound PacketsApart
PROPERTIES ServerFollowsClient EveryoneReturns
