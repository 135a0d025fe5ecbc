SPECIFICATION MCSpec
CONSTANTS
    Lanes = {"datagram", "message", "number", "ranges", "keys", "pmtu", "sched", "http3"}
    MaxStreamSize = 2000000000
    MaxPktNum = 1073741824
    WindowSize = 128
    PnMaxLen = 3
    PnRuns = {1, 130, 40000}
    PnSends = 4
    PnFlight = 2
    Points = {0, 1, 2, 3, 4, 5, 6}
    Capacities <- MCCapacities
    MinClientInitialLen = 140
    FramesPerPacket = 2
    Setups <- MCSetups
    PacketFrames <- MCPacketFrames
    SampleFrames <- MCSampleFrames
    SampleParams <- MCSampleParams
    SampleTokens <- MCSampleTokens
    SampleHeaders <- MCSampleHeaders
    StaticTable <- MCStaticTable
    HuffmanCode <- MCHuffmanCode
    SampleSpecials <- MCSampleSpecials
    MaxStreamsPerType = 1073741900
    MultipathParam = 1073741850
    KuStarts = {0, 254}
    KuSends <- MCKuSends
    PmPaths = {1200, 1471}
    PmPeers = {1400, 65527}
    PmMax = {1200, 2000}
    PmLosses = 3
    ScModes <- MCScModes
    ScLambda = 25
    ScInitRtt = 333
    ScInitCwnd = 10
    ScEvents = 3
    H3Modes <- MCH3Modes
    H3Window = 5
    H3Out = 2
    H3MaxStreams = 2
INVARIANTS
    DatagramSurvives
    MessageSurvives
    NumbersAreExact
    RangesExact
    KeysStayInStep
    PmtuConverges
    CopiesDoNotEcho
    PicksAreFair
    H3MessageSound
