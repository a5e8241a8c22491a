SPECIFICATION MCSpec
CONSTANTS
    Socks = {k1, k2, k3}
    PortCount = 1
    QueueSize = 1
    Seconds = {4, 5}
    Deadlines = {"zero", "past"}
    NoSock = NoSock
    Peers = {a1, a2}
    PacketLens = {16}
    ChunkCounts = {3}
    MaxPackets = 2
    MsgIDMod = 4
    MaxReassembly = 2
    MaxPerSource = 1
    ReassemblyTTL = 2
    GCPeriod = 1
    MinPkt = 6
    MaxPkt = 8
    BufferSize = 9
    SaltLen = 2
    HeaderSize = 1
    MinChunks = 2
    MaxChunks = 4
    va = va
    vb = vb
    none = none
    PacketNumbers = {0, 1, 2, 3, 4}
    EntryValues = {va, vb}
    NoEntry = none
    RingSize = 2
    windowLength = 4
    FilterSamples = {0, 1, 2, 3}
    MaxRound = 7
    pktInfoSlotCount = 2
    minSampleCount = 3
    minAckNum = 2
    minAckDen = 3
    MaxSecond = 5
    MaxPerEvent = 2
    Nano = 4
    Width = 6
    PacerSizes = {2, 3}
    Bandwidths = {3, 5}
    maxBurstPackets = 2
    MinPacingDelay = 1
    MaxIdle = 16
    MaxPacket = 3
    MaxClock = 3
    packetThreshold = 3
    Estimates = {1}
    AppLimitedWindow = 3
    Scale = 6
    MaxAge = 3
    reorderThreshold = 3
    BDPs = {0, 4}
    AckHeights = {0}
    MaxDatagramSizes = {2, 3}
    minCongestionWindowPackets = 1
    initialCongestionWindowPackets = 2
    maxCongestionWindowPackets = 2
    MaxPacketBufferSize = 3
    numStartupRtts = 2
    startupFullLossCount = 2
    gainCycle <- MCCongestionCycle
INVARIANTS
    
    ModesSound
    MeasuresExact
PROPERTIES
    HopSeamless
    QueueIsMap
    TransportEnds
CHECK_DEADLOCK FALSE
