SPECIFICATION MCSpec
CONSTANTS
    NoMsg = NoMsg
    AddrLen <- MCAddrLen
    FragCountMod = 4
    Addrs = {"", "a"}
    DataLens = {0, 3, 6}
    PathMTUs = {10, 12}
    MaxUDPSize = 15
    PacketIDs = {1, 2}
    MaxSends = 3
    MaxDatagrams = 6
    Rates = {0, 1, 2, 3}
    MinRate = 2
    Windows = {0, 1, 2}
    MinWindow = 2
    Idles = {0, 1, 3, 9}
    MinIdle = 2
    MaxIdle = 8
    DefaultWindow = 4
    DefaultIdle = 4
    MaxAddressLength = 66
    MaxTextLength = 66
    MaxPaddingLength = 68
    maxVarInt1 = 63
    maxVarInt2 = 16383
    Lengths = {0, 1, 63, 64, 66, 67, 68, 69}
    Cuts = {0, 1, 2, 3, 64}
    Attempts = {n1, n2}
    Responders = {r1, r2}
    EventBuf = 1
    Nobody = Nobody
    Callers = {g1, g2}
    RuleLists <- MCRuleLists
    Requests <- MCRequests
    OutboundLists <- MCOutboundLists
    CacheSize = 2
    MaxName = 3
    AddrBits = 3
    MaxNets = 3
    MuxCallers = {"h1", "s1"}
    ProtocolOf <- MCProtocolOf
    MaxMux = 2
    MaxSubs = 2
    MaxConns = 1
    TunClosers = {t1, t2}
    Sessions = {s1}
    SessionAddrs = {a1, a2}
    Allowed = {a1}
    Entry = {e1}
    RunLoop = RunLoop
    IdleLoop = IdleLoop
    Nil = Nil
    NoAddr = NoAddr
    IdleTimeout = 0
    MaxACLCache = 1
    MaxHeld = 1
    Calls = {k1, k2}
    Boot = Boot
    MaxWrites = 2
    KeyOf <- MCKeyOf
    NoCache = NoCache
    MimicHosts = {p1, p2}
    Stale = Stale
    ProxyModes = {"SOCKS5", "HTTP"}
INVARIANTS
    RoutesRespected
    Integrity
    PeersAgree
    RulesDecide
    
    PunchesMatched
    RenewalServed
    ProcessesEnd
PROPERTIES
    CacheAdvances
CHECK_DEADLOCK FALSE
