SPECIFICATION Spec
CONSTANTS
    NoMsg = NoMsg
    AddrLen <- MCAddrLen
    FragCountMod = 4
    Addrs = {"", "a"}
    DataLens = {0, 2, 3, 5, 6}
    PathMTUs = {10, 12}
    MaxUDPSize = 15
    PacketIDs = {1, 2}
    MaxSends = 3
    MaxDatagrams = 6
INVARIANT PreviousStateDiscarded
CHECK_DEADLOCK FALSE
