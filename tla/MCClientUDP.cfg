SPECIFICATION FairSpec
CONSTANTS
    NoMsg = NoMsg
    AddrLen <- MCAddrLen
    FragCountMod = 4
    Conns = {c1, c2}
    IDMod = 4
    ChanSize = 2
    Messages <- SomeMessages
    Nil = Nil
INVARIANTS
    NoPanic
    CleanAfterRun
PROPERTIES
    ReceiversReturn
CHECK_DEADLOCK FALSE
