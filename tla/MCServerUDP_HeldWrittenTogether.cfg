SPECIFICATION Spec
CONSTANTS
    NoMsg = NoMsg
    AddrLen <- MCAddrLen
    FragCountMod = 4
    Sessions = {s1}
    Addrs = {a1}
    Allowed = {a1}
    Messages <- WholeMessages
    Entry = {e1, e2}
    RunLoop = RunLoop
    IdleLoop = IdleLoop
    Nil = Nil
    NoAddr = NoAddr
    IdleTimeout = 0
    MaxACLCache = 1
    MaxHeld = 2
PROPERTY HeldWrittenTogether
