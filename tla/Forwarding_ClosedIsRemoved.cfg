SPECIFICATION ForwardingSpec
CONSTANTS
    Senders = {a1}
    MaxSessions = 1
PROPERTY ClosedIsRemoved
CHECK_DEADLOCK FALSE
