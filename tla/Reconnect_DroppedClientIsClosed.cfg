SPECIFICATION Spec
CONSTANTS
    Callers = {p1, p2}
    Clients = {c1, c2}
    Nil = Nil
PROPERTY DroppedClientIsClosed
