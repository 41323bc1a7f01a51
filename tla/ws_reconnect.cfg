SPECIFICATION Spec
CONSTANTS
    Sockets = {s1, s2}
    Clients = {a}
    Messages = {m1}
    None = None
    MaxSize = 1
    Sharing = "reconnect"
INVARIANTS RestoredIsServed
CHECK_DEADLOCK FALSE
