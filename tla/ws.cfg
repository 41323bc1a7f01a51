SPECIFICATION FairSpec
CONSTANTS
    Sockets = {s1, s2}
    Clients = {a, b}
    Messages = {m1, m2}
    None = None
    MaxSize = 1
    Sharing = "tabs"
INVARIANTS OpenIsServed DeliveredInOrder SnapshotIsPrivate ClosedLeavesNothing
PROPERTIES AcceptedArrives BrokenIsCleanedUp
CHECK_DEADLOCK FALSE
