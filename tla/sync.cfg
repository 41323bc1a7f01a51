SPECIFICATION FairSpec
CONSTANTS
    Memories = {x, y}
    MaxOps = 3
    MaxQueueSize = 2
    Retries = 2
INVARIANTS NothingLost PendingIsDriven UpdateFollowsSave
PROPERTY Drains
CHECK_DEADLOCK FALSE
