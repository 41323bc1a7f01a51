SPECIFICATION Spec
CONSTANTS
    Dialogs = {d1}
    MsgIds = {m1, m2}
    NoMsg = NoMsg
    NumConsumers = 2
    Capacity = 4
    MaxText = 1
    Moves = {"impatient"}
PROPERTY SavedBeforeAnnounced
CHECK_DEADLOCK FALSE
