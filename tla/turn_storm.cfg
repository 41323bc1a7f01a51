SPECIFICATION FairSpec
CONSTANTS
    Dialogs = {d1}
    MsgIds = {m1, m2}
    NoMsg = NoMsg
    NumConsumers = 2
    Capacity = 1
    MaxText = 2
    Moves = {"impatient", "stop", "delete", "fail", "silent"}
INVARIANTS AnswerOnce ScreenConsistent
PROPERTY EveryTurnEnds
CHECK_DEADLOCK FALSE
