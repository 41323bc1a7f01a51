SPECIFICATION Spec
CONSTANTS
    Dialogs = {d1, d2}
    MsgIds = {m1, m2, m3}
    NoMsg = NoMsg
    NumConsumers = 2
    Capacity = 12
    MaxText = 2
    Moves = {"delete"}
INVARIANTS TurnOwnsSession ThinkingEnds StreamingEnds ScreenFollowsTurn
PROPERTY SavedBeforeAnnounced
CHECK_DEADLOCK FALSE
