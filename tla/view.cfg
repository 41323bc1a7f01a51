SPECIFICATION Spec
CONSTANTS
    Dialogs = {d1, d2}
    MsgIds = {m1, m2}
    None = None
    NumConsumers = 2
    MaxText = 2
    MaxBuffer = 2
    MaxWire = 1
    MaxUplink = 1
INVARIANTS StatusConverges TextExact NoChunkMissing AnswerShownOnce ShowsWhatIsStored
CHECK_DEADLOCK FALSE
SYMMETRY Symmetry
