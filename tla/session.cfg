SPECIFICATION Spec
CONSTANTS
    Dialogs = {d1, d2, d3}
    MsgIds = {m1}
    NoMsg = NoMsg
    MaxSessions = 2
    MaxHistory = 1
    TransitionTargets = {"error", "closing", "closed"}
SYMMETRY Symmetry
INVARIANTS TableInv ContextInv
PROPERTIES StreamingSurvives RefusedKeepsStatus ImplementsRegistry
