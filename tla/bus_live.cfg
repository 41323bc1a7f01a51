SPECIFICATION FairSpec
CONSTANTS
    e1 = e1
    e2 = e2
    e3 = e3
    s1 = s1
    s2 = s2
    NoItem = NoItem
    Wants <- MCWants
    Items = {e1, e2, e3}
    MaxSize = 1
    Timed = {e2}
    NoWait = {e3}
    Tasks = {c1, c2}
    NumConsumers = 1
    Subscribers = {s1}
    DrainTimesOut = TRUE
INVARIANT RunningHasConsumer
PROPERTIES AcceptedIsDispatched TimedEmitEnds
CHECK_DEADLOCK FALSE
