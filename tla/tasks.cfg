SPECIFICATION FairSpec
CONSTANTS
    Items = {t1, t2, t3}
    MaxSize = 0
    Workers = {w1, w2}
    NoWorker = NoWorker
    NoTask = NoTask
    MaxConcurrent = 1
INVARIANTS TasksAccounted ConcurrencyBounded
PROPERTIES SettledForGood SubmittedIsAnswered
CHECK_DEADLOCK FALSE
