SPECIFICATION FairSpec
CHECK_DEADLOCK FALSE
CONSTANTS
    Threads = {t1, t2, t3}
    NoThread = NoThread
    Event = Event
    MaxDepth = 2
INVARIANTS
    MutualExclusion
    NotForgotten
PROPERTIES
    Served
