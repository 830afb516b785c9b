SPECIFICATION FairSpec
CHECK_DEADLOCK FALSE
CONSTANTS
    Threads = {t1, t2, t3, t4}
    NoThread = NoThread
    WriterEvent = WriterEvent
    ReaderSemaphore = ReaderSemaphore
    MaxShares = 2
    MaxLong = 2147483647
INVARIANTS
    Exclusion
    NotForgotten
PROPERTIES
    Served
