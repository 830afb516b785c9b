SPECIFICATION FairSpec
CHECK_DEADLOCK FALSE
CONSTANTS
    t1 = t1
    t2 = t2
    t3 = t3
    Threads <- MCThreads
    Idle = Idle
    NoThread = NoThread
    NotificationEvents = {}
    SynchronizationEvents = {}
    Semaphores = {s1}
    Mutants = {}
    NoObject = NoObject
    FirstThread = t1
    InitialPriority <- MCEqualPriority
    LowRealtimePriority = 4
    HighPriority = 4
    TimeCriticalBasePriority = 3
    ThreadQuantum = 2
    WaitQuantumDecrement = 1
    ClockQuantumDecrement = 1
    SemaphoreLimit = 2
    MutantLimit <- MCMutantLimit
    Increments = {0}
    Adjustments = {1}
    TailReads = {"WaitAll"}
    MaxDpcs = 0
PROPERTIES
    EveryThreadRuns
