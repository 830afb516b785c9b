SPECIFICATION Spec
CHECK_DEADLOCK FALSE
CONSTANTS
    t1 = t1
    t2 = t2
    t3 = t3
    Threads <- MCThreads
    Idle = Idle
    NoThread = NoThread
    NotificationEvents = {n1}
    SynchronizationEvents = {e1}
    Semaphores = {}
    Mutants = {m1}
    NoObject = NoObject
    FirstThread = t2
    InitialPriority <- MCEqualPriority
    LowRealtimePriority = 3
    HighPriority = 3
    TimeCriticalBasePriority = 3
    ThreadQuantum = 1
    WaitQuantumDecrement = 1
    ClockQuantumDecrement = 1
    SemaphoreLimit = 2
    MutantLimit <- MCMutantLimit
    Increments = {0, 1}
    Adjustments = {1, 2}
    TailReads = {"WaitAll", "WaitAny"}
    MaxDpcs = 0
INVARIANTS
    ObjectsAgree
PROPERTIES
    ImplementsSyncObjects
