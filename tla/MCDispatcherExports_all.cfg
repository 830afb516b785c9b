SPECIFICATION ExportsSpec
CHECK_DEADLOCK FALSE
CONSTANTS
    t1 = t1
    t2 = t2
    t3 = t3
    Threads <- MCThreads
    Idle = Idle
    NoThread = NoThread
    NotificationEvents = {n1}
    SynchronizationEvents = {e1}
    Semaphores = {}
    Mutants = {}
    NoObject = NoObject
    FirstThread = t1
    InitialPriority <- MCMixedPriority
    LowRealtimePriority = 3
    HighPriority = 3
    TimeCriticalBasePriority = 3
    ThreadQuantum = 1
    WaitQuantumDecrement = 1
    ClockQuantumDecrement = 1
    SemaphoreLimit = 1
    MutantLimit <- MCMutantLimit
    Increments = {0}
    Adjustments = {1}
    TailReads = {"WaitAll"}
    MaxDpcs = 0
    Exports <- MCAll
    ProcessBase = 1
    NewPriorities = {1}
    BaseIncrements <- MCBaseIncrements
INVARIANTS
    ExportsAgree
PROPERTIES
    PulseIsAtomic
