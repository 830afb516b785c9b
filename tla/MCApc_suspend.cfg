SPECIFICATION Spec
CONSTANTS
    t1 = t1  t2 = t2  s1 = s1  n1 = n1  n2 = n2  e1 = e1
    Threads = {t1, t2}
    NoThread = NoThread
    SpecialApcs = {s1}
    NormalApcs = {n1, n2}
    ApcThread <- MCApcThread
    Events = {e1}
    NoEvent = NoEvent
    MaxDisable = 1
    MaximumSuspendCount = 2
    SuspendTargets = {t2}
INVARIANTS
    SuspendedThreadStops
