SPECIFICATION Spec
CHECK_DEADLOCK FALSE
SYMMETRY MCSymmetry
CONSTANTS
    Threads = {t1, t2}
    Files = {f1, f2}
    Names = {a}
    Volume = Volume
    NoInfo = NoInfo
    Asked <- MCAsked
    OpenLimit = 2
    MaxHandles = 2
INVARIANTS
    ReferencesExact
    FreedUntouched
    FileLockRight
    ClosedInOrder
    SharingExact
