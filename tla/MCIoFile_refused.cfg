SPECIFICATION Spec
CHECK_DEADLOCK FALSE
SYMMETRY MCSymmetry
CONSTANTS
    Threads = {t1, t2}
    Files = {f1}
    Names = {a}
    Volume = Volume
    NoInfo = NoInfo
    Asked <- MCAsked
    OpenLimit = 2
    MaxHandles = 1
INVARIANTS
    RefusedRequestEnds
