SPECIFICATION Spec
SYMMETRY Symmetry
CHECK_DEADLOCK FALSE
CONSTANTS
    Threads = {t1, t2}
    Objects = {o1, o2}
    Directory = Directory
    Names = {n1}
    NoName = NoName
    Entries = 3
INVARIANTS
    TableIntact
    CountsExact
    EndsOnce
    NamesAreUsed
PROPERTIES
    HandlesKeepObjects
