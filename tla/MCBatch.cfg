CONSTANTS
    t1 = t1
    t2 = t2
    t3 = t3
    c1 = c1
    c2 = c2
    Item = {t1, t2, t3}
    Chain = {c1, c2}
    None = None
SPECIFICATION FairSpec
INVARIANTS NothingSkipped RowsCurrent
PROPERTIES StopHolds BatchEnds
CHECK_DEADLOCK FALSE
