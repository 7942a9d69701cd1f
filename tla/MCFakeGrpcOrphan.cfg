CONSTANTS
    r1 = r1
    r2 = r2
    r3 = r3
    r4 = r4
    a1 = a1
    a2 = a2
    Run = {r1, r2, r3}
    Addr = {a1, a2}
    AddrOf <- MCAddrOf
    BadBuild = {}
    None = None
SPECIFICATION Spec
INVARIANT NoOrphan
CHECK_DEADLOCK FALSE
