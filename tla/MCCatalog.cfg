CONSTANTS
    r = r
    u = u
    a = a
    b = b
    x = x
    y = y
    xc = xc
    xd = xd
    k = k
    none = none
    c1 = c1
    c2 = c2
    Client = {c1, c2}
    Dir = {r, u, a, b}
    Root = r
    Unc = u
    Id = {x, y, xc, xd}
    Name = {x, y, xc, xd, k}
    Copies <- MCCopies
    Initial <- MCInitial
    Requests <- MCRequests
    None = none
SPECIFICATION Spec
INVARIANTS OthersUntouched ListWorksAtRest MovesLoseNothing
PROPERTY AtomicWhileAlone
CHECK_DEADLOCK FALSE
