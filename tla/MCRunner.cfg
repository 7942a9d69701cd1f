CONSTANTS
    x = x
    y = y
    v1 = v1
    v2 = v2
    null = null
    p = p
    f = f
    g = g
    Name = {x, y}
    Value = {v1, v2}
    Null = null
    Path = {p}
    File = {f, g}
    Body <- MCBody
    TestCases <- MCTestCases
    Responses <- MCResponses
    SubResponses <- MCSubResponses
    MidExports <- MCMidExports
SPECIFICATION FairSpec
INVARIANTS
    TypeOK
    FailurePropagates
    RequestsUseEarlierExports
PROPERTIES NothingAfterFailure RunEnds
CHECK_DEADLOCK FALSE
