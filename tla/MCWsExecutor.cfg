CONSTANTS
    m1 = m1
    m2 = m2
    txt = txt
    x = x
    v1 = v1
    v2 = v2
    null = null
    Message <- MCMessage
    Json <- MCJson
    Name = {x}
    Value = {v1, v2}
    Null = null
    Extract <- MCExtract
    Programs <- MCPrograms
    Presets <- MCPresets
    PollTicks = 2
    DefaultAwait = 3
    DefaultCollect = 2
    MaxMsgs = 2
SPECIFICATION FairSpec
INVARIANTS
    TypeOK
    NoMessageLost
    MatchIndexValid
    MatchedEndsAtFirstMatch
    ContextIsLatestExport
PROPERTIES ImplementsInbox StepReturns
CHECK_DEADLOCK FALSE
