CONSTANTS
    Opened = {1, 3}
    MaxSteps = 3
    MaxUid = 6
    MaxClicks = 5
    MaxCalls = 2
    None = None
SPECIFICATION FairSpec
INVARIANTS TabsMatchSteps ResultOfItsStep
PROPERTIES DropNextToTarget ButtonsReturn
CHECK_DEADLOCK FALSE
