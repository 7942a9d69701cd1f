CONSTANTS
    Id = {"a", "b"}
    Cat = {"f", "fg", "unc"}
    Below <- MCBelow
    Unc = "unc"
    InitialOrder <- MCOrder
    Targets <- MCTargets
    Saves <- MCSaves
    MaxClicks = 3
    MaxFetches = 2
    None = None
SPECIFICATION Spec
INVARIANTS OneMoveAtATime DropKeepsFolder TreeCatchesUp ChecksAreSelection
CHECK_DEADLOCK FALSE
