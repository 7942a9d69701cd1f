CONSTANTS
    r1 = r1
    r2 = r2
    Id = {"a", "b"}
    Cat <- MCCat
    Unc = "unc"
    Initial <- MCInitial
    Typed <- MCTyped
    Batches <- MCBatches
    Run = {r1, r2}
    MaxClicks = 3
    MaxCalls = 2
    None = None
SPECIFICATION FairSpec
INVARIANTS EditorOfSelection CardsMatchResult SelectionExists
 
CHECK_DEADLOCK FALSE
