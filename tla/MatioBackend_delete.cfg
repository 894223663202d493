CONSTANTS
    NumNames = 2
    HiddenDeletes = TRUE
    MaxWrites = 3
    MaxSessions = 2
    Trees <- MCTrees
    Blocks <- MCBlocks
SPECIFICATION Spec
INVARIANTS
    DeletesOnlyNamed
CHECK_DEADLOCK FALSE
