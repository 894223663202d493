CONSTANTS
    NumNames = 3
    HiddenDeletes = FALSE
    MaxWrites = 3
    MaxSessions = 2
    Trees <- MCTrees
    Blocks <- MCBlocks
SPECIFICATION Spec
INVARIANTS
    TypeOK
    DirectoryIsTruthful
    ReadsAllButLast
    AckedIsStored
    ReadsWhatWasSaved
CHECK_DEADLOCK FALSE
