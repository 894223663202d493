SPECIFICATION FairSpec
CONSTANTS
    Vars = {"m", "x"}
    Matrices = {"m"}
    Rows = 2
    Cols = 2
    Structs = {"x"}
    Chunks = 3
    ChunkSize = 2
    Modes <- BothModes
    MaxSamples = 7
    MaxSaves = 2
INVARIANT TypeOK
INVARIANT Accounted
INVARIANT InFileOrder
INVARIANT ClosedIsComplete
INVARIANT Uniform
INVARIANT NeverThrows
INVARIANT CubeLayout
INVARIANT CircularKeepsLatest
PROPERTY DestructorReturns
