SPECIFICATION Spec
CONSTANTS
    Vars = {"m"}
    Matrices = {"m"}
    Rows = 2
    Cols = 2
    Structs = {}
    Chunks = 2
    ChunkSize = 2
    Modes <- NoModes
    MaxSamples = 3
    MaxSaves = 0
INVARIANT NothingRefused
