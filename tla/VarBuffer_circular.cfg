CONSTANTS
    NumBlocks = 4
    BlockSize = 3
    MaxSamples = 60
    Mode = "circular_buffer"
    ExplicitFlush = FALSE
    StaleLoads = FALSE
SPECIFICATION Spec
INVARIANTS
    LatestWindow
PROPERTIES
    ImplementsLossyBuffer
CHECK_DEADLOCK FALSE
