CONSTANTS
    NumBlocks = 4
    BlockSize = 2
    MaxSamples = 11
    Mode = "producer_consumer"
    ExplicitFlush = TRUE
    StaleLoads = TRUE
SPECIFICATION FairSpec
INVARIANTS
    TypeOK
    OneOwner
    NeverThrows
    NoEmptyBlockQueued
    InOrder
    ReportedSpace
PROPERTIES
    ProducerNeverBlocks
    ImplementsLossyBuffer
CHECK_DEADLOCK FALSE
