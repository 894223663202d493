SPECIFICATION Spec
CONSTANTS
    l1 = l1
    Loggers <- OneLogger
    Main = main
    Flusher = flusher
    NumBlocks = 8
    ByteThreshold = 7
    EarlyLog = FALSE
    MaxBlocks = 10
INVARIANT ResetFlushes
