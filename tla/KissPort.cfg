CONSTANTS
    TxQueueSize = 2
    MaxFrames = 3
    MaxControls = 1
    ExitWrites = TRUE
SPECIFICATION FairSpec
INVARIANTS OneOnTheWire TeardownOnce
PROPERTIES TeardownCompletes QueueDrains CloseReturnsUnlessExitHangs
CHECK_DEADLOCK FALSE
