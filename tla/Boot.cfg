CONSTANTS
    Want = 8
    Stock = 1
    LoSpan = 4
    AddrLimit = 128
    MaxAttempts = 4
    Bar3Sizes = {1, 2, 16}
    StockWindows <- MCStockWindows
    MemoryMaps <- MCMemoryMaps
    OtherWindows <- MCOtherWindows
    Esp = Esp
    Stick = Stick
    Volumes <- MCVolumes
    Own = Esp
    Buffers = 2
    Polls = 2
    Blocks = 2
    Deadline = 2
    AutoChainload = TRUE
SPECIFICATION MCSpec
INVARIANTS
    WindowIsFree
    RevertedButForBar1
    ReadyToLoad
    HandoverClean
    WindowsUnlessNone
PROPERTIES
    SuccessIsFresh
    BootEnds
CHECK_DEADLOCK FALSE
