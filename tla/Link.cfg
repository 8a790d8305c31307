CONSTANTS
    Manual <- MCManual
    RetryCount = 2
    Rounds = 2
    SecondDisable = 1
    Starts = 2
    Mishaps = 1
SPECIFICATION Spec
INVARIANTS
    LinkIsBack
    GpuIsBack
PROPERTIES
    RetriesEnd
CHECK_DEADLOCK FALSE
