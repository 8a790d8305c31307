CONSTANTS
    c1 = c1
    c2 = c2
    t1 = t1
    Client = {c1, c2}
    Tool = {t1}
    Tries = 4
    Wrap = 6
    MaxCalls = 2
SPECIFICATION FairSpec
INVARIANTS
    CountIsHandles
    QuietMeansGone
PROPERTIES
    LoneClientCleansUp
    LastMeansLast
    InitializeReturns
