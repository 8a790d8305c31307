CONSTANTS
    t1 = t1
    t2 = t2
    c1 = c1
    c2 = c2
    Thread = {t1, t2}
    Cpu = {c1, c2}
    Home <- MCHome
    Slot <- MCSlot
    BusWidth = 2
    MaxCalls = 3
SPECIFICATION FairSpec
INVARIANTS
    RunsWhereAsked
    MasksComeBack
    EffectIffTrue
    FindIsIndexth
PROPERTIES
    CallsReturn
CHECK_DEADLOCK FALSE
