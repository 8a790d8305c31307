CONSTANTS
    g1 = g1
    g2 = g2
    u1 = u1
    c1 = c1
    Gen2 = {g1, g2}
    Check = {}
    Proc = {g1, g2}
    Admin = {g1, g2}
    Mortal = {}
    LongLived = {}
SPECIFICATION FairSpec
INVARIANTS
    DriversStayLoaded
    QuietMeansUnloaded
PROPERTIES
    CleanupLeavesNothing
    SessionEnds
