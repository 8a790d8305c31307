CONSTANTS
    g1 = g1
    g2 = g2
    u1 = u1
    c1 = c1
    Gen2 = {g1, u1}
    Check = {}
    Proc = {g1, u1}
    Admin = {g1}
    Mortal = {g1}
    LongLived = {g1, u1}
SPECIFICATION Spec
INVARIANTS
    DriversStayLoaded
PROPERTIES
    CleanupLeavesNothing
