CONSTANTS
    g1 = g1
    u1 = u1
    g2 = g2
    c1 = c1
    Gen2 = {g1, g2}
    Check = {}
    Proc = {g1, g2}
    Admin = {g1, g2}
    Mortal = {}
    LongLived = {}
SPECIFICATION Spec
INVARIANTS
    ExclusiveSession
