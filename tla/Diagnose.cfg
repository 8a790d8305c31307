CONSTANTS
    g1 = g1
    g2 = g2
    u1 = u1
    c1 = c1
    Gen2 = {g1}
    Check = {c1}
    Proc = {g1, c1}
    Admin = {g1, c1}
    Mortal = {g1}
    LongLived = {}
SPECIFICATION FairSpec
INVARIANTS
    QuietMeansUnloaded
PROPERTIES
    AppKeepsItsDriver
    StoppingEnds
