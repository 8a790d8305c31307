CONSTANTS
    Tools <- MCTools
    Versions <- MCVersions
    Guids <- MCGuids
    g1 = g1
    g2 = g2
    v1 = v1
    v2 = v2
    OneAtATime = TRUE
    Troubles = 0
    Kills = 0
    Repairs = 0
SYMMETRY DeploySymmetry
SPECIFICATION Spec
INVARIANTS
    UninstallRemovesUnlock
