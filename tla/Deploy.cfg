CONSTANTS
    Tools <- MCTools
    Versions <- MCVersions
    Guids <- MCGuids
    g1 = g1
    g2 = g2
    v1 = v1
    v2 = v2
    OneAtATime = TRUE
    Troubles = 2
    Kills = 1
    Repairs = 1
SYMMETRY DeploySymmetry
SPECIFICATION Spec
INVARIANTS
    UninstallRestores
    VerifiedMeansUnlock
    FailureLeavesNoHalves
    GspCoversUnlock
PROPERTIES
    SwapSpec
