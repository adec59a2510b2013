\* Neither of these holds: keep one at a time.
SPECIFICATION Spec
CONSTANTS
    Genes <- MCGenes
    Kind <- MCKind
    MaxPoints = 4
    Bad = Bad
    Objects <- MCObjects
    Files <- MCFiles
    Positions <- MCPositions
    Rates = {0}
    MeshSize = 1
    SystemMutated <- MCMutated
    SystemGrown <- MCGrown
    MaxMutations = 1
    MaxMoves = 1
    MaxFrames = 3
    MaxCalls = 3
PROPERTIES
    StartsWherePut
    CreateRestoresPhysics
CHECK_DEADLOCK FALSE
