SPECIFICATION Spec
CONSTANTS
    Genes <- MCGenes
    Kind <- MCKind
    MaxPoints = 4
    Bad = Bad
    Objects <- MCObjects
    Files <- MCSlantingFiles
    Positions <- MCPositions
    Rates = {0}
    MeshSize = 1
    SystemMutated <- MCMutated
    SystemGrown <- MCGrown
    MaxMutations = 1
    MaxMoves = 1
    MaxFrames = 3
    MaxCalls = 3
INVARIANTS
    AxesAtRightAngles
CHECK_DEADLOCK FALSE
