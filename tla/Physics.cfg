SPECIFICATION FairSpec
CONSTANTS
    Items = {ball, box}
    ball = ball  box = box
    JointTypes = {"ball", "motor"}
    MaxHandles = 7
    MaxSteps = 1
INVARIANTS
    HandlesLive
    JointsReachable
PROPERTIES
    ImplementsScene
    CallsReturn
CHECK_DEADLOCK FALSE
