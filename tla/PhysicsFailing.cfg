\* None of these holds: keep one at a time.
SPECIFICATION Spec
CONSTANTS
    ball = ball  box = box
    Items = {ball, box}
    JointTypes = {"ball", "motor"}
    MaxHandles = 4
    MaxSteps = 2
INVARIANTS
    NoStepAfterDestroy
    StaticItemsReachable
    NoNullJoint
    RemovedItemsAreGone
    PositionOfOneMoment
CHECK_DEADLOCK FALSE
