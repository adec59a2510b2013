SPECIFICATION FairSpec
CONSTANTS
    c1 = c1  c2 = c2
    good = good  other = other  missing = missing
    uncreating = uncreating  undying = undying
    Clients = {c1, c2}
    Libs <- AllLibs
    StartLib = good
    Loadable = {good, other, uncreating, undying}
    Creating = {good, other, undying}
    Destroying = {good, other, uncreating}
    NoLib = NoLib
    NoFd = NoFd
    OneAtATime = TRUE
    MaxConnections = 2
    MaxCommands = 3
INVARIANTS
    ReloadLeavesHandler
    OwnDescriptor
    UndisturbedCalls
PROPERTIES
    ThreadsGoAway
CHECK_DEADLOCK FALSE
