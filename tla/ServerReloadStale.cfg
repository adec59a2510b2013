SPECIFICATION Spec
CONSTANTS
    c1 = c1  c2 = c2
    good = good  other = other  missing = missing
    uncreating = uncreating  undying = undying
    Clients = {c1, c2}
    Libs = {good, uncreating}
    StartLib = good
    Loadable = {good, uncreating}
    Creating = {good}
    Destroying = {good, uncreating}
    NoLib = NoLib
    NoFd = NoFd
    OneAtATime = TRUE
    MaxConnections = 2
    MaxCommands = 3
PROPERTIES
    ReallyReloaded
CHECK_DEADLOCK FALSE
