SPECIFICATION Spec
CONSTANTS
    c1 = c1  c2 = c2
    good = good  other = other  missing = missing
    uncreating = uncreating  undying = undying
    Clients = {c1, c2}
    Libs = {good}
    StartLib = good
    Loadable = {good}
    Creating = {good}
    Destroying = {good}
    NoLib = NoLib
    NoFd = NoFd
    OneAtATime = TRUE
    MaxConnections = 2
    MaxCommands = 2
INVARIANTS
    CallsIntoLiving
CHECK_DEADLOCK FALSE
