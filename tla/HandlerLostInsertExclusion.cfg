SPECIFICATION Spec
CONSTANTS
    t1 = t1  t2 = t2
    a = a  b = b  c = c  none = none
    Threads <- Clients
    Ids <- Names4
    NoThread = NoThread
    Absent = Absent
    Boot = Boot
    Known = {a, b}
    LostInsert = TRUE
    Ops = {"run"}
    Names <- NoNames
    CrossPairs <- NoPairs
    Departing = {}
    NoName = none
    MaxIterations = 1
    MaxCommands = 1
INVARIANTS
    ElementExclusion
CHECK_DEADLOCK FALSE
