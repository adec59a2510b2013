SPECIFICATION Spec
CONSTANTS
    t1 = t1  t2 = t2
    a = a  b = b  c = c  none = none
    Threads <- Clients
    Ids <- Names4
    NoThread = NoThread
    Absent = Absent
    Boot = Boot
    Known = {a, b}
    LostInsert = FALSE
    Ops = {"create", "makeCopy"}
    Names <- SharedNames
    CrossPairs <- NoPairs
    Departing = {}
    NoName = none
    MaxIterations = 2
    MaxCommands = 1
PROPERTIES
    NeverOverwritten
CHECK_DEADLOCK FALSE
