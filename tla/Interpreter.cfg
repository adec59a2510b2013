SPECIFICATION FairSpec
CONSTANTS
    t1 = t1  t2 = t2
    a = a  b = b  c = c  none = none
    Threads <- Clients
    Ids <- Names4
    NoThread = NoThread
    Absent = Absent
    Boot = Boot
    Known = {a, b}
    LostInsert = FALSE
    Ops = {"create", "load", "getSystem", "makeCopy", "setAttribute", "getAttribute", "unknown"}
    Names <- MixedNames
    Departing = {t1}
    NoName = none
    MaxCommands = 1
INVARIANTS
    InterpretersStable
    NoLockWhileTalking
PROPERTIES
    ImplementsRegistry
    EveryCommandReturns
CHECK_DEADLOCK FALSE
