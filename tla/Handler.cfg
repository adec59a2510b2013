SPECIFICATION FairSpec
CONSTANTS
    t1 = t1  t2 = t2
    a = a  b = b  c = c  none = none
    Threads <- Clients
    Ids <- Names4
    NoThread = NoThread
    Absent = Absent
    Boot = Boot
    Known = {a, b}
    LostInsert = FALSE
    Ops = {"create", "getSystem", "run", "load", "cross", "makeCopy", "unknown"}
    Names <- MixedNames
    CrossPairs <- OrderedPairs
    Departing = {t1}
    NoName = none
    MaxIterations = 2
    MaxCommands = 1
INVARIANTS
    TypeOK
    ElementExclusion
    ContainerStable
    NoNullSystem
    NoLockWhileTalking
PROPERTIES
    ReplacedOnlyInRace
    ImplementsRegistry
    EveryCommandReturns
CHECK_DEADLOCK FALSE
