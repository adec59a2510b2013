SPECIFICATION Spec
CONSTANTS
    Space = " "
    Numbers <- MCNumbers
    Value <- MCValue
    Bad = Bad
    Keys <- MCKeys
    Million = 1000000
    Exponent <- MCExponent
    UintSize = 16
    Systems <- MCSystems
    AllWords <- MCAllWords
    Strangers <- MCStrangers
    Stored <- MCStored
    Newline = "newline"
    Maps <- MCMaps
    MapKeys <- MCMapKeys
    Settings <- MCSettings
    Values <- MCValues
    Saves <- MCSaves
    Lists <- MCLists
    Pointed <- MCPointed
    MaxCalls = 2
    MaxPoints = 100
INVARIANTS
    ArrivesAsSent
    SameShape
    SortedByDepth
    StopsAtCollisions
    ParentsPlaced
PROPERTIES
    LoadedAsSaved
CHECK_DEADLOCK FALSE
