\* None of these holds: keep one at a time.
SPECIFICATION Spec
CONSTANTS
    Space = " "
    Numbers <- MCNumbers
    Value <- MCValue
    Bad = Bad
    Keys <- MCKeys
    Million = 1000000
    Exponent <- MCExponent
    UintSize = 16
    Systems <- MCSystems
    AllWords <- MCAllWords
    Strangers <- MCStrangers
    Stored <- MCStored
    Newline = "newline"
    Maps <- MCGrowthRules
    MapKeys <- MCMapKeys
    Settings <- MCOddSettings
    Values <- MCValues
    Saves <- MCBadSettings
    Lists <- MCLists
    Pointed <- MCPointed
    MaxCalls = 2
    MaxPoints = 100
INVARIANTS
    EverySystemLoads
    EveryMapArrives
    PlacesArrive
    BranchesHaveParents
PROPERTIES
    EmptyLoadedAsSaved
CHECK_DEADLOCK FALSE
