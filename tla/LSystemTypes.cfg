SPECIFICATION Spec
CONSTANTS
    s1 = s1  s2 = s2
    Systems = {s1, s2}
    Genes = {"a", "b"}
    Inputs <- MCInputs
    Seeds <- MCSeeds
    Productions <- MCProductions
    Sizes <- MCSizes
    CrossMaps <- MCCrossMaps
    UintMax = 7
    MaxCalls = 2
INVARIANTS
    MutationTypesKnown
CHECK_DEADLOCK FALSE
