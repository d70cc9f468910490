SPECIFICATION MCSpec
CONSTANTS
    Bits = 3
    Contacts <- All
    Self <- SelfKey
    Target <- TargetKey
    Foreign <- Far
    K = 3
    Alpha = 3
    MaxBranches = 5
    MaxJoins = 4
    MaxPings = 1
    MaxLookups = 1
    MaxDeeper = 2
INVARIANTS TableSound NotFoundMeansUnknown
PROPERTIES RemovesUnresponsive LookupCleansUp
CHECK_DEADLOCK FALSE
