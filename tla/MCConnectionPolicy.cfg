SPECIFICATION FairSpec
CONSTANTS
    Attempts = {a1, a2, a3}
    FailureThreshold = 3
    SuccessThreshold = 2
    CoolDown = 2
    MaxU32 = 3
    Durations = {0, 1, 5}
    Factors <- SomeFactors
INVARIANTS BreakerCounts DelaysGrow
PROPERTIES ChangesForCause OpenEnds
