SPECIFICATION FairSpec
CONSTANTS
    t1 = t1
    t2 = t2
    t3 = t3
    None = None
    Candidates <- ThreeCandidates
    Profiles <- AllProfiles
    Inputs <- AllInputs
    MaxFaults = 1
INVARIANTS
    ExportIsOfTarget
    CreationMatchHasTransaction
    AmbiguityIsReal
    SearchFindsTheMatch
PROPERTIES
    VerificationEnds
CHECK_DEADLOCK FALSE
