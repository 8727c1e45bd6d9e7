SPECIFICATION CrossFairSpec
CONSTANTS
    Jobs = {j1, j2}
    Contracts = {c1}
    k1 = k1
    k2 = k2
    k3 = k3
    Compilations = {k1, k2}
    Verifications <- FewVerifications
    None = None
    LinkedContracts <- AnyOrOther
    MaxFailures = 1
    MaxLostReplies = 1
    MaxCrashes = 1
INVARIANTS
    SuccessIsBacked
    CrossOrphanOnlyByFault
PROPERTIES
    ShutdownCompletes
    TaskWritesOutcome
    CrossChainEnds
