SPECIFICATION CrossSpec
CONSTANTS
    Jobs = {j1, j2, j3}
    Contracts = {c1, c2}
    k1 = k1
    k2 = k2
    k3 = k3
    Compilations = {k1, k2}
    Verifications <- FewVerifications
    None = None
    LinkedContracts <- AnyOrOther
    MaxFailures = 1
    MaxLostReplies = 0
    MaxCrashes = 0
SYMMETRY CrossSymmetry
INVARIANTS
    CrossTypeOK
    MatchesAreRecorded
    DetailsBelongToErrors
PROPERTIES
    RejectedOnlyWhileRunning
    ImplementsLedger
