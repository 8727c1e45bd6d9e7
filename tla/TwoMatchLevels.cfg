SPECIFICATION SerialSpec
CONSTANTS
    Jobs = {j1, j2, j3}
    Contracts = {c1}
    k1 = k1
    k2 = k2
    k3 = k3
    Compilations = {k1, k2, k3}
    Verifications <- LadderVerifications
    None = None
    MaxFailures = 0
    MaxLostReplies = 0
    MaxCrashes = 0
SYMMETRY AllSymmetry
INVARIANTS
    OneMatchLevel
