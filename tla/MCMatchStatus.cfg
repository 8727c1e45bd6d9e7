SPECIFICATION ChainSpec
INVARIANTS
    ChainImproves
    GateAgreesWithStore
    SummariesAgree
CHECK_DEADLOCK FALSE
