SPECIFICATION FairSpec
CONSTANTS
    NumNodes = 3
    MaxBlock = 3
    MaxCreates = 3
    TraceSupport <- EachSupport
    Traces <- NestedTraces
    None = None
INVARIANTS
    SearchBracketsCreation
    SearchFinds
    CodeIsOurs
PROPERTIES
    LookupEnds
CHECK_DEADLOCK FALSE
