SPECIFICATION Spec
CONSTANTS
    EarlierTokens = 2
    Usages = {1, 2}
    Signatures = {"x", "y"}
    Threshold = 2
    PipeCapacity = 2
    MaxTurns = 2
    MaxPrompts = 2
    MaxToolCalls = 5
INVARIANTS
    TypeOK
    NothingCountedTwice
    AbortedRunIsFullyCounted
    SteersEachThreshold
PROPERTIES
    ImplementsLedger
