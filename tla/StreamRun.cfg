SPECIFICATION Spec
CONSTANTS
    Workloads <- SafetyWorkloads
    ToolRoundTripMaximum = 1
    TaskTokenLimit = 2
INVARIANTS
    TypeOK
    OnlyTheLineInHandIsLost
    OperatorEndedByThisRunsIntent
    StopsAreWithheldBoundedly
    LimitStopsReading
    RequestsAnsweredInOrder
    WatchdogArmed
    OutcomeExplained
PROPERTIES
    PauseHoldsTheStream
    NothingAfterHalt
    DecisionMadeDuringHold
    ImplementsLifecycle
