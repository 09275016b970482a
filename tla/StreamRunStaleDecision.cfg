SPECIFICATION Spec
CONSTANTS
    Workloads <- DecisionWorkloads
    ToolRoundTripMaximum = 1
    TaskTokenLimit = 0
INVARIANTS
    DecisionAnswersItsRequest
