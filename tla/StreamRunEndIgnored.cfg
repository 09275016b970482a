SPECIFICATION FairSpec
CONSTANTS
    Workloads <- SilentWorkloads
    ToolRoundTripMaximum = 1
    TaskTokenLimit = 0
PROPERTIES
    EndStopsRun
