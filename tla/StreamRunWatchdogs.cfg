SPECIFICATION FairSpec
CONSTANTS
    Workloads <- LivenessWorkloads
    ToolRoundTripMaximum = 1
    TaskTokenLimit = 0
PROPERTIES
    EndHonouredOrBlank
    RunReturns
    LostKeepAliveKills
