SPECIFICATION Spec
CONSTANTS
    BaseForkEnabled = TRUE
    Runs = {"r1", "r2"}
    Workspaces = {"w1", "w2"}
    TaskIdOf <- MCTaskIdOf
    Workloads <- PostedAgain
INVARIANTS
    StreamedInFull
