SPECIFICATION FairSpec
CONSTANTS
    BaseForkEnabled = TRUE
    Runs = {"r1", "r2"}
    Workspaces = {"w1", "w2"}
    TaskIdOf <- MCTaskIdOf
    Workloads <- AllWork
INVARIANTS
    TypeOK
    StreamedUnlessTailedEarly
    EndedByNoOlderIntent
    KilledForItsOwnSilence
    GatedOrRefused
    InputDelivered
PROPERTIES
    NoOrphanRun
