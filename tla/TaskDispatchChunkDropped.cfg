SPECIFICATION Spec
CONSTANTS
    t1 = "t1"
    t2 = "t2"
    d1 = "d1"
    d2 = "d2"
    p1 = "p1"
    p2 = "p2"
    Tasks = {"t1", "t2"}
    Dirs = {"d1", "d2", "earlier"}
    DirOf <- MCDirOf
    SupportsFork = TRUE
    Processes = {"p1"}
    Placements <- OnePlacement
    Chunks = {"a"}
    TextChunks = {"a"}
    Workloads <- ReuseDisabled
    HasTimeout = TRUE
    BaseForkEnabled = TRUE
    MaxCrashes = 0
    MaxLosses = 0
INVARIANTS
    DisabledReuseInlinesChunk
