SPECIFICATION MCFairSpec
CONSTANTS
    t1 = "t1"
    t2 = "t2"
    d1 = "d1"
    d2 = "d2"
    p1 = "p1"
    p2 = "p2"
    Tasks = {"t1", "t2"}
    Dirs = {"d1", "d2", "earlier"}
    DirOf <- MCDirOf
    Processes = {"p1", "p2"}
    Placements <- MCPlacements
    Chunks = {"a", "b", "image"}
    TextChunks = {"a", "b"}
    Workloads <- MCWorkloads
    HasTimeout = TRUE
    SupportsFork = TRUE
    BaseForkEnabled = TRUE
    MaxCrashes = 0
    MaxLosses = 1
INVARIANTS
    TypeOK
    ChunkInContextOnce
    WorkRedoneOnlyAfterFork
    BasePrimedOnlyWhenStale
    LocksAreInUse
    ResumePromptMeetsItsSession
PROPERTIES
    RecordsChangedByTheirTasks
    TasksEnd
    ImplementsCalls
