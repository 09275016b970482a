SPECIFICATION MCSpec
CONSTANTS
    t1 = t1
    t2 = t2
    d1 = d1
    d2 = d2
    p1 = p1
    p2 = p2
    Tasks = {t1, t2}
    Dirs = {d1, d2, "earlier"}
    DirOf <- MCDirOf
    Processes = {p1, p2}
    Placements <- TwoProcesses
    Chunks = {"a"}
    TextChunks = {"a"}
    Workloads <- SharedSession
    HasTimeout = TRUE
    SupportsFork = TRUE
    BaseForkEnabled = TRUE
    MaxCrashes = 1
    MaxLosses = 0
INVARIANTS
    ChunkInContextOnce
    RecordedSessionsAreWhole
PROPERTIES
    ImplementsCalls
VIEW
    WorkLeftOut
SYMMETRY
    ChangePlaces
