SPECIFICATION MemSpec
CONSTANTS
    Proc = {p1, p2}
    NumFrames = 10
    NamedPages = {3, 10}
    TablePages = 4
    NumTables = 3
    MaxThreads = 1
    MaxDeaths = 1
    NoFrame = NoFrame
    GpuFrame = GpuFrame
    StalePages = {0, 1, 2, 3}
INVARIANTS
    KernelFramesStay
CHECK_DEADLOCK FALSE
