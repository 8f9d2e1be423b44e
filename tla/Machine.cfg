SPECIFICATION MCSpec
CONSTANTS
    PageSize = 16
    Header = 2
    FirstSize = 2
    Slack = 3
    MinFiller = 1
    RequestSizes = {4, 7, 8, 19}
    MayFillPage = FALSE
    MaxPages = 4
    Proc = {p1, p2}
    NumFrames = 12
    NamedPages = {3, 10}
    TablePages = 4
    NumTables = 3
    MaxThreads = 2
    MaxDeaths = 2
    NoFrame = NoFrame
    GpuFrame = GpuFrame
    StalePages = {0}
    SinkProc = {w1, w2}
    Sink = {k1, k2}
    Sizes = {0, 1, 2, 3}
    Grants = {{w1}}
    MaxSize = 2
    MaxFragments = 1
    MaxBytes = 3
    PageBytes = 3
    CopyPages = 3
    CopySizes = {1, 3, 4, 5, 7}
    NoTable = NoTable
    TrapThread = {1, 2, 3}
    SpaceOf <- ThreadsOfTwo
    SlotOf <- SlotsOfTwo
    Contexts = {0, 1}
    DeviceLines = {1, 8, 12}
    NoThread = 0
    Keys <- SomeKeys
    MaxScanCodes = 3
    Moves <- EdgeMoves
    Lines = {0, 1, 2, 8, 12}
    FirmwareMasks = {{}, {8, 12}, {0, 1}}
    SleepCodes <- SomeSleepCodes
    FirmwareBits = {{0}, {1, 11}}
    MaxSleeps = 2
INVARIANTS
    TypesOK
    BlocksAreDisjoint
    ClientsHoldTheirBlocks
    FramesHaveOneUser
    OnlyStacksLeak
    FragmentsOwnTheirBuffers
    WritesUseCheckedPages
    CopiesAreExact
    RegistersComeBack
    DirectoryFitsThread
    MasterIsAcknowledged
    InputIsReported
    StartsInOrder
    SleepIsPrepared
PROPERTIES
    MappingsAreKept
    StreamReadsAreNext
VIEW MCView
SYMMETRY Symmetries
CHECK_DEADLOCK FALSE
