SPECIFICATION MCSpec
CONSTANTS
    Value = {a, b}
    NoValue = NoValue
    InitialSize = 2
    StaleFlags <- AnyFlag
    MaxCapacity = 4
    Key = {1, 2, 3, 5, 6, 10}
    MapValue = {x, y}
    NoMapValue = NoMapValue
    MapCapacity = 5
    MaxMapCapacity = 9
    FlexValue = {u, v}
    NoFlexValue = NoFlexValue
    FlexCapacity = 2
    MaxFlexCapacity = 6
    StaleEmpty <- AnyFlag
    Word = 256
    Nibbles = 2
    TextSize = 5
    LongNumbers = {256, 999, 9999, 10000, 65535}
    Parts = 4
    Char = {1, 2, 3}
    Delim = 2
    MaxString = 4
    FnvPrime = 19
    FnvBasis = 101
    HashWord = 256
    XorOf <- XorBits
    User = {t1, t2}
    NoUser = NoUser
    MaxCounter = 2
    Promise = {a1, a2}
    ArgValues = {0, 1, 2}
    MaxName = 2
    MaxText = 1
    HeapPage = 40
    MetaSize = 3
    HeadSize = 8
    UserSlack = 3
    UserFiller = 2
    MallocSizes = {0, 2, 5, 6, 8, 14, 20, 30}
    Pointer = {p1, p2, p3}
    NoBlock = NoBlock
    ScreenWidth = 7
    FontSize = 5
    GlyphWidth <- GlyphWidths
    GlyphHeight = 14
    Chars = {1, 3, 4, 6, 10}
    NewLine = 10
    MaxRows = 2
    ShapeSizes = {0, 1, 2, 4}
    Scales = {1, 2}
INVARIANTS
    TypesOK
    WellLinked
    ProbesAreDistances
    TextsAndNumbersAgree
    TextsAreKept
    QueueIsBoundedByWaiters
    PromisesAreKept
    CallsArriveWhole
    HeldBlocksLieApart
    DrawsInPlace
PROPERTIES
    ImplementsList
    ImplementsDict
    GapsCloseInOrder
    AwaitEnds
CHECK_DEADLOCK FALSE
