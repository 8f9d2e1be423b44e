SPECIFICATION CopySpec
CONSTANTS
    PageBytes = 3
    CopyPages = 3
    CopySizes = {1, 3, 4, 5, 7}
    NoTable = NoTable
INVARIANTS
    LastBytesAreCopied
CHECK_DEADLOCK FALSE
