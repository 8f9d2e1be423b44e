SPECIFICATION HeapSpec
CONSTANTS
    PageSize = 16
    Header = 2
    FirstSize = 2
    Slack = 3
    MinFiller = 1
    RequestSizes = {4, 7, 8, 19}
    MayFillPage = TRUE
    MaxPages = 4
INVARIANTS
    BlocksFitTheirPages
CHECK_DEADLOCK FALSE
