CONSTANTS
    RowIds = {n1}
    Values = {blank, v}
    Blank = blank
    Required = FALSE
    PageSize = 1
    LastPage = 1
    InitialRows = 2
    Outcomes = {"answered", "rejected", "lost"}
    MaxFetches = 3
    MaxCreates = 1
    MaxPatches = 0
    MaxDeletes = 1
SPECIFICATION Spec
INVARIANTS
    TypeOK
    LoadingIsAwaited
    ProcessingIsAwaited
    ReportedRowsStayGone
    NothingBringsBack
PROPERTIES
    ImplementsLatestWins
CHECK_DEADLOCK FALSE
