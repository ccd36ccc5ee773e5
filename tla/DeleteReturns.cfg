CONSTANTS
    RowIds = {n1}
    Values = {blank, v}
    Blank = blank
    Required = FALSE
    PageSize = 2
    LastPage = 0
    InitialRows = 1
    Outcomes = {"answered", "rejected", "lost"}
    MaxFetches = 2
    MaxCreates = 0
    MaxPatches = 0
    MaxDeletes = 1
SPECIFICATION FairSpec
PROPERTIES
    DeleteSelectedReturns
CHECK_DEADLOCK FALSE
