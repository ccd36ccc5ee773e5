CONSTANTS
    RowIds = {n1}
    Values = {blank, v}
    Blank = blank
    Required = FALSE
    PageSize = 2
    LastPage = 0
    InitialRows = 1
    Outcomes = {"answered", "rejected"}
    MaxFetches = 2
    MaxCreates = 1
    MaxPatches = 1
    MaxDeletes = 1
SPECIFICATION FairSpec
PROPERTIES
    LoadingSettles
    ProcessingSettles
CHECK_DEADLOCK FALSE
