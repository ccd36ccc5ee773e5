CONSTANTS
    RowIds = {n1}
    Values = {blank, v}
    Blank = blank
    Required = FALSE
    PageSize = 2
    LastPage = 1
    InitialRows = 2
    Outcomes = {"answered", "rejected", "lost"}
    MaxFetches = 2
    MaxCreates = 1
    MaxPatches = 0
    MaxDeletes = 1
SPECIFICATION Spec
INVARIANTS
    NoDuplicateRowKeys
CHECK_DEADLOCK FALSE
