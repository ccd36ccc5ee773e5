CONSTANTS
    RowIds = {n1, n2}
    Values = {blank, v}
    Blank = blank
    Required = TRUE
    PageSize = 2
    LastPage = 0
    InitialRows = 1
    Outcomes = {"answered", "rejected"}
    MaxFetches = 2
    MaxCreates = 2
    MaxPatches = 2
    MaxDeletes = 0
SPECIFICATION Spec
SYMMETRY RowIdSymmetry
INVARIANTS
    StatusIsOfNewestRequest
CHECK_DEADLOCK FALSE
