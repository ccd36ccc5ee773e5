CONSTANTS
    A = A
    B = B
    u1 = u1
    Names <- BothNames
    Users = {u1}
    MaxId = 4
    InitialDb <- BothRoles
    FirstFree = 3
    Outcomes = {"answered", "rejected", "lost"}
    MaxLoads = 4
    MaxWrites = 3
    Patient = TRUE
SPECIFICATION Spec
INVARIANTS
    ListsAgreeWithServer
    PageIsFed
CHECK_DEADLOCK FALSE
