CONSTANTS
    A = A
    B = B
    u1 = u1
    Names <- OneName
    Users = {u1}
    MaxId = 2
    InitialDb <- OneRole
    FirstFree = 2
    Outcomes = {"answered", "lost"}
    MaxLoads = 3
    MaxWrites = 1
    Patient = FALSE
SPECIFICATION FairSpec
INVARIANTS
    TypeOK
    LoadingIsAwaited
PROPERTY
    LoadingSettles
CHECK_DEADLOCK FALSE
