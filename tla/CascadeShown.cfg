CONSTANTS
    A = A
    B = B
    u1 = u1
    Names <- BothNames
    Users = {u1}
    MaxId = 3
    InitialDb <- BothRoles
    FirstFree = 3
    Outcomes = {"answered", "rejected", "lost"}
    MaxLoads = 3
    MaxWrites = 1
    Patient = FALSE
SPECIFICATION Spec
INVARIANT
    RemovedRolesHaveNoCollaborators
CHECK_DEADLOCK FALSE
