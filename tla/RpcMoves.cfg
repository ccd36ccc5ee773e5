SPECIFICATION MCSpec
CONSTANTS
  Users = {u1, u2}
  Superusers = {u1, u2}
  Hosts = {"internal", "other"}
  InternalHost = "internal"
  Names = {"mathesar", "data"}
  InternalName = "mathesar"
  Roles = {"r"}
  InternalRole = "r"
  Passwords = {"p", "q"}
  InitialPassword <- MCInitialPassword
  InternalPassword = "q"
  Samples <- MCSamples
  MaxIds = 3
  DataNames = {1, 2, 3}
  Values = {1, 2}
  ExplorationNames = {"e", "f"}
  Budgets <- MCBudgets
  InitialTables <- MCInitialTables
  InitialViews <- MCInitialViews
  MAX_LEVEL = 2
  MaxTables = 3
  MaxRows = 6
  MaxColumns = 4
PROPERTY MovesMatchNulls
SYMMETRY MCSymmetry
CHECK_DEADLOCK FALSE
