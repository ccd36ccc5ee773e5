SPECIFICATION Spec
CONSTANTS
  Columns = {1, 2}
  Subject = 1
  Flag = 2
  Names = {"first", "second", "third"}
  Numbers = {0, 1, 2}
  ChangingKinds = {"number"}
  MaxRenames = 2
INVARIANTS FiltersMeanWhatTheySay OfferedFiltersWork FilterFollowsItsColumn
CHECK_DEADLOCK FALSE
