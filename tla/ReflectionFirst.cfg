SPECIFICATION HistorySpec
CONSTANTS
  Databases = {d1}
  Schemas = {s1, s2}
  Oids = {o1, o2}
  Names = {id, name, link}
  Id = id
  Types = {text, number}
  None = None
  MaxAttnum = 3
  MaxConstraint = 2
  MaxStatements = 1
  MaxRequests = 2
INVARIANT AtLeastOneReflection
CHECK_DEADLOCK FALSE
