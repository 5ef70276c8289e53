\* One hiring at a time over the database store.
SPECIFICATION Spec
CHECK_DEADLOCK FALSE
CONSTANTS
  one = one
  two = two
  company = company
  Calls = {c1}
  Employments = {e1, e2, e3}
  Obligations = {o1, o2, o3, o4}
  Codes = {one, two}
  Company = company
  Days = 1
  Aggregates <- MCAggregates
  Threshold <- MCThreshold
  Stores <- MCDatabaseStore
  None = None
INVARIANTS NumberIsFree
