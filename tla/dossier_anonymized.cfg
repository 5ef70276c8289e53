\* One handler over the database store.
SPECIFICATION Spec
CONSTANTS
  Calls = {c1}
  Rows = {r1}
  Requests = {}
  Stores <- MCDatabaseStore
  None = None
INVARIANTS IdentityIsRemoved
