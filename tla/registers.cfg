\* Two handlers in flight at one desk, three rows, over either store.
SPECIFICATION Spec
CHECK_DEADLOCK FALSE
CONSTANTS
  Calls = {c1, c2}
  Ids = {r1, r2, r3}
  Keys = {k1, k2}
  Dates = {d1, d2}
  Desks <- MCDesks
  Stores <- MCBothStores
  None = None
SYMMETRY MCSymmetry
INVARIANTS NumberedOnce VersionsFollow SecondRowFollows
PROPERTIES HistoryStands
