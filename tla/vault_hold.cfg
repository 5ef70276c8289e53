\* Two handlers over the in-memory store, one document, day after day: a hold may be
\* placed while a deletion awaits the object store.
SPECIFICATION Spec
CONSTANTS
  Calls = {c1, c2}
  Documents = {d1}
  MaxDay = 1
  Keep = 1
  GivenDates = {0}
  EndDates = {}
  Stores <- MCMemoryStore
  None = None
PROPERTIES HoldBarsDeletion
CHECK_DEADLOCK FALSE
