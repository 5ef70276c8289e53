\* Two handlers in flight on one document, over either store.
SPECIFICATION FairSpec
CONSTANTS
  Calls = {c1, c2}
  Documents = {d1}
  MaxDay = 1
  Keep = 1
  GivenDates = {0}
  EndDates = {}
  Stores <- MCBothStores
  None = None
INVARIANTS SignedOnRequest ContentIsKept
PROPERTIES DeletedIsExpired SignedIsFinal DepartureArchives
CONSTRAINT MCOverlap
CHECK_DEADLOCK FALSE
