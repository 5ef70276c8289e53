\* Two handlers in flight on one employment, over either store.
SPECIFICATION Spec
CONSTANTS
  Calls = {c1, c2}
  Employments = {e1}
  Contracts = {k1}
  Amendments = {m1}
  Assignments = {a1, a2, a3}
  MaxDay = 1
  MaxRows = 3
  Stores <- MCBothStores
  None = None
INVARIANTS AnnouncedIsTrue EndIsPast
PROPERTIES ContractAdvances HistoryKept
SYMMETRY MCSymmetry
CONSTRAINT MCOneTopic
