\* Two handlers in flight and one request, over either store; over the database store any handler may
\* fail and what it did be repeated.  The absence is of one period or of two, and decided in either.
SPECIFICATION FairSpec
CONSTANTS
  Calls = {c1, c2}
  Requests = {r1}
  Employments = {e1}
  Types = {PAID, SICK}
  Decremented = {PAID}
  Periods = {0, 1}
  Days = {0, 1}
  Off = {}
  PeriodOf <- MCPeriodOf
  Corrections = {1}
  Entitlement <- MCOneDay
  Presence <- MCPresence
  RequiresHr = FALSE
  Stores <- MCBothStores
  MaxRows = 2
  MaxCorrections = 1
  None = None
INVARIANTS DeductionSound OverdraftBounded
PROPERTIES ApprovalFinal ApprovalAnnounced KeepsPromise
