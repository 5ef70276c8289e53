\* Two handlers in flight on one dossier, over either store.
SPECIFICATION Spec
CONSTANTS
  Calls = {c1, c2}
  Rows = {r1, r2, r3}
  Requests = {q1}
  Stores <- MCBothStores
  None = None
SYMMETRY MCSymmetry
INVARIANTS OneCurrentPerHandler RequestsSettled PurgedIsErased
PROPERTIES BankAdvances
