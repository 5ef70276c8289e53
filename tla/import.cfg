\* Two handlers in flight, two files, four persons, over either store.
SPECIFICATION Spec
CHECK_DEADLOCK FALSE
CONSTANTS
  siret = siret
  Calls = {c1, c2}
  Persons = {p1, p2, p3, p4}
  Names <- MCNames
  Sirets <- MCSirets
  Fields <- MCFields
  Includes <- MCIncludes
  Template <- MCTemplate
  Files <- MCFiles
  Today = 2026
  Stores <- MCBothStores
  None = None
  Malformed = Malformed
  Buffers <- MCBuffers
SYMMETRY MCSymmetry
INVARIANTS OncePerHandler NoKnownDuplicate NobodyLeftInMemory FilesComeThrough
