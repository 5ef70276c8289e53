\* Two handlers in flight on one account, over either store.
SPECIFICATION Spec
CONSTANTS
  Calls = {c1, c2}
  Accounts = {a1}
  Links = {l1, l2}
  Passwords = {p1, p2}
  a1 = a1
  Actors = {hr, officer, director}
  hr = hr
  officer = officer
  director = director
  EntityOf <- MCEntityOf
  Rank <- MCRank
  User <- MCUser
  Hour = 2
  Limit = 2
  MaxTime = 2
  MaxVersion = 1
  Stores <- MCBothStores
  None = None
SYMMETRY MCSymmetry
INVARIANTS LinksDieWithReset UnderTwiceTheLimit ReachFollowsOrganisation
PROPERTIES SessionsRevoked
