\* Two employments with two assignments each, or two rows, over three days.
SPECIFICATION ViewsSpec
CHECK_DEADLOCK FALSE
CONSTANTS
  Staff = {e1, e2}
  Ids = {r1, r2}
  MaxDay = 2
  MaxMoves = 2
  MonthStarts = {0, 2}
  Hours = {725, 800}
  Monthly = 1000
  SoonDays = 1
  Topics <- MCTopics
  Nil = Nil
SYMMETRY MCSymmetry
INVARIANTS ChartComplete AlertsAgree PaidOnce
PROPERTIES UrgencyGrows
