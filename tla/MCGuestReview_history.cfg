CONSTANTS
  None = None
  Requests = {r1, r2}
  Visits = {v1, v2, v3}
  Events = {e1, e2}
  Passwords = {}
  MaxEpoch = 1
  VisitLimit = 2
  EventLimit = 1
CHECK_DEADLOCK FALSE
SPECIFICATION Spec
SYMMETRY Symmetry
INVARIANTS
  VisitsWithinLimit
  BudgetKept
  NoCircleOfWaiters
PROPERTY
  HistoryKept
