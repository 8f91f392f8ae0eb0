CONSTANTS
  None = None
  Requests = {r1, r2}
  Visits = {v1}
  Events = {}
  Passwords = {}
  MaxEpoch = 2
  VisitLimit = 1
  EventLimit = 0
CHECK_DEADLOCK FALSE
SPECIFICATION Spec
INVARIANT
  SharedHasLink
