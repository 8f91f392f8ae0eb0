CONSTANTS
  None = None
  Requests = {r1, r2}
  Visits = {v1, v2}
  Events = {}
  Passwords = {}
  MaxEpoch = 1
  VisitLimit = 1
  EventLimit = 0
CHECK_DEADLOCK FALSE
SPECIFICATION FairSpec
PROPERTY
  RequestsDrain
