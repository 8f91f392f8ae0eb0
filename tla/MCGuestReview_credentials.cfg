CONSTANTS
  None = None
  Requests = {r1, r2}
  Visits = {v1, v2}
  Events = {e1}
  Passwords = {p1}
  MaxEpoch = 2
  VisitLimit = 1
  EventLimit = 1
CHECK_DEADLOCK FALSE
SPECIFICATION Spec
SYMMETRY Symmetry
INVARIANT
  GrantStillGood
PROPERTIES
  CredentialsStampEpoch
  ImplementsAtomicReview
