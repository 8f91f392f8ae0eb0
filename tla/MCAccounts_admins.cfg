CONSTANTS
  None = None
  Requests = {r1, r2}
  Emails = {a, b}
  MaxSignups = 1
  Limits = {1}
  MaxOwned = 0
  Handlers = {"setup", "signup", "verify", "approve", "status", "delete"}
CHECK_DEADLOCK FALSE
SPECIFICATION Spec
SYMMETRY Symmetry
PROPERTY
  AdminRemains
