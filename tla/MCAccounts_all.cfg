CONSTANTS
  None = None
  Requests = {r1, r2}
  Emails = {a, b}
  MaxSignups = 1
  Limits = {1, 2}
  MaxOwned = 2
  Handlers = {"setup", "recover", "signup", "verify", "approve", "reject", "gallery", "limit", "status", "delete"}
CHECK_DEADLOCK FALSE
SPECIFICATION MCSpec
SYMMETRY Symmetry
PROPERTIES
  BootstrapsApart
  AccountsFromVerified
  SlotsWithinLimit
