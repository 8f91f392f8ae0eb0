SPECIFICATION Spec
CONSTANTS
  Images = {i1}
  Backups = {b1, b2}
  Restores = {r1, r2}
  Legacy = legacy
  NoFile = none
  Original = original
  Failing = {"dump", "pack", "read", "stage", "database", "publish"}
  TicksPerSecond = 2
  Lifetime = 1
  MaxTick = 4
  Requests = {q1, q2}
  Fingerprints = {t1, t2}
  NoToken = none
  Callers = {p1}
  Logins = {l1, l2}
  NoLogin = none
  Signups = {s1, s2}
  Challenges = {c1, c2}
  NoChallenge = none
  ChallengeTtl = 2
  LedgerCapacity = 1
  PruneBatch = 1
  MaxTime = 3
  Writers = {w1, w2}
  Cleaners = {k1}
  Admin = admin
  Nobody = none
  GalleryIds = {"g1", "g2"}
  StorageKeys <- StoredKeys
  MaxSize = 2
  MaxBytes = 1
  MaxObjects = 1
  UploadLimit = 3
  OrdinaryLimit = 2
  SelectionLimit = 1
  MaxChunk = 2
  MaxBody = 5
  Pages = {v1, v2}
  Sessions = {z1, z2}
  NoSession = none
  MaxRandom = 2
  Authors = {a1, a2}
  NoAuthor = none
  MaxEvents = 3
  MaxStamp = 1
  LastImage = 3
  SortKeys = {1, 2}
  PageLimit = 1
  NoCursor = none
  Savers = {e1, e2, e3}
  Configs = {f1, f2}
  NoConfig = none
  Addresses = 2
  Paths <- ArchivePaths
  MaxMember = 3
  FileLimit = 2
  ExpandedLimit = 7
  HeaderLimit = 5
  ObjectLimit = 3
  ExtensionLimit = 1
  ExtensionChain = 1
  CopyChunk = 2
  Tabs = {x1, x2}
  Keys = {1, 2, 3}
  LookupWindow = 2
  MaxScans = 1
  MaxMishaps = 0
INVARIANTS
  PublishedIsRestorable
  ReportsTrue
  LoggedOutRefused
  CutOffRefusesOlder
  RedeemedOnce
  UsageIsSum
  DeletedLeavesNothing
  OneResponse
  SessionPageAccepted
  SteadyShownOnce
  DeliveredAtMostOnce
  DiskIsBoundedTree
  NoFalseMissing
PROPERTIES
  GrowthWithinQuota
  ImplementsReviewLog
CHECK_DEADLOCK FALSE
