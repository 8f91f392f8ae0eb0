SPECIFICATION Spec
CONSTANTS
  Tabs = {v1}
  Keys = {1, 2, 3}
  LookupWindow = 2
  MaxScans = 1
  MaxMishaps = 1
  Uploads = {u1}
  Previews = {p1, p2}
  Hashers = {h1, h2, h3}
  Workers = 1
  MaxHashes = 2
  LastVisit = 3
  BatchSize = 1
  MaxVisits = 2
INVARIANTS
  WorkWithinLimit
  HistoryKept
PROPERTIES
  StableLinkFound
  SlotsComeBack
  FullGalleryReopens
CHECK_DEADLOCK FALSE
