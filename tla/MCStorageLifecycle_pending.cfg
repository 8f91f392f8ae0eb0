CONSTANTS
  g1 = g1  g2 = g2  i1 = i1  i2 = i2
  None = None
  Variants = {"preview"}
  Tasks = {t1, t2}
CHECK_DEADLOCK FALSE
SPECIFICATION Spec
CONSTANTS
  Galleries = {g1}
  Images = {i1}
  GalleryOf <- OneGallery
  MaxObjects = 2
INVARIANT
  PendingHasNoPreviews
