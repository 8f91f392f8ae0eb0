CONSTANTS
  g1 = g1  g2 = g2  i1 = i1  i2 = i2
  None = None
  Variants = {"preview"}
  Tasks = {t1, t2, t3}
CHECK_DEADLOCK FALSE
SPECIFICATION Spec
CONSTANTS
  Galleries = {g1}
  Images = {i1, i2}
  GalleryOf <- OneGallery
  MaxObjects = 3
SYMMETRY TaskSymmetry
INVARIANTS
  TypeOK
  LeftoverHasIntent
PROPERTIES
  CompensationSparesCommitted
  ReadyIsFinal
