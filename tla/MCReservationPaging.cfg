\* Four reservations at two times; pages of one or two entries.
CONSTANTS
  i1 = i1
  i2 = i2
  None = None
  Ids = {1, 2, 3, 4}
  Instances = {i1, i2}
  MaxTime = 1
  PageSizes = {1, 2}
SPECIFICATION Spec
SYMMETRY MCSymmetry
INVARIANTS
  TypeOK
  EveryPageContinues
  NothingSkipped
  AnnouncedPageIsThere
