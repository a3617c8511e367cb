SPECIFICATION Spec
CONSTANTS
  m1 = m1
  m2 = m2
  b1 = b1
  k1 = k1
  k2 = k2
  e1 = e1
  r1 = r1
  u1 = u1
  u2 = u2
  d1 = d1
  d2 = d2
  x1 = x1
  x2 = x2
  NoMedia = NoMedia
  NoBlob = NoBlob
  NoHolder = NoHolder
  KindOf <- HolderKinds
  MediaIds = {m1, m2}
  Blobs = {b1}
  Holders = {k1, k2, e1, r1}
  Uploaders = {u1, u2}
  Deleters = {d1, d2}
  Cleaners = {x1, x2}
  MaxUploads = 3
  MaxFaults = 1
INVARIANTS TypeOK CleanupSparesReferences CountStaysPositive DeleteSparesReferences DocumentHasFile NoStrayFile
SYMMETRY Interchangeable
CONSTRAINT FewAtWork
CHECK_DEADLOCK FALSE
