\* Three files of which two fit at most, one size that is never cached.
CONSTANTS
  Worker = {w1, w2}
  Path = {p1, p2, p3}
  Changing = {p1}
  FileSize = {1, 2, 3}
  MaxCacheableFileSize = 3
  MaxCapacity = 3
  MaxTime = 1
  Gone = Gone
  NoPath = NoPath
SYMMETRY Symmetry
SPECIFICATION Spec
INVARIANTS
  TypeOK
  Accounted
  NeverStale
PROPERTIES
  EvictsOldestWhenFull
