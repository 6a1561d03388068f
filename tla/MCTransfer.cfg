SPECIFICATION TransferSpec
CONSTANTS
  k1 = k1
  k2 = k2
  k3 = k3
  x = x
  y = y
  Deleted = Deleted
  Keys = {k1, k2, k3}
  Sections = {1, 2}
  SectionOf <- MCSectionOf
  Chunks = {1, 2}
  ChunkOf <- MCChunkOf
  Values = {x, y}
  Kinds = {"store", "mart"}
  MaxBuild = 3
  MaxRows = 2
  Indexes = {ix}
  MayCrash = TRUE
  SectDuplicates = FALSE
SYMMETRY TransferSymmetry
INVARIANTS
  TransferTypeOK
  VersionsDisjoint
  SliceMeansSource
PROPERTIES
  PastIsStable
CHECK_DEADLOCK FALSE
