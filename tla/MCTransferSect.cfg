SPECIFICATION TransferSpec
CONSTANTS
  k1 = k1
  k2 = k2
  k3 = k3
  x = x
  y = y
  Deleted = Deleted
  Keys = {k1, k2, k3}
  Sections = {1, 2}
  SectionOf <- MCSectionOf
  Chunks = {1, 2}
  ChunkOf <- MCChunkOf
  Values = {x, y}
  Kinds = {"store"}
  MaxBuild = 3
  MaxRows = 2
  Indexes = {ix}
  MayCrash = TRUE
  SectDuplicates = TRUE
SYMMETRY TransferSymmetry
INVARIANTS
  VersionsDisjoint
CHECK_DEADLOCK FALSE
