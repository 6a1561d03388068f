SPECIFICATION TransferSpec
CONSTANTS
  k1 = k1
  k2 = k2
  k3 = k3
  x = x
  y = y
  Deleted = Deleted
  Keys = {k1, k2, k3}
  Sections = {1, 2}
  SectionOf <- MCSectionOf
  Chunks = {1, 2}
  ChunkOf <- MCChunkOf
  Values = {x, y}
  Kinds = {"store", "mart"}
  Indexes = {ix, iy}
  MaxBuild = 2
  MaxRows = 1
  MayCrash = FALSE
  SectDuplicates = FALSE
INVARIANTS
  IndexesKept
CHECK_DEADLOCK FALSE
