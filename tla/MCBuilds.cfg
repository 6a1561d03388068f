SPECIFICATION BuildsFairSpec
CONSTANTS
  load = load
  trans = trans
  mart = mart
  da = da
  db = db
  dm = dm
  Specs = {load, trans}
  Datasets = {da, db, dm}
  Stores = {da, db}
  Clients = {c1, c2}
  NoRow = NoRow
  MaxBuild = 2
  MaxFlow = 0
  Parallel = 1
  MaxCrash = 1
  DatasetOf <- MCDatasetOf
  SourcesOf <- MCSourcesOf
  ModesOf <- MCModesOf
INVARIANTS
  BuildsTypeOK
  BuildsInv
  Exclusion
  LiveBuildKeepsJournal
  NoGap
PROPERTIES
  LandsAheadOfReaders
  Settles
  StopEndsRun
  ImplementsLife
CHECK_DEADLOCK FALSE
