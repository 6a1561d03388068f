SPECIFICATION BuildsSpec
CONSTANTS
  load = load
  trans = trans
  mart = mart
  da = da
  db = db
  dm = dm
  Specs = {load, trans, mart}
  Datasets = {da, db, dm}
  Stores = {da, db}
  Clients = {c1}
  NoRow = NoRow
  MaxBuild = 1
  MaxFlow = 0
  Parallel = 2
  MaxCrash = 0
  DatasetOf <- MCDatasetOf
  SourcesOf <- MCSourcesOf
  ModesOf <- MCModesOf
PROPERTIES
  FinalIsFinal
CHECK_DEADLOCK FALSE
