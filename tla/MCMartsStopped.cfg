SPECIFICATION MartsSpec
CONSTANTS
  load = load
  mart = mart
  Specs = {load, mart}
  StoreSpecs = {load}
  Modes = {"increment"}
  Feeders <- MCFeeders
  Clients = {c1}
  NoRow = NoRow
  MaxBuild = 3
  MaxFlow = 2
  MaxCommand = 0
  MaxCrash = 0
  Plans <- NoStores
INVARIANTS
  StoppedFlowArrives
CHECK_DEADLOCK FALSE
