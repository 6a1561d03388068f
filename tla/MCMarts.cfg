SPECIFICATION MartsSpec
CONSTANTS
  load = load
  mart = mart
  Specs = {load, mart}
  StoreSpecs = {load}
  Modes = {"increment"}
  Feeders <- MCFeeders
  Clients = {c1}
  NoRow = NoRow
  MaxBuild = 2
  MaxFlow = 2
  MaxCommand = 0
  MaxCrash = 1
  Plans <- NoMarts
INVARIANTS
  FlowsTypeOK
  WaveInOrder
  WaveOwnsStores
  WaveComplete
  MartsTypeOK
  MartReadsSettled
PROPERTIES
  LandsAboveMarts
CHECK_DEADLOCK FALSE
