SPECIFICATION FlowsFairSpec
CONSTANTS
  load = load
  trans = trans
  Specs = {load}
  StoreSpecs = {load}
  Modes = {"increment"}
  Feeders <- MCFeeders
  Clients = {c1}
  NoRow = NoRow
  MaxBuild = 1
  MaxFlow = 2
  MaxCommand = 1
  MaxCrash = 1
  Plans <- Short
INVARIANTS
  WaveInOrder
  WaveOwnsStores
PROPERTIES
  FlowSettles
  QueueMoves
CHECK_DEADLOCK FALSE
