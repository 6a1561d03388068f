SPECIFICATION CatalogSpec
CONSTANTS
  None = None
  k = k
  v = v
  x = x
  y = y
  Schemas = {x, y}
  Datasets <- OneDataset
  SchemaOf <- InX
  Specs <- TwoSpecs
  Shapes <- AllShapes
  ModeLists <- Layers
  Connections = {w}
  Classes = {pg}
  Presets = {}
  Bodies = {}
  Comments = {TRUE, FALSE}
  MaxBuild = 1
INVARIANTS
  CatalogTypeOK
  PhysicsFollow
  ActiveRunsCurrent
CHECK_DEADLOCK FALSE
