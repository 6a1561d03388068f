SPECIFICATION CatalogSpec
CONSTANTS
  None = None
  k = k
  v = v
  x = x
  y = y
  Schemas = {x}
  Datasets <- ThreeDatasets
  SchemaOf <- InX
  Specs <- GraphSpecs
  Shapes <- OneShape
  ModeLists <- GraphModes
  Connections = {}
  Classes = {}
  Presets = {p}
  Bodies <- GraphBodies
  Comments = {}
  MaxBuild = 2
CONSTRAINT MCBound
INVARIANTS
  ActiveRunsCurrent
  LocksHold
  GraphSound
  PlanIsWave
CHECK_DEADLOCK FALSE
