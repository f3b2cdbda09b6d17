SPECIFICATION Spec
CONSTANTS
  UseUmpire = FALSE
  UseOpenMP = FALSE
  UseCuda = FALSE
  UseEnzyme = TRUE
  MeshIds = {"a", "b"}
  SchemeIds = {"cs"}
  AnyMesh = "any"
  MeshInputs <- MortarMeshes
  SchemeInputs <- EnzymeSchemes
  Uninitialised <- Zeroes
  Args <- EnzymeCalls
  MovingMeshes = {}
  Positions = {0}
  Reach = 1
  MaxDt = 1
INVARIANTS EnzymeHasReferenceCoords
