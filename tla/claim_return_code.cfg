SPECIFICATION Spec
CONSTANTS
  UseUmpire = FALSE
  UseOpenMP = FALSE
  UseCuda = FALSE
  UseEnzyme = TRUE
  MeshIds = {"a", "b"}
  SchemeIds = {"cs1", "cs2"}
  AnyMesh = "any"
  MeshInputs <- MortarMeshes
  SchemeInputs <- EnzymeSchemes
  Uninitialised <- LinkedList
  Args <- EnzymeCalls
  MovingMeshes = {}
  Positions = {0}
  Reach = 1
  MaxDt = 1
INVARIANTS ReturnCodeReportsFailure
