SPECIFICATION Spec
CONSTANTS
  UseUmpire = FALSE
  UseOpenMP = FALSE
  UseCuda = FALSE
  UseEnzyme = FALSE
  MeshIds = {"a", "b"}
  SchemeIds = {"cs"}
  AnyMesh = "any"
  MeshInputs <- LifecycleMeshes
  SchemeInputs <- LifecycleSchemes
  Uninitialised <- Zeroes
  Args <- LifecycleCalls
  MovingMeshes = {"b"}
  Positions = {0, 1}
  Reach = 0
  MaxDt = 1
INVARIANTS CheckedPairsInRange
