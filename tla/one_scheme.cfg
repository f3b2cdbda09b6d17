SPECIFICATION AnySpec
CONSTANTS
  UseUmpire = FALSE
  UseOpenMP = FALSE
  UseCuda = FALSE
  UseEnzyme = FALSE
  MeshIds = {"a", "b"}
  SchemeIds = {"cs"}
  AnyMesh = "any"
  MeshInputs <- PenaltyMeshes
  SchemeInputs <- PenaltySchemes
  Uninitialised <- Zeroes
  Args <- PenaltyCalls
  MovingMeshes = {}
  Positions = {0}
  Reach = 1
  MaxDt = 1
INVARIANTS TypeOK KernelDataRegistered AcceptedSchemesDispatch
PROPERTIES VerdictStable
