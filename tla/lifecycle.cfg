SPECIFICATION AnySpec
CONSTANTS
  UseUmpire = TRUE
  UseOpenMP = TRUE
  UseCuda = TRUE
  UseEnzyme = FALSE
  MeshIds = {"a", "b"}
  SchemeIds = {"cs1"}
  AnyMesh = "any"
  MeshInputs <- LifecycleMeshes
  SchemeInputs <- LifecycleSchemes
  Uninitialised <- Zeroes
  Args <- LifecycleCalls
  MovingMeshes = {"b"}
  Positions = {0, 1}
  Reach = 0
  MaxDt = 1
INVARIANTS PlanesBackedByPairs FixedBinningJustified RefreshedPairsInRange AppliedOnMatchingMeshes MinusOneHasCause StepNeedsVelocities
PROPERTIES FixedPairsFrozen VotesOnlyShrink
