SPECIFICATION Spec
CONSTANTS
  Schemes <- MCSchemes
  MaxX = 2
  Triggers = {0, 1}
  Factors = {3}
  Proximities = {1, 2}
  Penalties = {1}
INVARIANTS NothingStaleInUse GhostLayerCoversMotion FormulationCurrent JacobianReady PenaltyDataInPlace GapOfCurrentCoordinates
PROPERTIES MissesForCause UpdateStopsForCause
CHECK_DEADLOCK FALSE
