SPECIFICATION Spec
CONSTANTS
  Schemes <- MCSchemes
  MaxX = 2
  Triggers = {0, 1}
  Factors = {3}
  Proximities = {1, 2}
  Penalties = {1}
INVARIANT ThicknessIsReported
CHECK_DEADLOCK FALSE
