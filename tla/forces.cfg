SPECIFICATION AnySpec
CONSTANTS
  NumFaceVert = 4
  Faces1 <- MortarFaces
  Faces2 <- NonmortarFaces
  NumTotalNodes = 14
  Position <- ThePosition
  ElementNormals <- TheNormals
  Pressure <- ThePressure
  ResidualGap = 3
  Methods = {"single", "aligned", "weights", "enzyme"}
  EvalModes = {"residual", "residual_jacobian", "jacobian", "weights"}
  PairLists <- PairsFound
  MaxUpdates = 2
  Planes <- LeftAndRight
  Normal <- BothUp
  Schemes <- SomeSchemes
  Gaps <- SomeGaps
  Motions <- SomeMotions
  Thicknesses <- SomeThicknesses
  FaceRadius <- Ones
  GapTolRatio = 1
  BinningProximityScale = 2
  PenaltyScale = 1
  PenaltyStiffness <- Twelves
  MatMod <- TwentyFours
  RatePenalty <- ThreesAndFives
  RatePercent <- Twos
  ViscousCoeff <- Twos
  PenFrac = 3
  TimestepScale = 1
  HostDt = 5
  LargeDt = 1000000
INVARIANTS ForcesBalance GapsMatchWeights JacobianIsDerivative PenaltyNeverPulls DampingDissipates VoteLimitsGrowth
CHECK_DEADLOCK FALSE
