SPECIFICATION AnySpec
CONSTANTS
  Candidates <- Six
  Accepted <- Four
  NoEntry = NoEntry
  LenTol = 1
  MaxIndex = 31
  Searches <- SomeSearches
  Faces1 <- Clockwise
  Faces2 <- Shifted
  Edges1 <- Rising
  Edges2 <- Falling
  Gaps <- SomeGaps
  MaxInterpen = 90
  ProximityScales = {1}
  Grain = 5
INVARIANTS SlotsAreExclusive PlaneFitsFaces FilterAgreesWithCheck EachPairOnce
PROPERTIES WrittenOnce Selects
CHECK_DEADLOCK FALSE
