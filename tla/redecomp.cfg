SPECIFICATION AnySpec
CONSTANTS
  N = 3
  Calls <- CallKinds
  Buffered = {"shape"}
  TreeSize = 5
  Roots <- RootsOfCalls
  Entities = {1, 2, 3, 4, 5, 6, 7, 8, 9, 10, 11, 12}
  Layouts <- ClusterLayouts
  PartCounts = {2, 3, 4}
  GhostLens = {0, 4}
  MaxOutOfBalance = 10
  NTryNewAxis = 3
  P = 3
  Conn <- MeshConn
  Assignments <- MeshAssignments
  VDim = 2
INVARIANTS RoundsMeet ContainersArrive PartsAreComplete MeshesMatchParent FieldsArrive MatricesArrive
PROPERTIES ImplementsAllToAll AllEnd
