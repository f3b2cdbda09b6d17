---------------------------- MODULE MortarForces ----------------------------
(***************************************************************************)
(* The mortar methods of one coupling scheme (physics/Mortar.cpp,          *)
(* physics/AlignedMortar.cpp, mesh/MethodCouplingData.cpp): an update      *)
(* adds the gaps of every pair to the nodes of the nonmortar mesh, makes   *)
(* room for the Jacobian, then adds the forces of every pair and stores    *)
(* its element matrices, assembled or by element.                          *)
(* The numbers are integers: shape functions come multiplied by Unity, and *)
(* the nodal normals are left at the length of their sum.                  *)
(***************************************************************************)
EXTENDS Vectors, Sequences, FiniteSetsExt

CONSTANTS
  NumFaceVert,    \* nodes of a face
  Faces1, Faces2, \* connectivity of the mortar and of the nonmortar mesh: face -> sequence of nodes
  NumTotalNodes,  \* nodes 0 .. NumTotalNodes - 1, of the mortar mesh first
  Position,       \* node -> <<x, y, z>>
  ElementNormals, \* nonmortar face -> its unit normal
  Pressure,       \* nonmortar node -> nodal pressure
  ResidualGap,
  Methods,        \* of "single", "aligned", "weights", "enzyme"
  EvalModes,
  PairLists,      \* the pairs an update may find
  MaxUpdates

VARIABLES
  method,         \* the contact method, and for "enzyme" the single mortar method with Enzyme
  evalMode, sparseMode,
  pairs,          \* contact planes: [face1, face2, rule]
  atPair,         \* the next one of the loop at hand
  mortarStep,     \* "idle", "gaps", "reserve", "pairs"
  status,         \* what ApplyNormal or GetMethodData returned
  nodeGap,        \* node -> m_node_gap
  response,       \* node -> force
  smat,           \* m_smat: no rows is the null pointer
  blocks,         \* m_blockJSpaces, m_blockJElemIds, m_blockJ
  updates

mortarVars == <<method, evalMode, sparseMode, pairs, atPair, mortarStep, status, nodeGap, response, smat, blocks, updates>>

Corners == 0 .. (NumFaceVert - 1)
Dims == 0 .. 2
Dim == 3
AllNodes == 0 .. (NumTotalNodes - 1)
NodeOf(face, a) == face[a + 1]
CornersAt(face, n) == {a \in Corners : NodeOf(face, a) = n}
NonmortarNodes == UNION {Range(Faces2[f]) : f \in DOMAIN Faces2}

\* The pairs of all updates.
AllPairs == UNION {Range(list) : list \in PairLists}

\* Meshes and quadrature rules as registration and integration leave them: faces of one kind, the two meshes
\* with nodes of their own, shape functions that add up to the same on either face.
IsFace(face) == DOMAIN face = 1 .. NumFaceVert /\ \A a \in Corners : NodeOf(face, a) \in AllNodes

MortarAssumption ==
  /\ NumFaceVert \in Nat \ {0} /\ NumTotalNodes \in Nat /\ ResidualGap \in Int
  /\ Methods \subseteq {"single", "aligned", "weights", "enzyme"}
  /\ IsFiniteSet(DOMAIN Faces2)
  /\ \A f \in DOMAIN Faces1 : IsFace(Faces1[f]) /\ Range(Faces1[f]) \cap NonmortarNodes = {}
  /\ \A f \in DOMAIN Faces2 : IsFace(Faces2[f]) /\ \A d \in 1 .. 3 : ElementNormals[f][d] \in Int
  /\ \A n \in NonmortarNodes : Pressure[n] \in Int
  /\ \A n \in AllNodes : \A d \in 1 .. 3 : Position[n][d] \in Int
  /\ \A list \in PairLists : list \in Seq(AllPairs)
  /\ \A p \in AllPairs :
       /\ p.face1 \in DOMAIN Faces1 /\ p.face2 \in DOMAIN Faces2 /\ IsFiniteSet(DOMAIN p.rule)
       /\ \A i \in DOMAIN p.rule :
            /\ p.rule[i].wt \in Int
            /\ p.rule[i].mortar \in [1 .. NumFaceVert -> Int] /\ p.rule[i].nonmortar \in [1 .. NumFaceVert -> Int]
            /\ SumFunction(p.rule[i].mortar) = SumFunction(p.rule[i].nonmortar)

ASSUME MortarAssumption

-----------------------------------------------------------------------------
(* Nodal normals: the sum over the elements of a node, of any averaging. *)

NodalNormals ==
  [n \in NonmortarNodes |->
     Sum3([f \in {g \in DOMAIN Faces2 : n \in Range(Faces2[g])} |-> ElementNormals[f]])]

NormalAt(f2, b) == NodalNormals[NodeOf(Faces2[f2], b)]
PressureAt(f2, b) == Pressure[NodeOf(Faces2[f2], b)]

-----------------------------------------------------------------------------
(* The weights of a pair: one array, nonmortar-nonmortar first. *)

Square4 == NumFaceVert * NumFaceVert
NumWts == 2 * Square4

Weight(rule, a, b, mortar) ==
  SumFunction([i \in DOMAIN rule |->
    rule[i].wt * (IF mortar THEN rule[i].mortar[a + 1] ELSE rule[i].nonmortar[a + 1]) * rule[i].nonmortar[b + 1]])

ComputeMortarWeights(rule) ==
  [k \in 0 .. (NumWts - 1) |->
     Weight(rule, (k % Square4) \div NumFaceVert, k % NumFaceVert, k >= Square4)]

\* The aligned faces share their points: both sides take the shape functions of the nonmortar face.
ComputeAlignedMortarWeights(rule) ==
  [k \in 0 .. (NumWts - 1) |-> Weight(rule, (k % Square4) \div NumFaceVert, k % NumFaceVert, FALSE)]

\* The weights of the pairs of all updates.
MortarWeights == [p \in AllPairs |-> ComputeMortarWeights(p.rule)]
AlignedWeights == [p \in AllPairs |-> ComputeAlignedMortarWeights(p.rule)]
WeightsOf(m, p) == IF m = "aligned" THEN AlignedWeights[p] ELSE MortarWeights[p]

WrongWayRound(w, a, b) == w[Square4 + NumFaceVert * b + a]
getMortarNonmortarWt(w, a, b) == w[Square4 + NumFaceVert * a + b]
NotTransposed(w, a, b) == w[Square4 + NumFaceVert * a + b]
getNonmortarMortarWt(w, a, b) == w[Square4 + NumFaceVert * b + a]
getNonmortarNonmortarWt(w, a, b) == w[NumFaceVert * a + b]

-----------------------------------------------------------------------------
(* The gap a pair adds to the node at corner a of its nonmortar face. *)

GapOfCorner(p, w, a) ==
  LET n == NormalAt(p.face2, a)
      g1 == SumFunction([b \in Corners |->
              dotProd(n, Position[NodeOf(Faces1[p.face1], b)]) * getNonmortarMortarWt(w, a, b)])
      g2 == SumFunction([b \in Corners |->
              (dotProd(n, Position[NodeOf(Faces2[p.face2], b)]) + ResidualGap) * getNonmortarNonmortarWt(w, a, b)])
  IN g1 - g2

LongestEdge2(face) ==
  LET E == {Norm2(Apart(Position[NodeOf(face, (a + 1) % NumFaceVert)], Position[NodeOf(face, a)])) : a \in Corners}
  IN CHOOSE m \in E : \A e \in E : e <= m

\* The first of the nearest mortar nodes, none at the longest mortar edge or farther.
AlignedGapOfCorner(p, a) ==
  LET x2 == Position[NodeOf(Faces2[p.face2], a)]
      Gap3(b) == Apart(Position[NodeOf(Faces1[p.face1], b)], x2)
      Reach == {b \in Corners : Norm2(Gap3(b)) < LongestEdge2(Faces1[p.face1])}
      First == CHOOSE b \in Reach : \A c \in Reach :
                 \/ Norm2(Gap3(b)) < Norm2(Gap3(c))
                 \/ Norm2(Gap3(b)) = Norm2(Gap3(c)) /\ b <= c
  IN IF Reach = {} THEN 0 ELSE dotProd(Gap3(First), NormalAt(p.face2, a)) - ResidualGap

GapsOfPair(m, p) ==
  [a \in Corners |-> IF m = "aligned" THEN AlignedGapOfCorner(p, a) ELSE GapOfCorner(p, MortarWeights[p], a)]

-----------------------------------------------------------------------------
(* The forces a pair adds: on the corners of the mortar and of the nonmortar face. *)

ContactForce(p, b) == Scaled3(PressureAt(p.face2, b), NormalAt(p.face2, b))

SingleForce(p, w, mortar, a) ==
  Sum3([b \in Corners |->
    Scaled3(IF mortar THEN getMortarNonmortarWt(w, a, b) ELSE -getNonmortarNonmortarWt(w, a, b), ContactForce(p, b))])

AlignedForce(p, mortar, a) == Scaled3(IF mortar THEN 1 ELSE -1, ContactForce(p, a))

\* ComputeMortarForceEnzyme takes the normal of the corner the force acts on, on either face.
EnzymeForce(p, w, mortar, i) ==
  Sum3([j \in Corners |->
    Scaled3(PressureAt(p.face2, j) * (IF mortar THEN getMortarNonmortarWt(w, i, j)
                                                ELSE -getNonmortarNonmortarWt(w, j, i)),
            NormalAt(p.face2, i))])

ForceOnCorner(m, p, w, mortar, a) ==
  CASE m = "aligned" -> AlignedForce(p, mortar, a)
    [] m = "enzyme" -> EnzymeForce(p, w, mortar, a)
    [] OTHER -> SingleForce(p, w, mortar, a)

ForcesOfPair(m, p) ==
  LET On(face, mortar, n) ==
        Sum3([a \in CornersAt(face, n) |-> ForceOnCorner(m, p, MortarWeights[p], mortar, a)])
  IN [n \in AllNodes |-> Plus3(On(Faces1[p.face1], TRUE, n), On(Faces2[p.face2], FALSE, n))]

-----------------------------------------------------------------------------
(* The element matrices: arrays in column-major order, the nodes of one component together. *)

BlockSpaces == {"mortar", "nonmortar", "lm"}
Keys == Corners \X Corners \X Dims

getJacobianIndex(block, a, b) == a + (IF block = "Jgu" THEN NumFaceVert ELSE Dim * NumFaceVert) * b
OffsetOfJrp(block) == NumFaceVert
getJacobianDimOffset(block) == IF block = "Jgu" THEN Square4 ELSE NumFaceVert
ElemXDof(block, k) == getJacobianIndex(block, k[1], k[2]) + k[3] * getJacobianDimOffset(block)

\* An array of zeros with val[k] added at its place at[k].
Filled(at, val) ==
  [i \in 0 .. (Dim * Square4 - 1) |-> SumFunctionOnSet(val, {k \in Keys : at[k] = i})]

ResidualJacobian(p, w) ==
  LET at == [k \in Keys |-> ElemXDof("Jrp", k)] IN
  [s \in {"mortar", "nonmortar"} |->
     Filled(at, [k \in Keys |->
       NormalAt(p.face2, k[2])[k[3] + 1] *
       (IF s = "mortar" THEN getMortarNonmortarWt(w, k[1], k[2]) ELSE -getNonmortarNonmortarWt(w, k[1], k[2]))])]

ConstraintJacobian(p, w) ==
  LET at == [k \in Keys |-> ElemXDof("Jgu", k)] IN
  [s \in {"mortar", "nonmortar"} |->
     Filled(at, [k \in Keys |->
       NormalAt(p.face2, k[1])[k[3] + 1] *
       (IF s = "mortar" THEN getNonmortarMortarWt(w, k[1], k[2]) ELSE -getNonmortarNonmortarWt(w, k[1], k[2]))])]

\* The derivative in the pressures by Enzyme, one column for each of them.
EnzymeResidualJacobian(p, w) ==
  [s \in {"mortar", "nonmortar"} |->
     Filled([k \in Keys |-> k[1] + NumFaceVert * k[3] + Dim * NumFaceVert * k[2]],
            [k \in Keys |->
               NormalAt(p.face2, k[1])[k[3] + 1] *
               (IF s = "mortar" THEN getMortarNonmortarWt(w, k[1], k[2]) ELSE -getNonmortarNonmortarWt(w, k[2], k[1]))])]

\* SurfaceContactElem::blockJ of a pair: the mortar face comes first, but Enzyme's nonmortar face does.
\* Blocks in the coordinates alone are zero; all of Enzyme's derivatives in coordinates are left out.
MortarFirst == <<"mortar", "nonmortar", "lm">>
NonmortarFirst == <<"nonmortar", "mortar", "lm">>
Third == 3

BlockJ(m, p) ==
  LET w == WeightsOf(m, p)
      jrp == IF m = "enzyme" THEN EnzymeResidualJacobian(p, w) ELSE ResidualJacobian(p, w)
      jgu == ConstraintJacobian(p, w)
      space == IF m = "enzyme" THEN NonmortarFirst ELSE MortarFirst
  IN [r \in 1 .. Third |-> [c \in 1 .. Third |->
        IF r < Third /\ c = Third THEN jrp[space[r]]
        ELSE IF r = Third /\ c < Third /\ m # "enzyme" THEN jgu[space[c]] ELSE <<>>]]

-----------------------------------------------------------------------------
(* What a pair adds depends on nothing an update changes. *)

Kernel ==
  [m \in Methods |-> [p \in AllPairs |->
     [gaps |-> GapsOfPair(m, p), forces |-> ForcesOfPair(m, p), J |-> BlockJ(m, p)]]]

AddGaps(p) ==
  [n \in NonmortarNodes |-> nodeGap[n] + SumFunctionOnSet(Kernel[method][p].gaps, CornersAt(Faces2[p.face2], n))]

AddForces(p) == [n \in AllNodes |-> Plus3(response[n], Kernel[method][p].forces[n])]

-----------------------------------------------------------------------------
(* Where the matrices go. *)

NoMatrix == [rows |-> 0, entries |-> [at \in {} |-> 0]]
LeftAsItWas(numRows) == [smat EXCEPT !.rows = numRows]
allocateMfemSparseMatrix(numRows) == [NoMatrix EXCEPT !.rows = numRows]

\* SparseMatrix::Add of values at their places.
Added(val) ==
  LET old == smat.entries IN
  [smat EXCEPT !.entries =
     [at \in DOMAIN old \cup DOMAIN val |->
        (IF at \in DOMAIN old THEN old[at] ELSE 0) + (IF at \in DOMAIN val THEN val[at] ELSE 0)]]

presOffset == Dim * NumTotalNodes
NodesOf(p) == Range(Faces1[p.face1]) \cup Range(Faces2[p.face2])

\* Rows and columns of the displacements have Dim for each node, those of the pressures start at presOffset.
assembleJacobian(p, J) ==
  LET face == <<Faces1[p.face1], Faces2[p.face2]>>
      At(i, n, j, m, F(_, _)) ==
        SumFunctionOnSet([a \in Corners |-> SumFunctionOnSet([b \in Corners |-> F(a, b)], CornersAt(face[j], m))],
                         CornersAt(face[i], n))
      Jrp(i, r, c) == At(i, r \div Dim, 2, c - presOffset, LAMBDA a, b : J[i][Third][ElemXDof("Jrp", <<a, b, r % Dim>>)])
      Jgu(i, r, c) == At(2, r - presOffset, i, c \div Dim, LAMBDA a, b : J[Third][i][ElemXDof("Jgu", <<a, b, c % Dim>>)])
      dofs == {Dim * n + d : n \in NodesOf(p), d \in Dims}
      lms == {presOffset + n : n \in Range(Faces2[p.face2])}
  IN Added([at \in (dofs \X lms) \cup (lms \X dofs) |->
              IF at[1] < presOffset THEN Jrp(1, at[1], at[2]) + Jrp(2, at[1], at[2])
                                    ELSE Jgu(1, at[1], at[2]) + Jgu(2, at[1], at[2])])

ColumnsSwapped(p, w) ==
  LET Sum(a, n) == SumFunctionOnSet([b \in Corners |-> getNonmortarNonmortarWt(w, a, b)], CornersAt(Faces1[p.face1], n))
                 + SumFunctionOnSet([b \in Corners |-> getNonmortarMortarWt(w, a, b)], CornersAt(Faces2[p.face2], n))
  IN Added([at \in Range(Faces2[p.face2]) \X NodesOf(p) |->
              SumFunctionOnSet([a \in Corners |-> Sum(a, at[2])], CornersAt(Faces2[p.face2], at[1]))])

assembleMortarWts(p, w) ==
  LET Sum(a, n) == SumFunctionOnSet([b \in Corners |-> getNonmortarMortarWt(w, a, b)], CornersAt(Faces1[p.face1], n))
                 + SumFunctionOnSet([b \in Corners |-> getNonmortarNonmortarWt(w, a, b)], CornersAt(Faces2[p.face2], n))
  IN Added([at \in Range(Faces2[p.face2]) \X NodesOf(p) |->
              SumFunctionOnSet([a \in Corners |-> Sum(a, at[2])], CornersAt(Faces2[p.face2], at[1]))])

NoBlocks == [spaces |-> <<>>, ids |-> [s \in BlockSpaces |-> <<>>], J |-> [r \in BlockSpaces |-> [c \in BlockSpaces |-> <<>>]]]
KeepsTheOld(spaces) == [blocks EXCEPT !.spaces = spaces]
reserveBlockJ(spaces) == [NoBlocks EXCEPT !.spaces = spaces]

\* The position of a face in the element arrays says what space it is of.
storeElemBlockJ(ids, J) ==
  LET pos == Inverse(blocks.spaces, DOMAIN blocks.spaces, BlockSpaces)
  IN [blocks EXCEPT
        !.ids = [s \in BlockSpaces |-> Append(blocks.ids[s], ids[pos[s]])],
        !.J = [r \in BlockSpaces |-> [c \in BlockSpaces |-> Append(blocks.J[r][c], J[pos[r]][pos[c]])]]]

-----------------------------------------------------------------------------
(* An update. *)

WantsJacobian == evalMode \in {"jacobian", "residual_jacobian"}

MortarInit ==
  /\ method \in Methods
  /\ evalMode = "residual" /\ sparseMode = "list"
  /\ pairs = <<>> /\ atPair = 1 /\ mortarStep = "idle" /\ status = 0
  /\ nodeGap = [n \in NonmortarNodes |-> 0]
  /\ response = [n \in AllNodes |-> Zero3]
  /\ smat = NoMatrix /\ blocks = NoBlocks
  /\ updates = 0

\* The host clears what the library adds to, may set other options, and calls update.
BeginUpdate ==
  /\ mortarStep = "idle" /\ updates < MaxUpdates
  /\ evalMode' \in EvalModes /\ sparseMode' \in {"list", "dense"}
  /\ pairs' \in PairLists
  /\ nodeGap' = [n \in NonmortarNodes |-> 0]
  /\ response' = [n \in AllNodes |-> Zero3]
  /\ updates' = updates + 1 /\ status' = 0 /\ atPair' = 1
  /\ mortarStep' = IF method = "enzyme" THEN "reserve" ELSE "gaps"
  /\ UNCHANGED <<method, smat, blocks>>

\* One pair of ComputeSingleMortarGaps or ComputeAlignedMortarGaps.
ComputeGaps ==
  /\ mortarStep = "gaps" /\ atPair <= Len(pairs)
  /\ nodeGap' = AddGaps(pairs[atPair])
  /\ atPair' = atPair + 1
  /\ UNCHANGED <<method, evalMode, sparseMode, pairs, mortarStep, status, response, smat, blocks, updates>>

Allocate ==
  /\ mortarStep = "gaps" /\ atPair > Len(pairs)
  /\ IF method = "single" /\ sparseMode = "dense"
       THEN blocks' = reserveBlockJ(MortarFirst) /\ smat' = smat
       ELSE /\ blocks' = blocks
            /\ smat' = allocateMfemSparseMatrix(IF method = "weights" THEN NumTotalNodes ELSE 4 * NumTotalNodes)
  /\ mortarStep' = "pairs" /\ atPair' = 1
  /\ UNCHANGED <<method, evalMode, sparseMode, pairs, status, nodeGap, response, updates>>

\* ApplyNormalEnzyme makes its element matrices only if it is asked for Jacobians, and assembles none.
ReserveEnzyme ==
  /\ mortarStep = "reserve"
  /\ IF WantsJacobian /\ sparseMode = "list"
       THEN status' = 1 /\ mortarStep' = "idle" /\ blocks' = blocks
       ELSE /\ mortarStep' = "pairs" /\ status' = 0
            /\ blocks' = IF WantsJacobian THEN reserveBlockJ(NonmortarFirst) ELSE blocks
  /\ UNCHANGED <<method, evalMode, sparseMode, pairs, atPair, nodeGap, response, smat, updates>>

StoreJacobian(p) ==
  LET J == Kernel[method][p].J
      dense == method # "aligned" /\ sparseMode = "dense"
      ids == IF method = "enzyme" THEN <<p.face2, p.face1, p.face2>> ELSE <<p.face1, p.face2, p.face2>>
  IN /\ smat' = IF WantsJacobian /\ ~dense THEN assembleJacobian(p, J) ELSE smat
     /\ blocks' = IF WantsJacobian /\ dense THEN storeElemBlockJ(ids, J) ELSE blocks

NextPair == atPair' = atPair + 1 /\ UNCHANGED <<method, evalMode, sparseMode, pairs, updates>>

ApplyPair ==
  /\ mortarStep = "pairs" /\ atPair <= Len(pairs) /\ method \in {"single", "aligned"}
  /\ response' = AddForces(pairs[atPair])
  /\ StoreJacobian(pairs[atPair])
  /\ NextPair
  /\ UNCHANGED <<mortarStep, status, nodeGap>>

ApplyPairEnzyme ==
  /\ mortarStep = "pairs" /\ atPair <= Len(pairs) /\ method = "enzyme"
  /\ IF evalMode = "weights"
       THEN UNCHANGED <<response, nodeGap>>
       ELSE response' = AddForces(pairs[atPair]) /\ nodeGap' = AddGaps(pairs[atPair])
  /\ StoreJacobian(pairs[atPair])
  /\ NextPair
  /\ UNCHANGED <<mortarStep, status>>

\* GetMethodData of MORTAR_WEIGHTS refuses element matrices, but only when it meets a pair.
AssembleWeights ==
  /\ mortarStep = "pairs" /\ atPair <= Len(pairs) /\ method = "weights"
  /\ IF sparseMode = "dense"
       THEN status' = 1 /\ mortarStep' = "idle" /\ smat' = smat
       ELSE /\ smat' = assembleMortarWts(pairs[atPair], MortarWeights[pairs[atPair]])
            /\ UNCHANGED <<status, mortarStep>>
  /\ NextPair
  /\ UNCHANGED <<nodeGap, response, blocks>>

EndUpdate ==
  /\ mortarStep = "pairs" /\ atPair > Len(pairs)
  /\ mortarStep' = "idle"
  /\ UNCHANGED <<method, evalMode, sparseMode, pairs, atPair, status, nodeGap, response, smat, blocks, updates>>

MortarNext ==
  \/ BeginUpdate \/ ComputeGaps \/ Allocate \/ ReserveEnzyme
  \/ ApplyPair \/ ApplyPairEnzyme \/ AssembleWeights \/ EndUpdate

MortarSpec == MortarInit /\ [][MortarNext]_mortarVars

-----------------------------------------------------------------------------
(* What an update gives the host. *)

Ready == mortarStep = "idle" /\ updates > 0 /\ status = 0
SumPairs(F(_)) == SumFunction([i \in DOMAIN pairs |-> F(pairs[i])])

\* The forces are internal: those on the nonmortar mesh balance those on the mortar mesh, whatever pairs
\* were found and whatever nodes they share.  (Mortar.cpp:360-402, AlignedMortar.cpp:294-313)
MortarForcesBalance ==
  Ready /\ method # "enzyme" => Sum3(response) = Zero3

\* The gap of a node is the integral over the overlaps of its shape function times the gap of the surfaces
\* along its normal, less the residual gap, in all three methods that weigh it; and the matrix of the mortar
\* weights, times the coordinates, gives the gaps the same update computed.
\* (Mortar.cpp:115-175, 940-962 and 1085-1155, MethodCouplingData.cpp:362-412)
PointGap(p, ip, n) ==
  LET On(face, phi) == Sum3([b \in Corners |-> Scaled3(phi[b + 1], Position[NodeOf(face, b)])])
  IN dotProd(n, Apart(On(Faces1[p.face1], ip.mortar), On(Faces2[p.face2], ip.nonmortar)))
     - ResidualGap * SumFunction(ip.nonmortar)

WeightedGap(n) ==
  SumPairs(LAMBDA p :
    SumFunctionOnSet(
      [a \in Corners |->
         SumFunction([i \in DOMAIN p.rule |->
           p.rule[i].wt * p.rule[i].nonmortar[a + 1] * PointGap(p, p.rule[i], NodalNormals[n])])],
      CornersAt(Faces2[p.face2], n)))

IsWeightedIntegral ==
  method # "aligned" /\ ~(method = "enzyme" /\ evalMode = "weights") =>
    \A n \in NonmortarNodes : nodeGap[n] = WeightedGap(n)

EntryAt(r, c) == IF <<r, c>> \in DOMAIN smat.entries THEN smat.entries[<<r, c>>] ELSE 0

FromWeights ==
  method = "weights" =>
    \A n \in NonmortarNodes :
      nodeGap[n] = SumFunction([m \in AllNodes |->
        EntryAt(n, m) * (IF m \in NonmortarNodes THEN -dotProd(NodalNormals[n], Position[m]) - ResidualGap
                                                  ELSE dotProd(NodalNormals[n], Position[m]))])

GapsMatchWeights == Ready => IsWeightedIntegral /\ FromWeights

\* The Jacobian an update hands out, assembled or by element, is the derivative of what the same update added:
\* forces are linear in the pressures, the gaps in the coordinates; of Enzyme's the pressures alone.
\* (Mortar.cpp:428-565, MethodCouplingData.cpp:109-360)
Assembled == method = "single" /\ sparseMode = "list"

\* Element matrix k on the corners of space s, read the way a DenseMatrix of nodes by component is.
ElementForce(s, k, a) ==
  LET f2 == blocks.ids["lm"][k]
      J == blocks.J[s]["lm"][k]
  IN [d \in 1 .. 3 |->
        SumFunction([b \in Corners |-> J[a + NumFaceVert * (d - 1) + Dim * NumFaceVert * b] * PressureAt(f2, b)])]

ForceFromJacobian(n) ==
  IF Assembled
    THEN [d \in 1 .. 3 |->
            SumFunction([j \in NonmortarNodes |-> EntryAt(Dim * n + d - 1, presOffset + j) * Pressure[j]])]
    ELSE LET On(face, s, k) == Sum3([a \in CornersAt(face, n) |-> ElementForce(s, k, a)])
         IN Sum3([k \in DOMAIN blocks.ids["lm"] |->
                    Plus3(On(Faces1[blocks.ids["mortar"][k]], "mortar", k),
                          On(Faces2[blocks.ids["nonmortar"][k]], "nonmortar", k))])

GapFromJacobian(j) ==
  SumFunction([n \in AllNodes |->
    dotProd([d \in 1 .. 3 |-> EntryAt(presOffset + j, Dim * n + d - 1)], Position[n])])

IntegralOfShape(n) ==
  SumPairs(LAMBDA p :
    SumFunctionOnSet([a \in Corners |-> SumFunction([b \in Corners |-> Weight(p.rule, a, b, FALSE)])],
                     CornersAt(Faces2[p.face2], n)))

JacobianIsDerivative ==
  Ready /\ WantsJacobian /\ method \in {"single", "enzyme"} =>
    /\ \A n \in AllNodes : response[n] = ForceFromJacobian(n)
    /\ Assembled => \A n \in NonmortarNodes :
                       nodeGap[n] = GapFromJacobian(n) - ResidualGap * IntegralOfShape(n)

\* What a test compares on one flat face: the forces with Enzyme are those without.
\* (tests/tribol_enzyme_element_mortar.cpp:564 and 573)
EnzymeForcesMatch ==
  Ready /\ method = "enzyme" /\ evalMode # "weights" =>
    \A n \in AllNodes : response[n] = Sum3([i \in DOMAIN pairs |-> Kernel["single"][pairs[i]].forces[n]])
=============================================================================
