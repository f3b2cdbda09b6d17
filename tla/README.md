# Tribol in TLA+

Tribol computes contact between surface meshes for a host code. The host registers meshes,
fields on them and coupling schemes (pairs of meshes with a method, a model and an
enforcement), and calls `tribol::update` in every cycle; with MFEM, a layer above registers
the meshes for it, and `redecomp` moves them to the ranks that compute. These modules model
that: what a host may call in which order, what an update makes of it, what survives to the
next one, what the geometry and the kernels compute, and how meshes and fields travel between
ranks. Paths are relative to `src/src/` of the repository; `PROJECT.json` maps every
definition to the lines it stands for.

## 1. The system

| component | state it keeps | operations | what must hold |
|---|---|---|---|
| Mesh data (`tribol/mesh/MeshData.*`, the `register*` calls of `tribol/interface/tribol.cpp`) | per mesh: element count and type, memory space, validity, views of host arrays, *is set* flags, face data | `registerMesh`, nodal and element fields, checks of a scheme's data, `computeFaceData` | a mesh the checks accept has every array the kernels read; checking is repeatable |
| Coupling scheme (`tribol/mesh/CouplingScheme.*`) | options, contact case, execution mode, binning flags, pairs, contact planes | construction, option setters, `isValidCouplingScheme`, `init`, `performBinning`, `apply`, `computeTimeStep` | accepted options have an implementation; repairs of the options leave the rest consistent |
| `tribol::update` | the two managers, time step, return code | loop over the schemes in the order of an `unordered_map` | schemes that share meshes do not break each other; the time step only shrinks, and is asked of every scheme with planes; errors reach the host |
| Pair search (`tribol/search`) | interface pairs, fixed or found again in each update | grid, BVH and Cartesian search, `geomFilter` | pairs name elements that exist; each pair is looked at once; none in contact is dropped; fixed pairs stay |
| Index algorithms (`tribol/utils/Algorithm.hpp`) | – | `binarySearch`, `symmMatrixRow` | every candidate has its row, in the width of `IndexT` |
| Parallel compaction (`tribol/common/LoopExec.hpp`, `Atomics.hpp`) | mask, counter, output array | count, resize, claim, store | each accepted item exactly once, whatever the interleaving |
| Contact geometry (`tribol/geom`) | contact planes | projection, polygon intersection, clipping at the plane of the other face, centroid gap | the overlap found is the intersection, cut where faces cross |
| Physics (`tribol/physics`) | nodal responses, gaps, Jacobians | dispatch; common-plane and mortar kernels | reads only what was registered; forces balance; penalty only pushes; Jacobians are derivatives |
| Method data (`tribol/mesh/MethodCouplingData.*`) | weights, assembled matrix, element blocks | allocation in `init`, assembly in kernels | storage belongs to the current update, offsets to the right block |
| Time step vote (`CouplingScheme::computeTimeStep`) | `dt` | guards, gap and velocity checks per plane | a vote limits the overlap the next step can make |
| Contact formulations (`ENERGY_MORTAR`) | a formulation object with copies of options | made again by setters; its own checks, search, forces | it acts on the options in force (its penalty does not, once element penalties were set) |
| MFEM interface (`tribol/interface/mfem_tribol.cpp`, `tribol/mesh/MfemData.*`) | LOR mesh, redecomposed mesh, submesh, Jacobian data, fields and views of them | registration, setters, `updateMfemParallelDecomposition`, `update`, getters | nothing refers to what was replaced; the ghost layer covers the motion since it was made |
| Redecomp (`redecomp`) | boxes, parts, ghost lists, element and vertex maps | RCB partition, ring exchange, broadcast tree, building of meshes, transfers of fields and matrices | each element has one owner, neighbours meet, every rank makes the same rounds, values arrive in their places, ghosts are not counted twice |
| Integration tables, output, test meshes, wrappers | – | floating-point computations, files | – |

How they interact: all calls of a host are serial, and none overlaps an update. Inside an
update the loops over pairs run in parallel (OpenMP, CUDA). Schemes meet each other through
shared meshes (flags are cleared, meshes are invalidated), through the time step and through
the return code, in the order the map happens to have. The meshes themselves belong to the
host: it moves them, registers them anew with fewer elements, and registers null pointers. The
MFEM layer is such a host: it owns the arrays the Tribol meshes point to and replaces them in
every decomposition. Ranks meet in `redecomp` only, by point-to-point messages with one tag and
by sums over all ranks.

What is hard about it: the checks of an update *write* (they repair the case, clear rate
flags, invalidate meshes, choose the execution mode), so the same scheme is checked on other
data in the next update; pairs and planes outlive the meshes they were computed from; flags
and the arrays behind them are set by different calls; a failing check or kernel leaves
the schemes before it applied; the searches write into one array from many iterations, and
find their rows by a binary search whose numbers may not fit; polygons degenerate where faces
touch; matrices of an earlier update are still there in the next; objects of the MFEM layer hold
references to each other and are replaced by calls that know of some of them only; and all ranks
have to agree on an order of messages, vertices and elements that nobody writes down.
`PROJECT.json` lists these hazards at their lines.

## 2. Modules

    MeshData              a mesh record, its registration calls and its checks (operators)
      CouplingScheme      a scheme record, its checks and what they rewrite (operators)
        Tribol            the managers, the host's calls and tribol::update (state machine)
          TribolClaims    what texts of the code say and the model does not keep
            MCTribol      the hosts; MCOneScheme, MCLifecycle extend it
          Tribol_proofs

    PairSelection         abstract: an array with every accepted item once, in one step
      PairCompaction      the parallel loops that do it
    CandidateIndex        the pair an iteration looks at; binarySearch as a loop
                          Search_proofs for both
    Polygons              plane geometry (operators)
      ContactPlanes       the check of one pair of faces or edges
        FaceFilter        geomFilter in front of it
                          MCSearch = FaceFilter + PairCompaction + CandidateIndex

    Vectors               (operators)
      MortarForces        updates of the mortar methods and their matrices
      CommonPlaneForces   kernels and vote of the common-plane method
        Forces            an update of the one or of the other
          MCForces
          Forces_proofs

    AllToAll              abstract: a call gives every rank the values of that call
      Exchange            SendRecvEach: rounds of messages around a ring
        Exchange_proofs
    BisecTree             the binary tree of parts or ranks (operators)
      SendTree            SendAll and RecvSendAll down such a tree
      Partition           recursive coordinate bisection over it
                          BisecTree_proofs for all three
    RedecompMesh          BuildRedecomp
      RedecompTransfer    fields there and back
        Redecomp_proofs   for both
      MatrixTransfer      matrices back
        MatrixTransfer_proofs
                          MCRedecomp composes all of these

    MfemObjects           which objects own and refer to which
      MfemTribol          the calls of the MFEM interface
        MCMfem
        MfemTribol_proofs

### MeshData
A mesh is a record of what the checks can tell apart. `has` is the set of things
registered: nodal fields, scalar element fields, element arrays, and the two flags
`kinElem` (`m_is_kinematic_element_penalty_set`) and `thickness`, kept apart from the arrays
`modulusArray` and `thicknessArray`, because different calls set them. `velView` is the
velocity view (replaced even by null pointers), `velocity` the flag that it is usable. `low`
says which values are below the threshold of the check that looks at them; the
numbers themselves are not kept. `isValidRatePenalty` clears flags when there is no rate
penalty: `ClearRateFlag`, applied by `afterPenaltyCheck`.

### CouplingScheme
The checks in the order `isValidCouplingScheme` makes them, in three parts: which
pass (`ChecksPass`), what they leave in the scheme (`CheckedScheme`: the repaired case,
`auto_contact_check`, the execution mode, the forced options of `MORTAR_WEIGHTS`), and what
they leave in the meshes (`MeshesAfterChecks`: cleared rate flags, meshes invalidated by
mismatched element types or memory spaces). All checks run whichever fails. `Kernels`,
`KernelReads`, `PhysicsFails` and `KernelAborts` say which kernels `ApplyInterfacePhysics`
then dispatches to, what they read of each side, and how they end. The build is four
constants: Umpire, OpenMP, CUDA (HIP is its mirror image) and Enzyme.

### Tribol
`mesh` and `scheme` are the managers; `fixed`, `binned`, `pairs` and `planes` are a scheme's
`m_fixedBinning`, `m_isBinned`, `m_interface_pairs` and contact planes (as the pairs they
point to); `pos` is host memory. One action per call of the host. An update is the steps

    BeginUpdate -> per scheme  InitValid | SkipInvalid | AbortInInit
                               FindPairs | KeepPairs
                               Apply | AbortInApply              -> EndUpdate

in any order of the schemes. They are steps of one thread, kept apart so that properties can
speak of the moment between search and physics. `failed` and `verdict` are history
variables: the schemes that failed in this update, and the last verdict on each scheme since
the host called. Geometry enters in two places only. Elements of a mesh stand in a row one unit
apart, so that the distance test of `geomFilter` is on integers; and `Apply` turns any
subset of the pairs into contact planes (which subset is the question of `ContactPlanes`). A
scheme without face data reads arrays that do not exist in its search: `FoundPairs` is then
any set of candidates. A coarse search (grid or BVH) is assumed to find every pair that
`geomFilter` accepts. `SLIC_ERROR` aborts the process, Axom's default. The options of a
Lagrange multiplier scheme are uninitialised until they are set: `Uninitialised` is what the
memory may hold.

### PairCompaction
Every iteration tests, claims a slot by `atomicInc`, and stores; iterations interleave in
any order. With `twoPass` it is a search (`FilterCandidatePairs`, `CartesianProduct`, the
same-mesh case of `BvhSearch`), which counts, resizes and then claims; without, it is the
contact plane check of `apply`, which has room for every pair and is shrunk at the end. The
abstract `PairSelection` gives an array that lists the accepted items, in one step;
`result` is refined by the array once the loops are over, and by `<<>>` until then.

### CandidateIndex
The same loops seen from the number of an iteration: `candidate`. In a Cartesian product it is
divided (`DivideCandidate`); in the lower triangle of one mesh and among the ranges the BVH
returns its row is looked for (`BeginSearch`, then `SearchAbove`, `SearchBelow` or `FoundRow`,
one action for each way round the `while` of `binarySearch`, whose `l` and `r` are variables).
Iterations are independent and come one after the other. `indexStep` becomes `"undefined"` where
a number leaves `IndexT` and `"not found"` where `binarySearch` would return -1.

### Polygons, ContactPlanes, FaceFilter
A pair of planar faces is seen along the normal of the contact plane: two polygons in the plane
and a linear `gap` between them, which is all a projection of planar faces keeps. `Polygons`
holds the operators of `GeomUtilities.hpp` (orientation, point in triangle and face, the
intersection of segments and of polygons, doubled vertices, areas), exact on integers that are
multiples of what divides; points nearer than `LenTol` are the same. `ContactPlanes` has the
check of each method: `CommonPlane3D` (edges that meet the plane of the other face, the cases of
how many points lie inside, the clipped polygons in their shared slots, the whole overlap
or the part past the other face, the auto-contact depth), its form for edges, and the mortar and
aligned mortar planes; a pair is one step `checkFacePair` or `checkEdgePair`, with `plane` for
what is stored. `FaceFilter` puts `geomFilter` before it, with the area of overlap that
`PolyInterYCentroid` computes from the areas under the edges.

### MortarForces
An update is `mortarStep` over `pairs`: the gap loop, `reserve` for the element blocks, the loop of
weights, forces and Jacobians, in the four methods (`single`, `aligned`, `weights`, and `enzyme`
for the single mortar kernel that Enzyme differentiates). `smat` is the assembled MFEM matrix with
its entries, `blocks` the element matrices with the element ids of their spaces; both stay from
update to update. Quadrature points come with a pair; shape functions are integers
(multiplied by `Unity`) and nodal normals keep the length of their sum. `MortarAssumption` says what
registration and integration leave: faces of one kind, the two meshes with nodes of their own, integer
shape functions that add up to the same on either face of a pair.

### CommonPlaneForces
The loops over the planes of one update (`ApplyNormal`, `ApplyTangential`, `Vote`; a plane is one
step, planes come in any order), with `force` as the array all planes add to. A plane out of
the gap tolerance is `OutOfReach`. Stiffness by constant and by element, rate penalties by constant and
by percent, the viscous term, and the vote with its two estimates per side. `PlaneAssumption` is what
the checks of penalty data leave (positive stiffness, rates that are not negative) and what a plane is
computed with (a unit normal, shape functions that add up to the same on either face). It asks more than the code in
two places: viscous coefficients are not negative, which no check looks at, and stiffness and time have units so small that
neither a thickness makes an element's stiffness zero nor a face moves its allowance in less than one unit of time, which
with real numbers needs no unit.

### Exchange and AllToAll
Every rank runs its own program: begin a call, per round `Isend`, receive, wait, then its own part.
`chan` holds the messages between two ranks in order, which MPI guarantees for one tag. A 2D array
travels as a shape, sent by `MPI_Send`, and a body; `Buffered` says which parts MPI may
return from before the receive is posted (`SendShape` waits otherwise). `AllToAll` gives all values
of a call in one step per rank; `Exchange` implements it (`ImplementsAllToAll`).

### BisecTree, SendTree, Partition
`BisecTree` is the tree of levels. `SendTree` is `SendAll`/`RecvSendAll`: every rank climbs and
descends by its own number, several calls in a row with one tag and no barrier. `Partition`
runs `RCB`: `PassDown` and `BeginNode` take the next box, `Accept`, `CutAgain` and `NewAxis` are the
outcomes of a round (counts good enough, cut moved, axis given up), `generatePartitioning` sends
entities to parts by `DetermineDomain` and as ghosts to neighbours. All ranks act on the same sums, so
that one state stands for all of them.

### RedecompMesh, RedecompTransfer, MatrixTransfer
`BuildRedecomp` is a chain of steps of all ranks (each exchange is one, by `AllToAll`): element
lists with ghost flags, vertices and their numbering where they arrive from several ranks,
connectivity, offsets, ghost lists. Fields travel by nodes, by elements and by quadrature points,
out (`...In`), through a computation that is right only where a rank has all elements, and
back. Matrix entries are symbols of who computed what; a sum of them is a bag, so that an entry
counted twice or not at all shows.

### MfemObjects and MfemTribol
The objects the scheme owns and the references between them are a graph: `heap.live` are references
whose target exists, `heap.dangling` those whose target was replaced. A call replaces what its
code replaces (`Free`, then make), and what it follows although it dangles goes into `broken`. Beside
the graph there are the plain members the decisions depend on (`mesh_data`), what the formulation
copied (`formulation`), and three history variables: `gap`, the coordinates the summed nodal gaps
come from; `fresh`, nothing was called since the last decomposition that asks for another; `since`, the
calls since the redecomposed mesh was made. `status` names what ended the program: an error it reports,
or "null followed" where it dereferences a pointer that was reset, and there is no such error. A call that
ends the program still records in `broken` what it followed until then.

### The modules for TLC
`MCTribol` holds the inputs of the hosts; `MCOneScheme` and `MCLifecycle` run several
hosts, one per behaviour, chosen by `host` (constants through `INSTANCE`). `MCSearch`, `MCForces`
and `MCRedecomp` run several components, chosen by `part`, and never mix two of them.

## 3. Runs

| run | question | states |
|---|---|---|
| `one_scheme` | one scheme under three hosts: a rate penalty whose data are registered in every order, again, or withdrawn between updates; element-wise stiffness, where flag and array come apart under null registrations, on a mesh that loses its elements, in auto contact and in contact with itself; the mortar methods with every incomplete set of data and with options nobody implements | 213,501 |
| `lifecycle` | the host moves meshes and registers them anew with fewer elements, for grid, Cartesian and conforming binning; or two schemes in an OpenMP and CUDA build share meshes in device, unified and host memory; or two vote on one time step in either order; or two compute mortar weights and are valid, skipped or abort | 1,139,161 |
| `search` | one pair of faces or edges through filter and check; the number of an iteration; the parallel loops | 65,828 |
| `forces` | updates of the mortar methods; the loops over two common planes | 66,480 |
| `redecomp` | ring exchange, broadcast tree, partition, meshes, transfers | 33,660 |
| `mfem` | an MFEM scheme of one of six kinds under any order of calls | 433,122 |

What the properties say:

- `one_scheme`. `KernelDataRegistered` relates the checks to what the kernels read, at the moment
  of the physics. `AcceptedSchemesDispatch`: dispatch has no default that reports, so a combination
  the checks let through and no case handles would do nothing silently. `VerdictStable`: checks
  write, yet a scheme that shares no mesh gets the same verdict until the host registers
  something. (Two schemes on one mesh are exempt: a check without rate penalty clears flags that
  a scheme with one needs, and which comes first is up to the map.) `TypeOK` is the type invariant
  of `Tribol`.
- `lifecycle`. `AppliedOnMatchingMeshes`: no scheme is applied on meshes that differ, not even
  after another scheme invalidated one between two updates. `FixedBinningJustified`,
  `FixedPairsFrozen`, `RefreshedPairsInRange` and `PlanesBackedByPairs` say which pairs
  may be old and which may not. `VotesOnlyShrink`, `MinusOneHasCause` and `StepNeedsVelocities` are about the
  time step. `computeTimeStep` sets -1 where a scheme has contact planes between meshes with elements and one
  of them has no velocities: `MinusOneHasCause` is that -1 comes from nothing else, `StepNeedsVelocities`
  that the host does not get a step above the threshold while there is such a scheme among those applied,
  whether it votes or not, and whatever comes after it. A scheme that fails its checks or its physics is not
  asked and leaves the step as it was.
- `search`. `PlaneFitsFaces` is the conjunction of two: `OverlapIsIntersection` compares the polygon of the check with a definition of
  intersection (every vertex in both faces, every edge on an edge of one or on the cut, convex,
  counter-clockwise, and nothing in common where there is none), and by `CrossingIsInterpen` faces on both
  sides of each other are cut. `FilterAgreesWithCheck`: the two ways to measure an overlap agree, and no
  crossing pair is dropped for its distance. `EachPairOnce`: every pair a search is for is given by one
  iteration, in one direction. `SlotsAreExclusive`, `WrittenOnce` and `Selects` (the refinement of
  `PairSelection`) are about the loops.
- `forces`. `ForcesBalance` in all methods but Enzyme's. `GapsMatchWeights`: nodal gaps are the weighted
  integral of the gap at quadrature points, and mortar weights, multiplied by positions, are the gaps.
  `JacobianIsDerivative`: matrices handed out, assembled or by element, are the derivative of what the
  same update added. `PenaltyNeverPulls`, `DampingDissipates` (less the springs, forces do no positive work),
  and `VoteLimitsGrowth`: after the step a vote allows, no overlap is deeper than it was, than an element
  allows, or by more than both allow.
- `redecomp`. `RoundsMeet`: in the ring, a message received is the one meant for that receive, ranks are at most one call
  apart and never all wait on each other, as MPI buffers shapes here. `ContainersArrive`: so for the tree, and no
  message is left over. `PartsAreComplete`: owned entities are in the box of their part, entities within the ghost length
  of each other meet, and no good cut is lost from the window. `MeshesMatchParent`: the meshes are those
  elements of the parent, and the maps lead back. `FieldsArrive`: fields by nodes, elements or quadrature
  points are in their places on both sides, and no partial result of a ghost comes back. `MatricesArrive`: matrices
  sum owned contributions only, once. `ImplementsAllToAll` is the refinement, `AllEnd` the end of exchange,
  broadcast and partition.
- `mfem`. `NothingStaleInUse`: after a decomposition, all views and everything made on the redecomposed
  mesh refer to what exists. `GhostLayerCoversMotion`: many small moves below the trigger do not leave the
  ghost layer. `FormulationCurrent`: the formulation's copies of options are those in force, except that
  its penalty mode and stiffness stay what they were when `setMfemKinematicElementPenalty` is called, the one setter that
  does not make it anew. `PenaltyDataInPlace`: options agree with their data. `JacobianReady`: a Jacobian has
  its transfer. `UpdateStopsForCause`: an update stops the program for want of a penalty only if the host set none or set one
  by element of which the formulation does not know, and for want of a Jacobian transfer only after
  `setMfemLORFactor`. `GapOfCurrentCoordinates`: summed gaps are of the mesh as it is. `MissesForCause`: a call
  follows what is gone for three causes only: `setMfemLORFactor` replaced the LOR mesh under what was made with the
  redecomposed mesh, or under a thickness and a modulus, or `setMfemKinematicElementPenalty` dropped the copy of
  the thickness and the mesh was kept.

**Bounds.**

- *Tribol runs.* Two meshes (sharing happens with two), one or two schemes, at most two elements a mesh,
  the fewest for which pairs can differ, move out of reach and lose a partner (three for element-wise
  stiffness: auto contact drops elements that share a node). `MaxDt` is 1 or 2: the code tells
  apart -1, a step too small and a step large enough, and with 2 a vote can lower a step and leave it
  large enough. No counter grows, so the state spaces are complete for these inputs: the host may
  make its calls in any number and order. In the `memory` host of `lifecycle` the meshes have no elements,
  because its question is about types, memory and modes.
- *Search.* Seven shapes (triangles, quadrilaterals, a rhombus, one nonconvex face) in both orientations at four
  offsets, edges of eight kinds, gaps at the origin in five places with slopes 0 and 1: faces apart, touching,
  nested, sharing edges or vertices, flat, tilted and crossing. Coordinates are multiples of 60, which all
  denominators divide; `LenTol` is the least distance. `Grain` keeps squares in the integers of TLC. Six candidates of
  which four are accepted: iterations overtake each other in both loops. `MaxIndex` 31 and meshes up to six elements: the
  product of six by six and the triangle of six leave the index, those below do not; all relations of boxes between
  two and three elements and all symmetric ones of four, so that ranges are empty at the front, in the middle and at the end.
- *Forces.* Two nonmortar faces at a right angle with two nodes in common, so that normals of nodes differ from normals of
  faces; a mortar face over each, four lists of pairs, two updates, so that the second meets what the first left.
  Two planes that share nodes, four gaps each on both sides of the tolerance, three velocities per node group, three
  thicknesses (one negative: the vote has a branch for it), six sets of options.
- *Redecomp.* Three ranks and three calls (a rank can be a round or a call ahead), of both kinds of array, with the shape
  buffered (without any buffering the code deadlocks in `MPI_Send` of the shape, which MPI allows; see below); five ranks
  for the tree, the fewest with an unpaired node on two levels, from roots inside and at the right end. Twelve entities in
  four clusters on five places, two to four parts: cuts that balance, that have to move, and that no axis allows. A mesh
  of two triangles and a quadrilateral on three ranks, owned and ghost in every way.
- *MFEM.* The coordinate runs over 0–2 with triggers 0 and 1, so that motions below and at the trigger add up past it; one
  further LOR factor, two proximity scales, one penalty; six schemes are all methods, with and without velocity data,
  linear and quadratic, nodal and quadrature enforcement. `PenaltyNext` and `VelocityNext` leave out calls a
  method does not read anything of.

**Fairness.** `redecomp`: `WF(Progress)`, as long as some rank can run on, some rank does, which
is less than fairness for every rank; a send that MPI need not complete is not enabled. The partitioner's loops
wait for nothing. Hosts are under no fairness, and the other runs need none. Deadlock is checked except in
`search`, `forces` and `mfem` and the claims on them: a pair, an update's loops and a stopped program have an end.

**Mutants.** Each property has one or more mutants in `PROJECT.json`: a definition that is changed as a
slip in the code would change it (a flag that survives re-registration, a counter not reset, a check on the wrong side, a
transposed weight, an offset of the wrong block, a ghost sent back, an end past the last element), under which TLC finds
the property violated. They stand before the definitions they change, marked as mutants.

### Where the code and its own words differ
- `claim_return_code`: `update` keeps the return value of the last scheme only. An Enzyme
  scheme with a sparse Jacobian fails, a mortar-weights scheme after it succeeds, and 0 is
  returned, although `tribol.hpp:535` promises a non-zero code for an error.
- `claim_guards`: pairs are fixed (conforming mode or Cartesian binning) on meshes with
  elements; the host registers one of them anew with none; the next update keeps the pairs
  and checks elements that do not exist. `tribol.cpp:876` and `880` speak of guards.
- `claim_reference`: `isValidMethod` sets `NULL_REFERENCE_COORDS` and then overwrites it with
  `NO_METHOD_ERROR`; an Enzyme scheme without reference coordinates is accepted.
- `claim_enzyme`: `ComputeMortarForceEnzyme` takes the normal at the index of the node the force acts on, not of the node
  of the pressure, for mortar nodes even across faces. A test compares the two methods, on flat faces.
- `claim_lor`: `setMfemLORFactor` after a decomposition leaves a redecomposed mesh whose parent was
  destroyed, and the next decomposition keeps it, although `MfemData.hpp:1553` says transfers are rebuilt.
- `claim_thickness`: `setMfemKinematicElementPenalty` after a decomposition drops the copy of the thickness on the
  redecomposed mesh, and a decomposition that keeps the mesh makes no new one. The guard at `mfem_tribol.cpp:831`
  asks `GetRedecompElemThickness1()` whether it is there, which dereferences the null pointer
  (`MfemData.hpp:986`): the message *No element thickness data available* is never given.

### Also met while modelling
Visible in the models and not among the claims, because no text of the repository says otherwise or only a
vague one does.

*Checks and update.* A check without rate penalty clears one of two rate flags only (`MeshData.cpp:133`). Mortar weights
need gaps that no check asks for (`AbortInApply`). A velocity view of null pointers counts as velocity for the vote
(`CouplingScheme.cpp:1285`). Quadratic faces pass the checks and are searched without face data. A case out of
range is rejected once and, if another branch repaired it, accepted in the next update (`CouplingScheme.cpp:505`).
The viscous kernel reads velocities that no check asks for. The Cartesian search filters by distance and its result is fixed:
meshes that meet later have no pairs, while `Parameters.hpp:173` says *all element pairs*. `setSlicLoggingLevel` sets a
process-wide level.

*Search and geometry.* The `l + r` of `binarySearch` needs twice the mesh size in `IndexT`; `n(n+1)`, not half of it, has to
fit. A pair that is hinged (two crossings, none inside) is dropped (`CompGeom.hpp:2228`). With one
crossing on face 1, the second clipped face is read from the wrong slot of the shared array; `Transversal` leaves that
out of `OverlapIsIntersection`. `centroidGap` ignores that a line may miss its plane. In exact arithmetic, whole
faces that pass the filter never end in `NO_OVERLAP`.  Guards on `k > 2` and on array limits cannot fail.

*Kernels.* `allocateMfemSparseMatrix` allocates over a matrix of an earlier update. The aligned method pairs
nodes by local index in its forces and by distance in its gaps (`AlignedMortar.cpp:297`), and its matrix
is not the derivative of its forces. It ignores the sparse mode. Mortar weights with element-dense Jacobians report an error
only if there is a pair. Forces are added whatever the evaluation mode asks for. Element blocks of
Enzyme's Jacobian stay from an update that wanted them to one that does not. The viscous force is not multiplied by an area.
A negative time step of a pair is ignored in the vote.

*Redecomp.* `SendRecvEach` of 2D arrays needs MPI to buffer the shape; the header says sends do not block
(`MPIUtility.hpp:190`, against `420`). A point on a cut is counted again below the right side; balance of one
level is not kept by the next; where no axis can be cut, parts below have no ghost box; the default imbalance is 10
where the documentation says 5.

*MFEM.* Thickness and modulus set after a decomposition reach Tribol at the next new mesh only. `updateMfem*` lets constant-penalty schemes pass, which
then lack a modulus (`MfemData.cpp:812`). Lagrange options set late make Jacobian data without transfer. A LOR factor
for a mesh of order 1 warns *not changed* and drops the Jacobian transfer. Constant-penalty
values, or the knowledge that there is no penalty, stay in the formulation after element penalties are set. A formulation made anew loses its pressures, and a
reference the host got of them dangles. The viscous coefficient is cleared with kinematic penalties. Gaps of two updates
without decomposition add up. The trigger may be raised above what the ghost layer covers, and two sides may approach by twice
the trigger.

## 4. Proofs

**`Tribol_proofs`** holds for any sets of meshes and schemes, any inputs, any build and any
positions, from `HostAssumption` (inputs are of the right type, and the names that stand for no scheme and any mesh
are not names of one) and `BuildAssumption`.
The invariant is `IInv == TypeOK /\ LoopVariables /\ FixedBinningJustified /\ PlanesBackedByPairs`.
`LoopVariables` says that between updates nothing is to do and no scheme is being worked on:
the host may empty the scheme manager there (`finalize`), and the types of `todo` and `cur`
survive only because of it. Fixed binning is inductive because no check ever turns
`NO_SLIDING` into another case and no search turns a Cartesian scheme into a grid scheme;
planes are backed because they are built from the pairs of the same step. From it:
`TypeCorrect`, `FixedBinning`, `BackedPlanes` (invariants); `FrozenPairs`, `VotesShrink`
(action properties, one case per action); `RefreshedPairs` (pairs found in this update are
candidates, candidates are in range); `MatchingMeshes` (from the checks, and because between
`init` and `apply` of a scheme no step touches a mesh).

The other theorems each add what their property needs.

- `SchemesDispatch`: the checks are followed once more, for what they say of the options. They leave element
  counts alone, and neither search nor physics touches an option.
- `MinusOneCaused`: if the time step is -1, some scheme is through with this update (`LeftBehind`) whose meshes exist,
  whose planes are there and one of whose meshes has no velocity view (`Caused`); it stays so, because a
  scheme that comes later changes neither its planes nor a view.
- `StepAsksVelocities` is the other half, `[]StepNeedsVelocities`: what a valid scheme with planes between meshes with
  elements left is either both views or a step below the threshold, and no later vote raises that.
- `CheckedKernelData`: a flag on a mesh with elements implies the array behind it (`FlagsHaveArrays`), because
  registration refuses a null pointer for such a mesh; the checks of a scheme then leave it either without elements
  or with the data of its kernel, and `AllLeft` says what checks, also of other schemes, leave of all
  meshes: all but the rate flags. It has no hypothesis.
- `KernelData` is `[]KernelDataRegistered`, under `ChecksKnowTheKernels`: no Enzyme, no mortar weights, no viscous
  tangential model with the common-plane method. These are the kernels whose data no check asks for (see 3,
  and `claim_reference` for one of them), so that the property is false without it; `one_scheme` satisfies it.
- `StableVerdicts` is `VerdictStable`: the checks are idempotent, option for option and mesh for mesh (`SameAnswers`), and a
  scheme that shares no mesh meets what it left (`OthersLeftAlone`). Its hypothesis `CasesInRange` is needed: a
  case out of range is turned down, and replaced while it is.

**`Search_proofs`**, of `CandidateIndex`, holds for meshes of any size and any index width, from `CandidateAssumption`: ranges
of the BVH follow each other without holes and name an element at most once, of a mesh and itself both directions meet,
and the BVH's counts and twice its elements are in `IndexT`. The invariant has to say why a binary search ends with a row,
without an induction over its rounds: the start of row `l` is not after the candidate, and the start of row `r + 1`
is. Every round keeps both; so `l > r` would put one row's start both before and after the candidate, and a row in which
neither comparison holds is the row. A second part, `SmallerThanCount`, bounds every number computed by the product that
the triangle was counted with, which is why nothing overflows once the count did not. A third part says which pair the
iterations so far have stored: a function of the candidate that is one to one, and onto what was wanted when all are
through. `SearchEncloses` is the invariant, `PairsOnce` is `[]EachPairOnce`.

**`Search_proofs`**, of `PairCompaction`, holds for any finite set of candidates, from
`CompactionAssumption`. Its invariant has one part per loop. While counting, the
counter is the number of iterations that are through; while claiming, the counter is the number
of claimed slots, `slot` is a bijection from the claimed candidates to the numbers below the
counter, and an entry is written exactly if its claimant is through. The size of the array is
the number of accepted candidates in a search and of all candidates in a plane check,
which bounds the counter. From it follow `TypeCorrect`, `ExclusiveSlots`, `EntriesStay` and `Refinement`: the loops implement
`PairSelection`.

**`Exchange_proofs`** holds for any number of ranks, any sequence of calls of either kind and any set of parts that
MPI buffers, from `ExchangeAssumption` (which `MCRedecomp` has TLC evaluate for its instance). Messages from `a` to `b` are
numbered in the order they are sent. `SentUpTo` and `TakenUpTo` read from the program counters of `a` and of `b` how
far each is; the invariant is that the channel holds exactly the messages between these two numbers, in order
(`ChannelsHold`), that nothing is taken before it is sent (`NothingTakenUnsent`), and that `got` and `results` hold what
arrived (`GotArrived`, `ResultsSoFar`). `ReceivesMatch` reads the head of a channel off it; `RanksOneCallApart`
follows because the last round of a call receives from every rank; `ExchangeImplementsAllToAll` maps each step to
a step of `AllToAll` or a stutter. `ExchangeNeverStuck` takes the rank that is least far, by call and round: what it
waits for was sent. It assumes that MPI buffers shapes, or that no array has one; without that (`ShapesGoAhead`) the ring does deadlock.
`RanksMeet`, these together, is `[]RoundsMeet`.

**`BisecTree_proofs`** begins with lemmas about the tree with `n` leaves, what its two users need:
powers of two (no theorem of the library is about `^`; `PowerIsCount` identifies `2^n` with the number of subsets of
`n` elements, and the rest follows), the width of a level, which nodes have a right child, that a node's
children are nodes and its root is one, and that every leaf has one ancestor per level.

**`BisecTree_proofs`**, of `Partition`, holds for any finite set of entities, at any places of the plane, any number of parts and any ghost
length, from `PartitionAssumption`. Nodes are cut in the order of the queue, so a node is `Placed` once the root
above it was cut; `PlacedBoxes` says that exactly these have boxes. `CutsKeepEntities`: the boxes of two
children lose no entity of their root's box, whatever axis was cut in the end. `WindowHolds`: below the window a cut
leaves too few entities on the left and above it too many, which is kept because counts only grow with the cut
(`CountsGrow`): too few on the left at one cut means too few at all smaller ones. With the properties themselves
these parts are inductive (`PartitionIInv`, which TLC had checked on 16,974 states). What `generatePartitioning` does with them needs the
descent of `DetermineDomain`, a recursive function: `WayExists` and `DomainHasEntity` take the least level at which it
would fail instead of an induction. `PartitionComplete` is `[]PartsAreComplete`.

**`BisecTree_proofs`**, of `SendTree`, holds for any number of ranks and any series of roots, from `SendTreeAssumption`, which
`MCRedecomp` has TLC evaluate for its instance. First the tree (`TreeCarries` to `Hears`): every node carries a rank below
it, no rank is carried twice on one level, the nodes that carry a rank are those from its leaf up to one node
(`Entry`), and the entry of any rank but the root is below a node that carries another rank, its sender. So in one call
a rank hears from one rank, once, while its senders of two calls may be the same or differ. `Passed` and `Sent`
read off a rank's call and node which letters it has sent; a letter is `Pending` until the receiver has its container.
The invariant says that between two ranks are exactly the pending letters, in the order of their calls (`LettersFit`), and
that nothing is taken before it was sent (`TakenWereSent`). Receives match sender and tag only, so `FirstLetter` is where
the protocol could go wrong: the first letter is the one of this call, because an older one would have
been taken in its own call. `TreeHolds` is the invariant (TLC had checked it on 16,062 states),
`ContainersReachAll` is `[]ContainersArrive`.

**`Redecomp_proofs`** holds for any parent mesh, any number of ranks and any partition, from `RedecompAssumption`: an
element has at least one vertex, one rank in the parent and one owner, which does not get it as a ghost. Everything in
`BuildRedecomp` is numbered in the order of arrival, so the proof is about sequences first, of any length: `AscendingIs` (a
finite set in order: each element once, though `Ascending` is defined by counting those before it), `DistinctIs`, `FirstAtIs`
and `LastAtIs`, `PrefixIs`, and `FlattenIs`, which says where each element of each part of a concatenation is, and that
there is nothing else. A recursive function is only known to be what its equation says once there is a function with that equation;
`Recursion` builds one, step by step, for these operators. `DistinctAlike` is what the two exchanges of vertices depend on:
global numbers go in one, coordinates in another, each with doubles removed from a different list (numbers in the one, local dofs
in the other), and the two agree place for place because a rank of the parent numbers each of its vertices once
(`SentIs`). The invariant `MeshIInv` says what each step has left: every source's vertices are at their numbers and every
number is one of these (`Numbered`), so it does not matter that a shared vertex is written by several sources, the last one staying
(`PutAtVertices`); elements, offsets and ghost lists are functions of what was sent (`ElementsAre`, `OffsetsOf`,
`GhostsAre`). TLC had checked it on the 1,728 states of the meshes in `redecomp`. `AnyMeshMatchesParent` is `[]MeshesMatchParent`.

Its second theorem is about fields, with any number of components (`TransferAssumption`) and of each
kind. Values travel without names: the sender lists its places and the receiver lists its own, each by its own
numbers, and the n-th value goes to the n-th place. So most of the proof is about pairs of lists that keep step. A part of a
rank's elements is what one source sent, in its order (`SourceIs` to `ReceivedAre`), and concatenations of lists that keep step
keep step (`FlattenKeeps`, by component and by dof). That is enough for elements and points, out and home
(`ElementsOutIn`, `ElementsBackHome`). Nodal lists are made by walking over elements and dropping nodes met before, on one
side by dofs of the parent, on the other by vertices of the mesh: `MetAreTogether` and `NodesAlike` say that both drop the same
ones, and that the ghost flags left with them agree (`NodesOutIn`, `NodesBackHome`). Nothing is left out: every place of a
mesh is in the list of some source, and every place of the parent has an owned element (`OwnersHave`), which keeps it in the
list home. A place is written several times, by several ranks too, and the last value stays; each of them is right, so
the last is (`WrittenIs` to `ParallelFilled`). The invariant `TransferIInv` is the mesh's, `OwnersHave`, and what the fields
hold at each stage (`FieldsBetween`); TLC had checked it on `redecomp`. `AnyFieldsArrive` is `[]FieldsArrive`.

**`MatrixTransfer_proofs`** holds for the same meshes and for the pairs that `ComputePairs` lists, in either order. A list
is known by the set it has the elements of, each once (`Lists`); what happens to lists is followed by what it does to such sets:
mapped by names that tell elements apart, cut by a test (`Taken`), joined, sorted (`Ascending`, `Sorted`). Only where two
arrays must agree place by place does the order count: sizes, dofs and values of a pair are sent in arrays of their own and
cut by each other, and the columns of a sparse row come back from the rank of the trial element in the order they were asked for.

- *Dense and flat.* A pair is sent to the rank of its test element, and to none if that is a ghost here; a parent element is
  owned by one rank, so each owned pair arrives once. From sizes, dofs and values that arrive the receiver makes
  `OwnedEntries`, each once; entries of one place are added as a bag of symbols (`SortedSumsAre`), by
  `DenseArrives` one by one, by `FlatArrives` in sorted rows, whose pointers split the sorted places (`StartsSplit`).
- *Sparse.* Rows arrive by element number (`RowsNamedAre`), in some order, and are put into rows by counting (`ByRowsAre`). The
  cells whose column is of the rank and the others split them (`SelectedAre`), numbers of elements on all ranks are apart
  (`ElemOffsetsAre`), and the column map is sorted and lists each column once (`ColumnMapIs`), so looking a column up
  and following the map gives the column again (`ColumnIs`, `OffDiagonalIs`).

The invariant `MatrixIInv` adds to `MeshIInv` that a rank sends an element to a rank once (`ListedOnce`), that
`testRank` and `trialRank` name the rank an element came from, ghosts of the test mesh excepted (`RanksKnown`), and that pairs
are listed once (`PairsListed`); TLC had checked these on `redecomp`. `AnyMatricesArrive` is `[]MatricesArrive`. For the proof,
filters are written with `Ascending` over the indices that pass, and sums as bags counted over indices, since `SelectSeq` and
`ToBag` are recursive or folds; a list is the same list.

**`MfemTribol_proofs`** holds for any schemes, triggers, LOR factors, scales, penalties and distances, from
`MfemAssumption`. `HeapInv` is the part about objects: no reference that dangles leads to the transfer data, or to
those of the submesh unless these are gone; copies come in pairs; after a decomposition every view is there and live
(`InUse`); and while neither the LOR factor nor the Lagrange options were set, the Jacobian transfer is there with the mesh.
`MotionInv` relates the coordinates at which the mesh was made, the width of its ghost layer and the trigger;
`OptionsInv` holds the copies of options. The invariant was checked by TLC on `mfem` before it was proved. The
longest lemma, `DecompositionObjects`, follows a decomposition object by object; all others say what one call frees
and makes. From it: the six invariants the run checks, and two action properties. `MissesHaveCause` (`MissesForCause`) needs
two more parts: without `setMfemLORFactor` since the mesh was made, only a thickness and a modulus refer to a LOR
mesh that is gone (`LORKept`); and with an element penalty the copy of the thickness is there, unless that penalty was asked for since
(`ThicknessCopied`). `StopsForCause` (`UpdateStopsForCause`) needs that the formulation is current, and its
exception.

**`Forces_proofs`** holds for any meshes, pairs, quadrature rules, planes, gaps and velocities, from
`MortarAssumption` and `PlaneAssumption`, which TLC evaluates for `MCForces`. Forces, gaps and matrices are sums over corners, nodes,
points and planes, and sums are folds of the library. An induction over finite sets with an operator for what is
to be shown cannot be cited, so it is stated for a *set* of good subsets (`SetInduction`), and the sums follow from it: integers,
linear, by groups (`SumOfGroups`: what the corners at a node give, over all nodes, is what all corners give), and in either order
(`SumTransposed`).

- `AnyForcesBalance`: what one pair or plane adds to all nodes cancels, because the shape functions of either face add up
  to the same; the invariant (`MortarIInv`, and `ForcesCancel` in `PlaneIInv`) is that all that was added so far does.
- `AnyGapsMatchWeights`: `GapIInv` counts the pairs that are in the gaps, and in the matrix of the weights, at each
  step of each method's loops. The gap of a corner, computed from weights, is the integral over the points by one
  exchange of sums (`GapOfCornerIs`); that the matrix times the coordinates gives it too needs that mortar and nonmortar
  nodes differ and that a row gathers the corners of a node whatever face they are of (`RowOfCorner`, `RowOfPair`).
- `AnyJacobianIsDerivative`: `JacIInv` counts, next to the pairs in the gaps, those in the forces, in the assembled matrix or
  in the stored element matrices. Two corners and a dimension have a place of their own in an element matrix, from which
  they can be read back (`IndicesOf`, `PlacesApart`), so a block holds at each place what the kernel computed for it
  (`ForceBlockAt`, `GapBlockAt`); a place in the assembled matrix gives back node and dimension by quotient and remainder
  (`PlaceOf`), so nothing lands on another's (`PairAssembled`). A row times the pressures is then the force of a pair
  (`ForceRowOfPair`), a row times the coordinates its gap (`GapRowOfPair`), and both are exchanged with the
  sum over pairs (`GatheredByRows`). Rows are read by their corners in the element form (`ElementsForce`).
- `AnyPenaltyNeverPulls`: of planes that agree on a normal, no pressure pulls (`NeverPulled`), because a plane in contact has a gap on the
  closing side and a rate adds a pressure only to what closes.
- `AnyDampingDissipates`: the work of the forces on a finite set of nodes, less the work of the springs, grows by
  minus a square or by a product that is not positive with each plane (`Dissipates`), also where planes share nodes.
- `AnyVoteLimitsGrowth`: `VoteIInv` says of each parallel plane that has voted that the step so far is short enough for it
  (`Limited`), and that a shorter step stays short enough (`ShorterLimited`), which is what makes the order of the votes
  irrelevant.

TLC had checked each of these invariants on `forces` before it was proved.

**Only model-checked.** Liveness (`AllEnd`) is out of the prover's reach. Geometry
(`PlaneFitsFaces`, `FilterAgreesWithCheck`) is nonlinear arithmetic on polygons of any length, and exact only on
the grids of the instances, where the quotients of crossings and centroids have no remainder.

## 5. Not modelled

- Floating point: roundoff, warped faces, normals of faces and nodes, inverse maps, Wachspress functions and tables of
  quadrature points. Shape functions and points are given to the kernels.
- Bounding boxes, grid cells and the BVH: what they find is assumed to hold what `geomFilter` accepts; of the BVH,
  which is axom's, the layout of its answer is assumed.
- The energies of `ENERGY_MORTAR` and their derivatives; the polygons Enzyme differentiates through.
- `registerNodalDisplacements` (no check or kernel of the legacy methods depends on its flag), `setInterfacePairs`,
  `setPenaltyScale` and the other scalars no check looks at, `sortSurfaceNodeIds`, per-scheme output and the logging
  level, which one scheme sets for the whole process.
- In Redecomp, the bounding boxes of deformed elements, the computation of the ghost length, the jump between parts and
  ranks when there are fewer parts, and finite elements of higher order. In the MFEM interface, the
  getters of matrices, `saveRedecompMesh`, and how thicknesses are measured.
- Output, test meshes, wrappers of sparse matrices and vectors, and the generated C and Fortran wrappers.

## 6. Plan

To be modelled: the option set with `VISCOUS_TANGENTIAL` in `one_scheme`, higher-order meshes in Redecomp, and the
order in which schemes that share one mesh clear each other's flags.
