------------------------------- MODULE Tribol -------------------------------
(***************************************************************************)
(* The contact library as its host drives it: two managers, of meshes and  *)
(* of coupling schemes, filled by registration calls, and tribol::update,  *)
(* which for every registered scheme checks it, searches for element pairs *)
(* (unless the pairs of an earlier update were fixed), builds the contact  *)
(* planes of those pairs, applies the physics and votes on the time step.  *)
(*                                                                         *)
(* The host owns the coordinates and moves the meshes between updates.     *)
(* Registration calls are serial and never overlap an update.  Schemes     *)
(* meet each other only through the meshes they share, the time step and   *)
(* the return code, in the order of an unordered_map.                      *)
(***************************************************************************)
EXTENDS Integers, CouplingScheme

CONSTANTS
  MeshIds, SchemeIds,
  AnyMesh,          \* ANY_MESH: accepted as a second mesh id, registered by nobody
  MeshInputs,       \* what the host may pass to registerMesh
  SchemeInputs,     \* what it may pass to registerCouplingScheme
  Uninitialised,    \* <<eval, sparse>>: contents of the options before they are set
  Args,             \* for each other call, the arguments the host may pass
  MovingMeshes,     \* meshes the host moves between updates
  Positions,        \* places they are moved to
  Reach,            \* centroid distance up to which two elements are a pair
  MaxDt             \* bound on the time step

Operations ==
  { "registerNodalVelocities", "registerNodalResponse", "registerNodalReferenceCoords",
    "registerMortarGaps", "registerMortarPressures", "kinConst", "rateConst", "ratePct",
    "viscous", "modulus", "thickness", "setPenaltyOptions", "setLagrangeMultiplierOptions",
    "enableTimestepVote", "enableEnzyme" }

MeshInput ==
  { in \in [ nelem : Nat, etype : ElementTypes, order : FaceOrders, space : BuiltSpaces,
             coords : BOOLEAN ] :
      in.etype = "TRIANGLE" => in.order = "LINEAR_LAGRANGE" }
SchemeInput ==
  [ m1 : MeshIds, m2 : MeshIds \cup {AnyMesh}, mode : Modes, case : Cases, method : Methods,
    model : Models, enf : Enforcements, binning : Binnings, given : ExecutionModes ]
PenaltyArgs ==
  [ type : {"KINEMATIC", "KINEMATIC_AND_RATE", "invalid"},
    kin  : {"KINEMATIC_CONSTANT", "KINEMATIC_ELEMENT", "invalid"},
    rate : {"NO_RATE_PENALTY", "RATE_CONSTANT", "RATE_PERCENT", "invalid"} ]

NoScheme == "no scheme"

ASSUME HostAssumption ==
  /\ AnyMesh \notin MeshIds /\ NoScheme \notin SchemeIds
  /\ MovingMeshes \subseteq MeshIds
  /\ Positions \subseteq Int /\ 0 \in Positions
  /\ Reach \in Nat /\ MaxDt \in Nat \ {0}
  /\ DOMAIN Args = Operations
  /\ \A op \in {"kinConst", "rateConst", "ratePct", "viscous", "modulus", "thickness"} :
       Args[op] \subseteq {"null", "good", "low"}
  /\ MeshInputs \subseteq MeshInput
  /\ SchemeInputs \subseteq SchemeInput
  /\ Uninitialised \subseteq EvalModes \X SparseModes
  /\ Args["setLagrangeMultiplierOptions"] \subseteq EvalModes \X SparseModes
  /\ Args["setPenaltyOptions"] \subseteq PenaltyArgs
  /\ Args["enableTimestepVote"] \subseteq BOOLEAN /\ Args["enableEnzyme"] \subseteq BOOLEAN

VARIABLES
  mesh,     \* MeshManager: registered id -> mesh record
  scheme,   \* CouplingSchemeManager: registered id -> scheme record
  fixed, binned,   \* per scheme: m_fixedBinning, m_isBinned
  pairs,    \* per scheme: m_interface_pairs
  planes,   \* per scheme: the pairs the stored contact planes point to
  pos,      \* host memory: position of each mesh
  pc,       \* where the host's thread is
  todo,     \* schemes the loop of update has not reached
  cur,      \* the scheme it is at
  dt,       \* -1, 0 (positive but below 1e-8) or the time step
  rc,       \* err_cs
  failed,   \* history: schemes whose apply failed in this update
  verdict   \* history: verdict on each scheme since the host's last call

hostVars == <<mesh, scheme, fixed, binned, pairs, planes, pos>>
vars == <<hostVars, pc, todo, cur, dt, rc, failed, verdict>>

NoVerdict == [s \in SchemeIds |-> "none"]

Init ==
  /\ mesh = [m \in {} |-> m] /\ scheme = [s \in {} |-> s]
  /\ fixed = [s \in SchemeIds |-> FALSE] /\ binned = [s \in SchemeIds |-> FALSE]
  /\ pairs = [s \in SchemeIds |-> {}] /\ planes = [s \in SchemeIds |-> {}]
  /\ pos = [m \in MeshIds |-> 0]
  /\ pc = "idle" /\ todo = {} /\ cur = NoScheme /\ dt = MaxDt /\ rc = 0
  /\ failed = {} /\ verdict = NoVerdict

-----------------------------------------------------------------------------
(***************************************************************************)
(* Registration.  DataManager::addData replaces what was there.            *)
(***************************************************************************)
Add(f, id, data) == [x \in DOMAIN f \cup {id} |-> IF x = id THEN data ELSE f[x]]

\* A call of the host: between updates, and what it changes voids earlier verdicts.
HostCall ==
  /\ pc = "idle"
  /\ verdict' = NoVerdict
  /\ UNCHANGED <<pc, todo, cur, dt, rc, failed>>

OnMesh(m, M) ==
  /\ HostCall
  /\ mesh' = [mesh EXCEPT ![m] = M]
  /\ UNCHANGED <<scheme, fixed, binned, pairs, planes, pos>>

OnScheme(s, S) ==
  /\ HostCall
  /\ scheme' = [scheme EXCEPT ![s] = S]
  /\ UNCHANGED <<mesh, fixed, binned, pairs, planes, pos>>

RegisterMesh(m, in) ==
  /\ HostCall
  /\ mesh' = Add(mesh, m, NewMesh(in))
  /\ UNCHANGED <<scheme, fixed, binned, pairs, planes, pos>>

RegisterNodalVelocities(m, ok) ==
  /\ ok \in Args["registerNodalVelocities"]
  /\ OnMesh(m, registerNodalVelocities(mesh[m], ok))

RegisterNodalResponse(m, ok) ==
  /\ ok \in Args["registerNodalResponse"]
  /\ OnMesh(m, registerNodalResponse(mesh[m], ok))

RegisterNodalReferenceCoords(m, ok) ==
  /\ ok \in Args["registerNodalReferenceCoords"]
  /\ OnMesh(m, registerNodalReferenceCoords(mesh[m]))

RegisterMortarGaps(m, ok) ==
  /\ ok \in Args["registerMortarGaps"]
  /\ OnMesh(m, registerMortarField(mesh[m], "gap", ok))

RegisterMortarPressures(m, ok) ==
  /\ ok \in Args["registerMortarPressures"]
  /\ OnMesh(m, registerMortarField(mesh[m], "pressure", ok))

\* setKinematicConstantPenalty, setRateConstantPenalty, setRatePercentPenalty,
\* setViscousDampingCoeff and the same fields through registerRealElementField.
SetScalar(m, f, value) ==
  /\ value \in Args[f]
  /\ AcceptsValue(mesh[m], value)
  /\ OnMesh(m, registerScalar(mesh[m], f, value))

RegisterModulus(m, value) ==
  /\ value \in Args["modulus"]
  /\ AcceptsValue(mesh[m], value)
  /\ OnMesh(m, registerModulus(mesh[m], value))

RegisterThickness(m, value) ==
  /\ value \in Args["thickness"]
  /\ AcceptsValue(mesh[m], value)
  /\ OnMesh(m, registerThickness(mesh[m], value))

\* The constructor aborts on a mesh id that is not registered, except ANY_MESH.
NewScheme(in, lm) ==
  [ m1 |-> in.m1, m2 |-> in.m2, mode |-> in.mode, case |-> in.case, method |-> in.method,
    model |-> in.model, enf |-> in.enf, binning |-> in.binning, given |-> in.given,
    pen |-> [type |-> "unset", kin |-> "unset", rate |-> "unset"],
    lmSet |-> FALSE, eval |-> lm[1], sparse |-> lm[2],
    enzyme |-> FALSE, vote |-> FALSE, autoCheck |-> FALSE, exec |-> "Sequential" ]

\* Mutants of RegisterCouplingScheme: the new scheme inherits the binning flag, or the
\* contact planes, of the one it replaces.
InheritsFixed(s, in, lm) ==
  /\ HostCall
  /\ in.m1 \in DOMAIN mesh /\ in.m2 \in DOMAIN mesh \cup {AnyMesh}
  /\ scheme' = Add(scheme, s, NewScheme(in, lm))
  /\ binned' = [binned EXCEPT ![s] = FALSE]
  /\ pairs' = [pairs EXCEPT ![s] = {}] /\ planes' = [planes EXCEPT ![s] = {}]
  /\ UNCHANGED <<mesh, fixed, pos>>
InheritsPlanes(s, in, lm) ==
  /\ HostCall
  /\ in.m1 \in DOMAIN mesh /\ in.m2 \in DOMAIN mesh \cup {AnyMesh}
  /\ scheme' = Add(scheme, s, NewScheme(in, lm))
  /\ fixed' = [fixed EXCEPT ![s] = FALSE] /\ binned' = [binned EXCEPT ![s] = FALSE]
  /\ pairs' = [pairs EXCEPT ![s] = {}]
  /\ UNCHANGED <<mesh, planes, pos>>

RegisterCouplingScheme(s, in, lm) ==
  /\ HostCall
  /\ in.m1 \in DOMAIN mesh /\ in.m2 \in DOMAIN mesh \cup {AnyMesh}
  /\ scheme' = Add(scheme, s, NewScheme(in, lm))
  /\ fixed' = [fixed EXCEPT ![s] = FALSE]
  /\ binned' = [binned EXCEPT ![s] = FALSE]
  /\ pairs' = [pairs EXCEPT ![s] = {}]
  /\ planes' = [planes EXCEPT ![s] = {}]
  /\ UNCHANGED <<mesh, pos>>

\* Mutant of Option: no range check.
StoredUnchecked(old, new) == new

\* Each of the three options is stored only if it is in range; "invalid" is one that is not.
Option(old, new) == IF new = "invalid" THEN old ELSE new
SetPenaltyOptions(s, o) ==
  /\ o \in Args["setPenaltyOptions"]
  /\ OnScheme(s, [scheme[s] EXCEPT !.pen = [ type |-> Option(@.type, o.type),
                                              kin  |-> Option(@.kin, o.kin),
                                              rate |-> Option(@.rate, o.rate) ]])

SetLagrangeMultiplierOptions(s, lm) ==
  /\ lm \in Args["setLagrangeMultiplierOptions"]
  /\ OnScheme(s, [scheme[s] EXCEPT !.lmSet = TRUE, !.eval = lm[1], !.sparse = lm[2]])

EnableTimestepVote(s, enable) ==
  /\ enable \in Args["enableTimestepVote"]
  /\ OnScheme(s, [scheme[s] EXCEPT !.vote = enable])

EnableEnzyme(s, use) ==
  /\ use \in Args["enableEnzyme"]
  /\ OnScheme(s, [scheme[s] EXCEPT !.enzyme = use /\ UseEnzyme])

\* The host moves a mesh; verdicts do not depend on where meshes are.
MoveMesh(m, p) ==
  /\ pc = "idle"
  /\ pos' = [pos EXCEPT ![m] = p]
  /\ UNCHANGED <<mesh, scheme, fixed, binned, pairs, planes, pc, todo, cur, dt, rc, failed, verdict>>

Finalize ==
  /\ HostCall
  /\ mesh' = [m \in {} |-> m] /\ scheme' = [s \in {} |-> s]
  /\ fixed' = [s \in SchemeIds |-> FALSE] /\ binned' = [s \in SchemeIds |-> FALSE]
  /\ pairs' = [s \in SchemeIds |-> {}] /\ planes' = [s \in SchemeIds |-> {}]
  /\ UNCHANGED pos

-----------------------------------------------------------------------------
(***************************************************************************)
(* Pair search.  Elements of a mesh stand in a row one unit apart, so that *)
(* geomFilter's distance test is on integers; the orientation and overlap  *)
(* tests are left to the contact planes.                                   *)
(***************************************************************************)
Elements(m) == 0 .. mesh[m].nelem - 1
Centroid(m, e) == pos[m] + e
SharesNode(e1, e2) == e1 - e2 \in {-1, 0, 1}
Distance(a, b) == IF a > b THEN a - b ELSE b - a

\* A conforming scheme allows one twentieth of the offset: none, on this grid.
MaxOffset(s) == IF s.mode = "SURFACE_TO_SURFACE_CONFORMING" THEN 0 ELSE Reach

geomFilter(s, p) ==
  /\ s.m1 = s.m2 => p[1] # p[2]
  /\ s.autoCheck => ~SharesNode(p[1], p[2])
  /\ Distance(Centroid(s.m1, p[1]), Centroid(s.m2, p[2])) <= MaxOffset(s)

\* All searches keep one direction of a pair when the meshes are the same.
CandidatePairs(s) ==
  {p \in Elements(s.m1) \X Elements(s.m2) : s.m1 = s.m2 => p[1] > p[2]}

HasFaceData(s) == "faceData" \in mesh[s.m1].has \cap mesh[s.m2].has

\* Without face data geomFilter reads arrays that were never allocated: any outcome.
FoundPairs(s) ==
  IF HasFaceData(s) THEN {{p \in CandidatePairs(s) : geomFilter(s, p)}}
  ELSE SUBSET CandidatePairs(s)

-----------------------------------------------------------------------------
(***************************************************************************)
(* tribol::update.                                                         *)
(***************************************************************************)
BeginUpdate(d) ==
  /\ pc = "idle"
  /\ pc' = "loop" /\ todo' = DOMAIN scheme /\ dt' = d /\ rc' = 0
  /\ UNCHANGED <<hostVars, cur, failed, verdict>>

\* CouplingScheme::init of the next scheme in the map.
ChecksOf(s) ==
  /\ pc = "loop" /\ s \in todo
  /\ todo' = todo \ {s}
  /\ scheme' = [scheme EXCEPT ![s] = SchemeAfterChecks(@, mesh)]
  /\ UNCHANGED <<fixed, binned, pairs, planes, pos, dt, rc, failed>>

CheckAborts(s) ==
  ReachesChecks(scheme[s], mesh) /\ ExecAborts(scheme[s], mesh[scheme[s].m1], mesh[scheme[s].m2])

FaceDataOf(s, mm) ==
  [m \in DOMAIN mm |-> IF m \in {s.m1, s.m2} THEN computeFaceData(mm[m]) ELSE mm[m]]

InitValid(s) ==
  /\ ChecksOf(s)
  /\ isValidCouplingScheme(scheme[s], mesh) /\ ~CheckAborts(s)
  /\ mesh' = FaceDataOf(scheme[s], MeshesAfterChecks(scheme[s], mesh))
  /\ verdict' = [verdict EXCEPT ![s] = "valid"]
  /\ pc' = "binning" /\ cur' = s

SkipInvalid(s) ==
  /\ ChecksOf(s)
  /\ ~isValidCouplingScheme(scheme[s], mesh) /\ ~CheckAborts(s)
  /\ mesh' = MeshesAfterChecks(scheme[s], mesh)
  /\ verdict' = [verdict EXCEPT ![s] = "skipped"]
  /\ UNCHANGED <<pc, cur>>

Abort ==
  /\ pc' = "aborted"
  /\ UNCHANGED <<mesh, scheme, fixed, binned, pairs, planes, pos, todo, cur, dt, rc, failed, verdict>>

AbortInInit(s) == pc = "loop" /\ s \in todo /\ CheckAborts(s) /\ Abort

\* Mutant of KeepPairs: performBinning tests m_isBinned.
KeepsBinned ==
  /\ pc = "binning" /\ binned[cur]
  /\ pc' = "apply"
  /\ UNCHANGED <<hostVars, todo, cur, dt, rc, failed, verdict>>

\* CouplingScheme::performBinning.
KeepPairs ==
  /\ pc = "binning" /\ fixed[cur]
  /\ pc' = "apply"
  /\ UNCHANGED <<hostVars, todo, cur, dt, rc, failed, verdict>>

BinningAfter(s) == IF isOnDevice(s.exec) /\ s.binning = "GRID" THEN "BVH" ELSE s.binning
FixedAfter(s) == s.binning = "CARTESIAN_PRODUCT" \/ s.case = "NO_SLIDING"

\* Mutant of FindPairs: a search in every update.
FindsAgain ==
  /\ pc = "binning"
  /\ \E P \in FoundPairs(scheme[cur]) : pairs' = [pairs EXCEPT ![cur] = P]
  /\ scheme' = [scheme EXCEPT ![cur].binning = BinningAfter(scheme[cur])]
  /\ binned' = [binned EXCEPT ![cur] = TRUE]
  /\ fixed' = [fixed EXCEPT ![cur] = FixedAfter(scheme[cur])]
  /\ pc' = "apply"
  /\ UNCHANGED <<mesh, planes, pos, todo, cur, dt, rc, failed, verdict>>

FindPairs ==
  /\ pc = "binning" /\ ~fixed[cur]
  /\ \E P \in FoundPairs(scheme[cur]) : pairs' = [pairs EXCEPT ![cur] = P]
  /\ scheme' = [scheme EXCEPT ![cur].binning = BinningAfter(scheme[cur])]
  /\ binned' = [binned EXCEPT ![cur] = TRUE]
  /\ fixed' = [fixed EXCEPT ![cur] = FixedAfter(scheme[cur])]
  /\ pc' = "apply"
  /\ UNCHANGED <<mesh, planes, pos, todo, cur, dt, rc, failed, verdict>>

\* Mutant of computeTimeStep: a vote is not compared with the votes before it.
LastVoteWins(s) ==
  IF VotesOnTimestep(s, mesh[s.m1], mesh[s.m2]) THEN 0 .. MaxDt ELSE {dt}

\* Mutant of computeTimeStep: velocities are asked for only where the vote is enabled.
AsksOnlyVoters(s) ==
  LET M1 == mesh[s.m1]
      M2 == mesh[s.m2]
  IN IF dt < 1 \/ ~s.vote THEN {dt}
     ELSE IF "velView" \notin M1.has \cap M2.has THEN IF nullMeshes(M1, M2) THEN {dt} ELSE {-1}
     ELSE IF VotesOnTimestep(s, M1, M2) THEN 0 .. dt ELSE {dt}

\* CouplingScheme::computeTimeStep; 0 stands for a positive step below its threshold.
computeTimeStep(s) ==
  LET M1 == mesh[s.m1]
      M2 == mesh[s.m2]
  IN IF dt < 1 THEN {dt}
     ELSE IF "velView" \notin M1.has \cap M2.has THEN IF nullMeshes(M1, M2) THEN {dt} ELSE {-1}
     ELSE IF VotesOnTimestep(s, M1, M2) THEN 0 .. dt ELSE {dt}

\* Contact planes exist for the four legacy methods only.
PlanePairs(s) == IF scheme[s].method = "ENERGY_MORTAR" THEN {} ELSE pairs[s]

\* Mutant of Apply: a scheme without contact planes votes too.
VotesWithoutPlanes(P) ==
  LET s == scheme[cur]
      err == PhysicsFails(s)
  IN /\ pc = "apply" /\ P \subseteq PlanePairs(cur)
     /\ ~KernelAborts(s, mesh[s.m2], P)
     /\ planes' = [planes EXCEPT ![cur] = P]
     /\ dt' \in IF err THEN {dt} ELSE computeTimeStep(s)
     /\ rc' = IF err THEN 1 ELSE 0
     /\ failed' = IF err THEN failed \cup {cur} ELSE failed
     /\ pc' = "loop" /\ cur' = NoScheme
     /\ UNCHANGED <<mesh, scheme, fixed, binned, pairs, pos, todo, verdict>>

\* CouplingScheme::apply: some of the pairs, as the geometry has it, become planes.
Apply(P) ==
  LET s == scheme[cur]
      err == PhysicsFails(s)
  IN /\ pc = "apply" /\ P \subseteq PlanePairs(cur)
     /\ ~KernelAborts(s, mesh[s.m2], P)
     /\ planes' = [planes EXCEPT ![cur] = P]
     /\ dt' \in IF err \/ P = {} THEN {dt} ELSE computeTimeStep(s)
     /\ rc' = IF err THEN 1 ELSE 0
     /\ failed' = IF err THEN failed \cup {cur} ELSE failed
     /\ pc' = "loop" /\ cur' = NoScheme
     /\ UNCHANGED <<mesh, scheme, fixed, binned, pairs, pos, todo, verdict>>

AbortInApply(P) ==
  /\ pc = "apply" /\ P \subseteq PlanePairs(cur)
  /\ KernelAborts(scheme[cur], mesh[scheme[cur].m2], P)
  /\ Abort

\* dt and rc go to the host, which passes a step of its own to the next update.
EndUpdate ==
  /\ pc = "loop" /\ todo = {}
  /\ pc' = "idle" /\ dt' = MaxDt /\ rc' = 0 /\ failed' = {}
  /\ UNCHANGED <<hostVars, todo, cur, verdict>>

\* The process is gone.
Aborted == pc = "aborted" /\ UNCHANGED vars

-----------------------------------------------------------------------------
Registration ==
  \/ \E m \in MeshIds, in \in MeshInputs : RegisterMesh(m, in)
  \/ \E m \in DOMAIN mesh, ok \in BOOLEAN :
       \/ RegisterNodalVelocities(m, ok)
       \/ RegisterNodalResponse(m, ok)
       \/ RegisterNodalReferenceCoords(m, ok)
       \/ RegisterMortarGaps(m, ok)
       \/ RegisterMortarPressures(m, ok)
  \/ \E m \in DOMAIN mesh, value \in {"null", "good", "low"} :
       \/ \E f \in ScalarFields : SetScalar(m, f, value)
       \/ RegisterModulus(m, value)
       \/ RegisterThickness(m, value)
  \/ \E s \in SchemeIds, in \in SchemeInputs, lm \in Uninitialised : RegisterCouplingScheme(s, in, lm)
  \/ \E s \in DOMAIN scheme :
       \/ \E o \in Args["setPenaltyOptions"] : SetPenaltyOptions(s, o)
       \/ \E lm \in Args["setLagrangeMultiplierOptions"] : SetLagrangeMultiplierOptions(s, lm)
       \/ \E b \in BOOLEAN : EnableTimestepVote(s, b) \/ EnableEnzyme(s, b)
  \/ \E m \in MovingMeshes, p \in Positions : MoveMesh(m, p)
  \/ Finalize

Update ==
  \/ \E s \in todo : InitValid(s) \/ SkipInvalid(s) \/ AbortInInit(s)
  \/ KeepPairs \/ FindPairs
  \/ pc = "apply" /\ \E P \in SUBSET PlanePairs(cur) : Apply(P) \/ AbortInApply(P)
  \/ EndUpdate

Next ==
  \/ Registration
  \/ \E d \in 0 .. MaxDt : BeginUpdate(d)
  \/ Update
  \/ Aborted

Spec == Init /\ [][Next]_vars

-----------------------------------------------------------------------------
(***************************************************************************)
(* Types.                                                                  *)
(***************************************************************************)
SchemeRecord ==
  [ m1 : MeshIds, m2 : MeshIds \cup {AnyMesh}, mode : Modes, case : Cases, method : Methods,
    model : Models, enf : Enforcements, binning : Binnings, given : ExecutionModes,
    pen : PenaltyOptions, lmSet : BOOLEAN, eval : EvalModes, sparse : SparseModes,
    enzyme : BOOLEAN, vote : BOOLEAN, autoCheck : BOOLEAN, exec : ExecutionModes ]

\* Every variable holds a value of its type; the scheme update works on is registered.
TypeOK ==
  /\ DOMAIN mesh \subseteq MeshIds /\ mesh \in [DOMAIN mesh -> MeshRecord]
  /\ DOMAIN scheme \subseteq SchemeIds /\ scheme \in [DOMAIN scheme -> SchemeRecord]
  /\ fixed \in [SchemeIds -> BOOLEAN] /\ binned \in [SchemeIds -> BOOLEAN]
  /\ pairs \in [SchemeIds -> SUBSET (Int \X Int)] /\ planes \in [SchemeIds -> SUBSET (Int \X Int)]
  /\ pos \in [MeshIds -> Int]
  /\ pc \in {"idle", "loop", "binning", "apply", "aborted"}
  /\ todo \subseteq DOMAIN scheme
  /\ cur \in DOMAIN scheme \cup {NoScheme}
  /\ pc \in {"binning", "apply"} => cur \in DOMAIN scheme
  /\ dt \in -1 .. MaxDt /\ rc \in {0, 1}
  /\ failed \subseteq SchemeIds
  /\ verdict \in [SchemeIds -> {"none", "valid", "skipped"}]

-----------------------------------------------------------------------------
(***************************************************************************)
(* What an applied scheme can rely on.                                     *)
(***************************************************************************)
InScheme == pc \in {"binning", "apply"}
SideOf(s, i) == mesh[IF i = 1 THEN s.m1 ELSE s.m2]
Covered(s, reads) == \A r \in reads : r[2] \in SideOf(s, r[1]).has

\* Pairs of elements that the meshes have; fixed pairs may be of others.
ExistingPairs(s) ==
  {p \in PlanePairs(s) : p[1] \in Elements(scheme[s].m1) /\ p[2] \in Elements(scheme[s].m2)}

\* When update reaches the physics of a scheme that has pairs of elements, everything
\* the kernels it dispatches to will read of them has been registered, whatever other
\* schemes did to the meshes since the checks of this one and whatever the checks rewrote.
KernelDataRegistered ==
  pc = "apply" /\ ExistingPairs(cur) # {} => Covered(scheme[cur], KernelReads(scheme[cur]))

\* The checks let through only combinations that ApplyInterfacePhysics implements:
\* a valid scheme with elements on both sides reaches a kernel, unless the host
\* asked for no model.
AcceptedSchemesDispatch ==
  InScheme => LET s == scheme[cur]
              IN \/ Kernels(s) # {}
                 \/ s.model = "NULL_MODEL"
                 \/ nullMeshes(mesh[s.m1], mesh[s.m2])

\* A scheme is searched and applied only with two valid meshes of one element type
\* and one memory space, in a mode the build has, and on the host unless the method
\* is COMMON_PLANE; the grid search never meets device memory.
AppliedOnMatchingMeshes ==
  InScheme =>
    LET s == scheme[cur]
        M1 == mesh[s.m1]
        M2 == mesh[s.m2]
    IN /\ M1.valid /\ M2.valid
       /\ M1.etype = M2.etype /\ M1.space = M2.space
       /\ s.exec \in BuiltModes
       /\ s.method # "COMMON_PLANE" => s.exec = "Sequential"
       /\ pc = "apply" /\ ~fixed[cur] => ~(s.binning = "GRID" /\ isOnDevice(s.exec))

Shares(s, t) == {scheme[s].m1, scheme[s].m2} \cap {scheme[t].m1, scheme[t].m2} # {}
Unshared(s) == \A t \in DOMAIN scheme \ {s} : ~Shares(s, t)

\* Checking a scheme rewrites the scheme and flags of its meshes, and yet the verdict
\* it gives is the verdict of every later update until the host registers something,
\* unless another scheme uses one of the meshes.
VerdictStable ==
  [][\A s \in DOMAIN scheme :
       Unshared(s) /\ verdict[s] # "none" => verdict'[s] \in {verdict[s], "none"}]_vars

-----------------------------------------------------------------------------
(***************************************************************************)
(* Pairs and contact planes.                                               *)
(***************************************************************************)
\* A stored contact plane points to an entry of the pair array it was built from,
\* except between the search that replaced the array and the physics that follows.
PlanesBackedByPairs ==
  \A s \in SchemeIds : (pc \in {"apply", "aborted"} /\ s = cur) \/ planes[s] \subseteq pairs[s]

\* Pairs are fixed only by a search that ran, for a Cartesian product or a case
\* without sliding; no later update undoes either reason.
FixedBinningJustified ==
  \A s \in SchemeIds : fixed[s] =>
    /\ binned[s]
    /\ s \in DOMAIN scheme
    /\ scheme[s].binning = "CARTESIAN_PRODUCT" \/ scheme[s].case = "NO_SLIDING"

\* Once fixed, the pairs of a scheme stay what that search found until the host
\* registers the scheme anew or finalizes, whatever it does to the meshes.
FixedPairsFrozen ==
  [][\A s \in SchemeIds : fixed[s] => pairs'[s] = pairs[s] \/ ~fixed'[s]]_vars

PairsInRange(s) ==
  \A p \in pairs[s] : p[1] \in Elements(scheme[s].m1) /\ p[2] \in Elements(scheme[s].m2)

\* A scheme that searches in every update checks for contact only pairs of elements
\* its meshes have, whatever the host did to the meshes after the last search.
RefreshedPairsInRange ==
  pc = "apply" /\ ~FixedAfter(scheme[cur]) => PairsInRange(cur)

-----------------------------------------------------------------------------
(***************************************************************************)
(* The time step, the return code and the loop.                            *)
(***************************************************************************)
\* Within an update the time step never grows, and -1 or a step too small for a
\* vote is what the host gets, whichever schemes are applied after.
VotesOnlyShrink ==
  [][pc # "idle" /\ pc' # "idle" => IF dt < 1 THEN dt' = dt ELSE dt' <= dt]_vars

\* The time step -1 comes from a scheme of this update with contact planes between two
\* meshes with elements, one of them without velocities.
MinusOneHasCause ==
  pc # "idle" /\ dt = -1 =>
    \E s \in DOMAIN scheme \ todo :
      /\ planes[s] # {}
      /\ \E i \in {1, 2} : "velView" \notin SideOf(scheme[s], i).has
      /\ ~nullMeshes(SideOf(scheme[s], 1), SideOf(scheme[s], 2))

\* The host gets a time step above the threshold only if no scheme applied in this update has contact planes between
\* two meshes with elements, one of them without velocities, whether it votes or not and whatever is applied after it.
StepNeedsVelocities ==
  pc # "idle" /\ dt >= 1 =>
    \A s \in DOMAIN scheme \ (todo \cup failed \cup {cur}) :
      verdict[s] = "valid" /\ planes[s] # {} =>
        \/ \A i \in {1, 2} : "velView" \in SideOf(scheme[s], i).has
        \/ nullMeshes(SideOf(scheme[s], 1), SideOf(scheme[s], 2))
=============================================================================
