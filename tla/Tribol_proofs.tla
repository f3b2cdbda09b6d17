---------------------------- MODULE Tribol_proofs ----------------------------
(***************************************************************************)
(* For any meshes, schemes and builds: the types of module Tribol, what a  *)
(* scheme with fixed pairs can rely on, what contact planes point to, what *)
(* the checks of a scheme establish for its kernels, why a verdict lasts,  *)
(* where the time step -1 comes from and what a larger one says.           *)
(***************************************************************************)
EXTENDS Tribol, TLAPS

-----------------------------------------------------------------------------
(* Mesh records stay mesh records. *)
LEMMA MeshOps ==
  ASSUME NEW M \in MeshRecord
  PROVE  /\ \A F \in SUBSET MeshFields : Put(M, F) \in MeshRecord /\ Drop(M, F) \in MeshRecord
         /\ \A f \in CheckedValues : \A v : Value(M, f, v) \in MeshRecord
         /\ [M EXCEPT !.valid = FALSE] \in MeshRecord
BY DEF MeshRecord, Put, Drop, Value

LEMMA NewMeshType == ASSUME NEW in \in MeshInputs PROVE NewMesh(in) \in MeshRecord
<1>1. in \in [ nelem : Nat, etype : ElementTypes, order : FaceOrders, space : BuiltSpaces,
               coords : BOOLEAN ]
  BY HostAssumption DEF MeshInput
<1>2. BuiltSpaces \subseteq MemorySpaces
  BY DEF BuiltSpaces, MemorySpaces
<1> QED BY <1>1, <1>2 DEF NewMesh, MeshRecord, CheckedValues

LEMMA MeshUpdates ==
  ASSUME NEW M \in MeshRecord, NEW ok \in BOOLEAN, NEW value
  PROVE  /\ registerNodalVelocities(M, ok) \in MeshRecord
         /\ registerNodalResponse(M, ok) \in MeshRecord
         /\ registerNodalReferenceCoords(M) \in MeshRecord
         /\ registerMortarField(M, "gap", ok) \in MeshRecord
         /\ registerMortarField(M, "pressure", ok) \in MeshRecord
         /\ \A f \in ScalarFields : registerScalar(M, f, value) \in MeshRecord
         /\ registerModulus(M, value) \in MeshRecord
         /\ registerThickness(M, value) \in MeshRecord
         /\ computeFaceData(M) \in MeshRecord
         /\ \A p : afterPenaltyCheck(M, p) \in MeshRecord
<1>1. /\ {{"velocity"}, {"velView"}, {"velocity", "velView"}, {"response"}, {"refPosition"},
          {"gap"}, {"pressure"}, {"modulusArray"}, {"thicknessArray"}, {"kinElem"},
          {"thickness"}, {"kinElem", "thickness"}, {"thickness"} \cup {}, {"faceData"}, {},
          {"thickness", "thicknessArray"}, {"rateConst"}, {"ratePct"}}
           \subseteq SUBSET MeshFields
      /\ {"modulusArray", "thicknessArray"} \subseteq CheckedValues
      /\ \A f \in ScalarFields : {f} \in SUBSET MeshFields
  BY DEF MeshFields, ScalarFields, NodalFields, ElementFlags, ElementArrays, CheckedValues
<1>2. registerNodalVelocities(M, ok) \in MeshRecord
  BY <1>1, MeshOps DEF registerNodalVelocities
<1>3. registerNodalResponse(M, ok) \in MeshRecord /\ registerNodalReferenceCoords(M) \in MeshRecord
  BY <1>1, MeshOps DEF registerNodalResponse, registerNodalReferenceCoords
<1>4. /\ registerMortarField(M, "gap", ok) \in MeshRecord
      /\ registerMortarField(M, "pressure", ok) \in MeshRecord
  BY <1>1, MeshOps DEF registerMortarField
<1>5. ASSUME NEW f \in ScalarFields PROVE registerScalar(M, f, value) \in MeshRecord
  <2>1. Put(M, {f}) \in MeshRecord
    BY <1>1, MeshOps
  <2>2. f \in CheckedValues => Value(Put(M, {f}), f, value) \in MeshRecord
    BY <2>1, MeshOps
  <2> QED BY <2>1, <2>2 DEF registerScalar
<1>6. registerModulus(M, value) \in MeshRecord
  <2> DEFINE A == Put(Value(M, "modulusArray", value), IF IsNull(M) THEN {} ELSE {"modulusArray"})
  <2>1. Value(M, "modulusArray", value) \in MeshRecord
    BY <1>1, MeshOps
  <2>2. A \in MeshRecord
    BY <1>1, <2>1, MeshOps
  <2>3. Put(A, {"kinElem"}) \in MeshRecord /\ Put(M, {"kinElem"}) \in MeshRecord
    BY <1>1, <2>2, MeshOps
  <2> QED BY <2>2, <2>3 DEF registerModulus
<1>7. registerThickness(M, value) \in MeshRecord
  <2> DEFINE A == Put(Value(M, "thicknessArray", value),
                      {"thickness"} \cup IF IsNull(M) THEN {} ELSE {"thicknessArray"})
  <2>1. Value(M, "thicknessArray", value) \in MeshRecord
    BY <1>1, MeshOps
  <2>2. {"thickness"} \cup (IF IsNull(M) THEN {} ELSE {"thicknessArray"}) \in SUBSET MeshFields
    BY <1>1
  <2>3. A \in MeshRecord
    BY <2>1, <2>2, MeshOps
  <2>4. Put(A, {"kinElem"}) \in MeshRecord /\ Put(M, {"kinElem", "thickness"}) \in MeshRecord
    BY <1>1, <2>3, MeshOps
  <2> QED BY <2>3, <2>4 DEF registerThickness
<1>8. computeFaceData(M) \in MeshRecord
  BY <1>1, MeshOps DEF computeFaceData
<1>9. \A p : afterPenaltyCheck(M, p) \in MeshRecord
  BY <1>1, MeshOps DEF afterPenaltyCheck, ClearRateFlag
<1> QED BY <1>2, <1>3, <1>4, <1>5, <1>6, <1>7, <1>8, <1>9

-----------------------------------------------------------------------------
(* The checks of a scheme leave a scheme and meshes. *)
LEMMA ChecksKeepMeshes ==
  ASSUME NEW s \in SchemeRecord, NEW mm, mm \in [DOMAIN mm -> MeshRecord]
  PROVE  MeshesAfterChecks(s, mm) \in [DOMAIN mm -> MeshRecord]
<1>1. ASSUME {s.m1, s.m2} \subseteq DOMAIN mm
      PROVE  PenaltyChecked(s, mm) \in [DOMAIN mm -> MeshRecord]
  BY <1>1, MeshUpdates DEF PenaltyChecked
<1>2. ASSUME NEW m2 \in [DOMAIN mm -> MeshRecord], {s.m1, s.m2} \subseteq DOMAIN mm
      PROVE  Invalidated(s, m2) \in [DOMAIN mm -> MeshRecord]
  BY <1>2, MeshOps DEF Invalidated
<1> QED BY <1>1, <1>2 DEF MeshesAfterChecks

LEMMA ChecksKeepScheme ==
  ASSUME NEW s \in SchemeRecord, NEW mm, mm \in [DOMAIN mm -> MeshRecord]
  PROVE  SchemeAfterChecks(s, mm) \in SchemeRecord
<1>1. RepairedCase(s) \in Cases
  BY DEF RepairedCase, SchemeRecord, Cases
<1>2. AutoCheckAfter(s) \in BOOLEAN
  BY DEF AutoCheckAfter, SchemeRecord
<1>3. ASSUME NEW M1 \in MeshRecord, NEW M2
      PROVE  checkExecutionMode(s, M1, M2).exec \in ExecutionModes
  <2>1. ExecFor(s, M1.space) \in ExecutionModes
    BY BuildAssumption
    DEF ExecFor, SchemeRecord, MeshRecord, MemorySpaces, ExecutionModes, BuiltModes
  <2>2. "Sequential" \in ExecutionModes
    BY DEF ExecutionModes, BuiltModes
  <2> QED BY <2>1, <2>2 DEF checkExecutionMode
<1>4. ASSUME NEW M1 \in MeshRecord, NEW M2 PROVE CheckedScheme(s, M1, M2) \in SchemeRecord
  BY <1>1, <1>2, <1>3 DEF CheckedScheme, SchemeRecord, Enforcements, EvalModes
<1> QED BY <1>4 DEF SchemeAfterChecks, ReachesChecks

-----------------------------------------------------------------------------
(***************************************************************************)
(* The inductive invariant.  To the types it adds where the loop variables *)
(* are between updates, when the host may empty the scheme manager under   *)
(* them, and the two facts about fixed pairs and contact planes: a scheme  *)
(* keeps its reason for fixed pairs because no check takes NO_SLIDING      *)
(* back, and planes are built after the pairs they point to.               *)
(***************************************************************************)
LoopVariables ==
  /\ pc = "idle" => todo = {}
  /\ pc \in {"idle", "loop"} => cur = NoScheme

IInv == TypeOK /\ LoopVariables /\ FixedBinningJustified /\ PlanesBackedByPairs

LEMMA InitIInv == Init => IInv
BY HostAssumption DEF Init, IInv, TypeOK, LoopVariables, FixedBinningJustified,
   PlanesBackedByPairs, NoVerdict

\* A host call that changes one mesh.
LEMMA MeshCall ==
  ASSUME IInv, NEW m \in DOMAIN mesh, NEW M \in MeshRecord, OnMesh(m, M)
  PROVE  IInv'
BY DEF OnMesh, HostCall, IInv, TypeOK, LoopVariables, FixedBinningJustified,
   PlanesBackedByPairs, NoVerdict

\* A host call that changes one scheme, but neither its case nor its binning.
LEMMA SchemeCall ==
  ASSUME IInv, NEW s \in DOMAIN scheme, NEW S \in SchemeRecord, OnScheme(s, S),
         S.case = scheme[s].case, S.binning = scheme[s].binning
  PROVE  IInv'
<1>1. TypeOK' /\ LoopVariables'
  BY DEF OnScheme, HostCall, IInv, TypeOK, LoopVariables, NoVerdict
<1>2. FixedBinningJustified' /\ PlanesBackedByPairs'
  BY DEF OnScheme, HostCall, IInv, TypeOK, FixedBinningJustified, PlanesBackedByPairs
<1> QED BY <1>1, <1>2 DEF IInv

LEMMA RegistrationStep == ASSUME IInv, Registration PROVE IInv'
<1>1. \A m \in DOMAIN mesh : mesh[m] \in MeshRecord
  BY DEF IInv, TypeOK
<1>2. \A s \in DOMAIN scheme : scheme[s] \in SchemeRecord
  BY DEF IInv, TypeOK
<1>3. ASSUME NEW m \in MeshIds, NEW in \in MeshInputs, RegisterMesh(m, in) PROVE IInv'
  BY <1>3, NewMeshType DEF RegisterMesh, Add, HostCall, IInv, TypeOK, LoopVariables,
     FixedBinningJustified, PlanesBackedByPairs, NoVerdict
<1>4. ASSUME NEW m \in DOMAIN mesh, NEW ok \in BOOLEAN,
             \/ RegisterNodalVelocities(m, ok) \/ RegisterNodalResponse(m, ok)
             \/ RegisterNodalReferenceCoords(m, ok)
             \/ RegisterMortarGaps(m, ok) \/ RegisterMortarPressures(m, ok)
      PROVE  IInv'
  <2>1. PICK M \in MeshRecord : OnMesh(m, M)
    BY <1>1, <1>4, MeshUpdates DEF RegisterNodalVelocities, RegisterNodalResponse,
       RegisterNodalReferenceCoords, RegisterMortarGaps, RegisterMortarPressures
  <2> QED BY <2>1, MeshCall
<1>5. ASSUME NEW m \in DOMAIN mesh, NEW value \in {"null", "good", "low"},
             \/ \E f \in ScalarFields : SetScalar(m, f, value)
             \/ RegisterModulus(m, value) \/ RegisterThickness(m, value)
      PROVE  IInv'
  <2>1. PICK M \in MeshRecord : OnMesh(m, M)
    BY <1>1, <1>5, MeshUpdates DEF SetScalar, RegisterModulus, RegisterThickness
  <2> QED BY <2>1, MeshCall
<1>6. ASSUME NEW s \in SchemeIds, NEW in \in SchemeInputs, NEW lm \in Uninitialised,
             RegisterCouplingScheme(s, in, lm)
      PROVE  IInv'
  <2>1. NewScheme(in, lm) \in SchemeRecord
    BY HostAssumption DEF NewScheme, SchemeInput, SchemeRecord, PenaltyOptions, ExecutionModes,
       BuiltModes
  <2>2. TypeOK' /\ LoopVariables'
    BY <1>6, <2>1
    DEF RegisterCouplingScheme, Add, HostCall, IInv, TypeOK, LoopVariables, NoVerdict
  <2>3. FixedBinningJustified' /\ PlanesBackedByPairs'
    BY <1>6 DEF RegisterCouplingScheme, Add, HostCall, IInv, TypeOK, FixedBinningJustified,
       PlanesBackedByPairs
  <2> QED BY <2>2, <2>3 DEF IInv
<1>7. ASSUME NEW s \in DOMAIN scheme,
             \/ \E o \in Args["setPenaltyOptions"] : SetPenaltyOptions(s, o)
             \/ \E lm \in Args["setLagrangeMultiplierOptions"] : SetLagrangeMultiplierOptions(s, lm)
             \/ \E b \in BOOLEAN : EnableTimestepVote(s, b) \/ EnableEnzyme(s, b)
      PROVE  IInv'
  <2>1. ASSUME NEW o \in Args["setPenaltyOptions"], SetPenaltyOptions(s, o)
        PROVE  \E S \in SchemeRecord : /\ OnScheme(s, S)
                                       /\ S.case = scheme[s].case /\ S.binning = scheme[s].binning
    <3>1. o \in PenaltyArgs
      BY HostAssumption
    <3>2. [ type |-> Option(scheme[s].pen.type, o.type), kin |-> Option(scheme[s].pen.kin, o.kin),
            rate |-> Option(scheme[s].pen.rate, o.rate) ] \in PenaltyOptions
      BY <1>2, <3>1 DEF SchemeRecord, PenaltyOptions, PenaltyArgs, Option
    <3> QED BY <1>2, <2>1, <3>2 DEF SetPenaltyOptions, SchemeRecord
  <2>2. ASSUME NEW lm \in Args["setLagrangeMultiplierOptions"], SetLagrangeMultiplierOptions(s, lm)
        PROVE  \E S \in SchemeRecord : /\ OnScheme(s, S)
                                       /\ S.case = scheme[s].case /\ S.binning = scheme[s].binning
    <3>1. lm \in EvalModes \X SparseModes
      BY HostAssumption
    <3>2. lm[1] \in EvalModes /\ lm[2] \in SparseModes
      BY <3>1
    <3> DEFINE S == [scheme[s] EXCEPT !.lmSet = TRUE, !.eval = lm[1], !.sparse = lm[2]]
    <3>3. S \in SchemeRecord /\ S.case = scheme[s].case /\ S.binning = scheme[s].binning
      BY <1>2, <3>2 DEF SchemeRecord
    <3>4. OnScheme(s, S)
      BY <2>2 DEF SetLagrangeMultiplierOptions
    <3> QED BY <3>3, <3>4
  <2>3. ASSUME NEW b \in BOOLEAN, EnableTimestepVote(s, b) \/ EnableEnzyme(s, b)
        PROVE  \E S \in SchemeRecord : /\ OnScheme(s, S)
                                       /\ S.case = scheme[s].case /\ S.binning = scheme[s].binning
    BY <1>2, <2>3, BuildAssumption DEF EnableTimestepVote, EnableEnzyme, SchemeRecord
  <2> QED BY <1>7, <2>1, <2>2, <2>3, SchemeCall
<1>8. ASSUME NEW m \in MovingMeshes, NEW p \in Positions, MoveMesh(m, p) PROVE IInv'
  BY <1>8, HostAssumption DEF MoveMesh, IInv, TypeOK, LoopVariables, FixedBinningJustified,
     PlanesBackedByPairs
<1>9. ASSUME Finalize PROVE IInv'
  BY <1>9 DEF Finalize, HostCall, IInv, TypeOK, LoopVariables, FixedBinningJustified,
     PlanesBackedByPairs, NoVerdict
<1> QED BY <1>3, <1>4, <1>5, <1>6, <1>7, <1>8, <1>9 DEF Registration

-----------------------------------------------------------------------------
\* The checks never take away the reason for which pairs were fixed.
LEMMA ChecksKeepReason ==
  ASSUME NEW s \in SchemeRecord, NEW mm
  PROVE  LET t == SchemeAfterChecks(s, mm)
         IN  t.binning = s.binning /\ (s.case = "NO_SLIDING" => t.case = "NO_SLIDING")
BY DEF SchemeAfterChecks, CheckedScheme, RepairedCase, SchemeRecord

LEMMA ChecksStep ==
  ASSUME IInv, NEW s \in todo, ChecksOf(s),
         mesh' \in [DOMAIN mesh -> MeshRecord], DOMAIN mesh' = DOMAIN mesh
  PROVE  /\ DOMAIN mesh' \subseteq MeshIds /\ mesh' \in [DOMAIN mesh' -> MeshRecord]
         /\ DOMAIN scheme' = DOMAIN scheme /\ scheme' \in [DOMAIN scheme' -> SchemeRecord]
         /\ FixedBinningJustified'
         /\ \A t \in SchemeIds : planes'[t] \subseteq pairs'[t]
<1>1. s \in DOMAIN scheme /\ scheme[s] \in SchemeRecord
  BY DEF IInv, TypeOK
<1>2. SchemeAfterChecks(scheme[s], mesh) \in SchemeRecord
  BY <1>1, ChecksKeepScheme DEF IInv, TypeOK
<1>3. FixedBinningJustified'
  BY <1>1, ChecksKeepReason DEF ChecksOf, IInv, TypeOK, FixedBinningJustified
<1>4. \A t \in SchemeIds : planes'[t] \subseteq pairs'[t]
  BY DEF ChecksOf, IInv, PlanesBackedByPairs
<1> QED BY <1>1, <1>2, <1>3, <1>4 DEF ChecksOf, IInv, TypeOK

LEMMA InitStep == ASSUME IInv, NEW s \in todo, InitValid(s) \/ SkipInvalid(s) PROVE IInv'
<1>1. s \in DOMAIN scheme /\ scheme[s] \in SchemeRecord /\ s \in SchemeIds
  BY DEF IInv, TypeOK
<1>2. MeshesAfterChecks(scheme[s], mesh) \in [DOMAIN mesh -> MeshRecord]
  BY <1>1, ChecksKeepMeshes DEF IInv, TypeOK
<1>3. mesh' \in [DOMAIN mesh -> MeshRecord] /\ DOMAIN mesh' = DOMAIN mesh
  <2> DEFINE mm == MeshesAfterChecks(scheme[s], mesh)
  <2>1. DOMAIN mm = DOMAIN mesh /\ \A m \in DOMAIN mm : mm[m] \in MeshRecord
    BY <1>2
  <2>2. \A m \in DOMAIN mm : computeFaceData(mm[m]) \in MeshRecord
    BY <2>1, MeshUpdates
  <2>3. /\ FaceDataOf(scheme[s], mm) \in [DOMAIN mesh -> MeshRecord]
        /\ DOMAIN FaceDataOf(scheme[s], mm) = DOMAIN mesh
    BY <2>1, <2>2 DEF FaceDataOf
  <2>4. mesh' = mm \/ mesh' = FaceDataOf(scheme[s], mm)
    BY DEF InitValid, SkipInvalid
  <2> QED BY <1>2, <2>1, <2>3, <2>4
<1>4. ChecksOf(s)
  BY DEF InitValid, SkipInvalid
<1>5. CASE InitValid(s)
  BY <1>1, <1>3, <1>4, <1>5, ChecksStep DEF InitValid, ChecksOf, IInv, TypeOK, LoopVariables,
     PlanesBackedByPairs
<1>6. CASE SkipInvalid(s)
  BY <1>1, <1>3, <1>4, <1>6, ChecksStep DEF SkipInvalid, ChecksOf, IInv, TypeOK, LoopVariables,
     PlanesBackedByPairs
<1> QED BY <1>5, <1>6

LEMMA FindPairsStep == ASSUME IInv, FindPairs PROVE IInv'
<1> USE DEF FindPairs
<1>1. cur \in DOMAIN scheme /\ scheme[cur] \in SchemeRecord /\ cur \in SchemeIds
  BY DEF IInv, TypeOK
<1>2. PICK P \in FoundPairs(scheme[cur]) : pairs' = [pairs EXCEPT ![cur] = P]
  OBVIOUS
<1>3. P \in SUBSET (Int \X Int)
  BY <1>2 DEF FoundPairs, CandidatePairs, Elements
<1>4. BinningAfter(scheme[cur]) \in Binnings
  BY <1>1 DEF BinningAfter, SchemeRecord, Binnings
<1>5. FixedAfter(scheme[cur]) \in BOOLEAN
  BY DEF FixedAfter
<1>6. TypeOK' /\ LoopVariables'
  BY <1>1, <1>2, <1>3, <1>4, <1>5 DEF IInv, TypeOK, LoopVariables, SchemeRecord
<1>7. FixedBinningJustified'
  BY <1>1 DEF IInv, TypeOK, FixedBinningJustified, FixedAfter, BinningAfter, SchemeRecord
<1>8. PlanesBackedByPairs'
  BY <1>2 DEF IInv, TypeOK, PlanesBackedByPairs
<1> QED BY <1>6, <1>7, <1>8 DEF IInv

LEMMA ApplyStep == ASSUME IInv, NEW P, Apply(P) PROVE IInv'
<1>1. cur \in SchemeIds /\ P \subseteq pairs[cur]
  BY DEF Apply, PlanePairs, IInv, TypeOK
<1>2. dt' \in -1 .. MaxDt
  <2>1. dt \in -1 .. MaxDt /\ MaxDt \in Nat
    BY HostAssumption DEF IInv, TypeOK
  <2>2. computeTimeStep(scheme[cur]) \subseteq -1 .. MaxDt
    BY <2>1 DEF computeTimeStep
  <2> QED BY <2>1, <2>2 DEF Apply
<1>3. TypeOK' /\ LoopVariables'
  BY <1>1, <1>2 DEF Apply, IInv, TypeOK, LoopVariables
<1>4. FixedBinningJustified' /\ PlanesBackedByPairs'
  BY <1>1 DEF Apply, IInv, TypeOK, FixedBinningJustified, PlanesBackedByPairs
<1> QED BY <1>3, <1>4 DEF IInv

LEMMA UpdateStep == ASSUME IInv, Update PROVE IInv'
<1> USE DEF IInv, TypeOK, LoopVariables, FixedBinningJustified, PlanesBackedByPairs
<1>1. ASSUME NEW s \in todo, AbortInInit(s) PROVE IInv'
  BY <1>1 DEF AbortInInit, Abort
<1>2. CASE KeepPairs
  BY <1>2 DEF KeepPairs, hostVars
<1>3. ASSUME NEW P, AbortInApply(P) PROVE IInv'
  BY <1>3 DEF AbortInApply, Abort
<1>4. CASE EndUpdate
  BY <1>4, HostAssumption DEF EndUpdate, hostVars
<1> QED BY <1>1, <1>2, <1>3, <1>4, InitStep, FindPairsStep, ApplyStep DEF Update

LEMMA NextIInv == IInv /\ [Next]_vars => IInv'
<1> SUFFICES ASSUME IInv, [Next]_vars PROVE IInv'
  OBVIOUS
<1>1. ASSUME NEW d \in 0 .. MaxDt, BeginUpdate(d) PROVE IInv'
  BY <1>1 DEF BeginUpdate, hostVars, IInv, TypeOK, LoopVariables, FixedBinningJustified,
     PlanesBackedByPairs
<1>2. CASE UNCHANGED vars
  BY <1>2 DEF vars, hostVars, IInv, TypeOK, LoopVariables, FixedBinningJustified,
     PlanesBackedByPairs
<1> QED BY <1>1, <1>2, RegistrationStep, UpdateStep DEF Next, Aborted

-----------------------------------------------------------------------------
LEMMA Invariance == Spec => []IInv
BY InitIInv, NextIInv, PTL DEF Spec

\* Whatever the host registers and however often it updates, every variable keeps its
\* type and update never works on a scheme that is not registered.
THEOREM TypeCorrect == Spec => []TypeOK
BY Invariance, PTL DEF IInv

\* A scheme reuses old pairs only if a search found them and it is bound to a
\* Cartesian product or to a case without sliding.
THEOREM FixedBinning == Spec => []FixedBinningJustified
BY Invariance, PTL DEF IInv

\* No contact plane points outside the pair array it was built from.
THEOREM BackedPlanes == Spec => []PlanesBackedByPairs
BY Invariance, PTL DEF IInv

\* Fixed pairs stay what the search found: of the actions that change pairs, the search
\* is guarded by the flag, and registering and finalizing clear it.
THEOREM FrozenPairs == Spec => FixedPairsFrozen
<1>1. ASSUME IInv, [Next]_vars
      PROVE  \A s \in SchemeIds : fixed[s] => pairs'[s] = pairs[s] \/ ~fixed'[s]
  <2> USE DEF IInv, TypeOK
  <2>1. CASE UNCHANGED pairs
    BY <2>1
  <2>2. ASSUME NEW s \in SchemeIds, NEW in, NEW lm, RegisterCouplingScheme(s, in, lm)
        PROVE  \A t \in SchemeIds : fixed[t] => pairs'[t] = pairs[t] \/ ~fixed'[t]
    BY <1>1, <2>2 DEF RegisterCouplingScheme
  <2>3. CASE Finalize
    BY <2>3 DEF Finalize
  <2>4. CASE FindPairs
    BY <1>1, <2>4 DEF FindPairs
  <2>5. Registration =>
          UNCHANGED pairs \/ Finalize
            \/ \E s \in SchemeIds : \E in, lm : RegisterCouplingScheme(s, in, lm)
    BY DEF Registration, RegisterMesh, RegisterNodalVelocities, RegisterNodalResponse,
       RegisterNodalReferenceCoords, RegisterMortarGaps, RegisterMortarPressures, SetScalar,
       RegisterModulus, RegisterThickness, OnMesh, SetPenaltyOptions,
       SetLagrangeMultiplierOptions, EnableTimestepVote, EnableEnzyme, OnScheme, MoveMesh
  <2>6. Update => UNCHANGED pairs \/ FindPairs
    BY DEF Update, InitValid, SkipInvalid, ChecksOf, AbortInInit, KeepPairs, Apply,
       AbortInApply, Abort, EndUpdate, hostVars
  <2>7. (\E d \in 0 .. MaxDt : BeginUpdate(d)) \/ Aborted \/ UNCHANGED vars => UNCHANGED pairs
    BY DEF BeginUpdate, Aborted, vars, hostVars
  <2> QED BY <1>1, <2>1, <2>2, <2>3, <2>4, <2>5, <2>6, <2>7 DEF Next
<1> QED BY <1>1, Invariance, PTL DEF FixedPairsFrozen, Spec

\* However many schemes vote and in whatever order, an update never gives back time
\* that an earlier scheme of it took away.
THEOREM VotesShrink == Spec => VotesOnlyShrink
<1> DEFINE A == pc # "idle" /\ pc' # "idle" => IF dt < 1 THEN dt' = dt ELSE dt' <= dt
<1>1. ASSUME IInv, [Next]_vars PROVE A
  <2>1. dt \in Int
    BY <1>1, HostAssumption DEF IInv, TypeOK
  <2>2. ASSUME NEW P, Apply(P) PROVE A
    <3>1. dt < 1 => computeTimeStep(scheme[cur]) = {dt}
      BY DEF computeTimeStep
    <3>2. dt >= 1 => \A d \in computeTimeStep(scheme[cur]) : d <= dt
      BY <2>1 DEF computeTimeStep
    <3>3. dt' = dt \/ dt' \in computeTimeStep(scheme[cur])
      BY <2>2 DEF Apply
    <3> QED BY <2>1, <3>1, <3>2, <3>3
  <2>3. Update => UNCHANGED dt \/ pc' = "idle" \/ \E P : Apply(P)
    BY DEF Update, InitValid, SkipInvalid, ChecksOf, AbortInInit, KeepPairs, FindPairs,
       AbortInApply, Abort, EndUpdate
  <2>4. Registration \/ (\E d \in 0 .. MaxDt : BeginUpdate(d)) => pc = "idle"
    BY DEF Registration, RegisterMesh, RegisterNodalVelocities, RegisterNodalResponse,
       RegisterNodalReferenceCoords, RegisterMortarGaps, RegisterMortarPressures, SetScalar,
       RegisterModulus, RegisterThickness, OnMesh, RegisterCouplingScheme, SetPenaltyOptions,
       SetLagrangeMultiplierOptions, EnableTimestepVote, EnableEnzyme, OnScheme, MoveMesh,
       Finalize, HostCall, BeginUpdate
  <2>5. Aborted \/ UNCHANGED vars => UNCHANGED dt
    BY DEF Aborted, vars
  <2> QED BY <1>1, <2>1, <2>2, <2>3, <2>4, <2>5 DEF Next
<1> QED BY <1>1, Invariance, PTL DEF VotesOnlyShrink, Spec

(***************************************************************************)
(* Who moves the host's thread where, for what holds at one place of it.   *)
(***************************************************************************)
LEMMA ThreadMoves ==
  ASSUME [Next]_vars
  PROVE  \/ pc' \in {"idle", "loop", "aborted"}
         \/ \E s \in todo : InitValid(s)
         \/ KeepPairs \/ FindPairs
         \/ UNCHANGED vars
<1>1. Registration => pc' = "idle"
  BY DEF Registration, RegisterMesh, RegisterNodalVelocities, RegisterNodalResponse,
     RegisterNodalReferenceCoords, RegisterMortarGaps, RegisterMortarPressures, SetScalar,
     RegisterModulus, RegisterThickness, OnMesh, RegisterCouplingScheme, SetPenaltyOptions,
     SetLagrangeMultiplierOptions, EnableTimestepVote, EnableEnzyme, OnScheme, MoveMesh,
     Finalize, HostCall
<1>2. (\E d \in 0 .. MaxDt : BeginUpdate(d)) => pc' = "loop"
  BY DEF BeginUpdate
<1>3. Update => \/ pc' \in {"idle", "loop", "aborted"}
                \/ \E s \in todo : InitValid(s)
                \/ KeepPairs \/ FindPairs
  BY DEF Update, SkipInvalid, ChecksOf, AbortInInit, Apply, AbortInApply, Abort, EndUpdate
<1> QED BY <1>1, <1>2, <1>3 DEF Next, Aborted

\* Pairs found in this update are pairs of the elements the meshes have now; pairs kept
\* from an earlier one belong to a scheme that does not search again.
THEOREM RefreshedPairs == Spec => []RefreshedPairsInRange
<1>1. Init => RefreshedPairsInRange
  BY DEF Init, RefreshedPairsInRange
<1>2. ASSUME IInv, RefreshedPairsInRange, [Next]_vars PROVE RefreshedPairsInRange'
  <2>1. CASE KeepPairs
    <3>1. cur \in SchemeIds /\ cur \in DOMAIN scheme /\ fixed[cur]
      BY <1>2, <2>1 DEF KeepPairs, IInv, TypeOK
    <3>2. FixedAfter(scheme[cur])
      BY <1>2, <3>1 DEF IInv, FixedBinningJustified, FixedAfter
    <3>3. UNCHANGED <<scheme, cur>>
      BY <2>1 DEF KeepPairs, hostVars
    <3> QED BY <3>2, <3>3 DEF RefreshedPairsInRange, FixedAfter
  <2>2. CASE FindPairs
    <3>1. cur \in SchemeIds /\ cur \in DOMAIN scheme /\ scheme[cur] \in SchemeRecord
      BY <1>2, <2>2 DEF FindPairs, IInv, TypeOK
    <3>2. PICK P \in FoundPairs(scheme[cur]) : pairs' = [pairs EXCEPT ![cur] = P]
      BY <2>2 DEF FindPairs
    <3>3. \A p \in P : p[1] \in Elements(scheme[cur].m1) /\ p[2] \in Elements(scheme[cur].m2)
      BY <3>2 DEF FoundPairs, CandidatePairs
    <3>4. pairs'[cur] = P
      BY <1>2, <3>1, <3>2 DEF IInv, TypeOK
    <3>5. /\ scheme'[cur].m1 = scheme[cur].m1 /\ scheme'[cur].m2 = scheme[cur].m2
          /\ UNCHANGED <<mesh, cur>>
      BY <2>2, <3>1 DEF FindPairs, SchemeRecord
    <3> QED BY <3>3, <3>4, <3>5 DEF RefreshedPairsInRange, PairsInRange, Elements
  <2>3. CASE pc' # "apply"
    BY <2>3 DEF RefreshedPairsInRange
  <2>4. CASE UNCHANGED vars
    BY <1>2, <2>4 DEF vars, hostVars, RefreshedPairsInRange, PairsInRange, Elements, FixedAfter
  <2>5. \A s \in todo : InitValid(s) => pc' # "apply"
    BY DEF InitValid
  <2> QED BY <1>2, <2>1, <2>2, <2>3, <2>4, <2>5, ThreadMoves
<1> QED BY <1>1, <1>2, Invariance, PTL DEF Spec

-----------------------------------------------------------------------------
\* The mode a valid scheme gets is one the build has, and the host's unless it is a
\* common-plane scheme.
LEMMA ValidMode ==
  ASSUME NEW s \in SchemeRecord, NEW M1 \in MeshRecord, NEW M2 \in MeshRecord,
         checkExecutionMode(s, M1, M2).ok, ~ExecAborts(s, M1, M2)
  PROVE  /\ M1.space = M2.space
         /\ checkExecutionMode(s, M1, M2).exec \in BuiltModes
         /\ s.method # "COMMON_PLANE" => checkExecutionMode(s, M1, M2).exec = "Sequential"
<1>1. M1.space = M2.space
  BY DEF checkExecutionMode
<1>2. /\ checkExecutionMode(s, M1, M2).exec = ExecFor(s, M1.space)
      /\ M1.space = "Dynamic" => ExecFor(s, M1.space) # "Dynamic"
      /\ M1.space = "Host" => s.given # "Cuda"
      /\ s.method # "COMMON_PLANE" => ExecFor(s, M1.space) = "Sequential"
  BY <1>1 DEF checkExecutionMode
<1>3. s.given \in BuiltModes \cup {"Dynamic"} /\ M1.space \in MemorySpaces
  BY DEF SchemeRecord, ExecutionModes, MeshRecord
<1>4. ExecFor(s, M1.space) \in BuiltModes
  BY <1>2, <1>3, BuildAssumption DEF ExecFor, BuiltModes, MemorySpaces
<1> QED BY <1>1, <1>2, <1>4

\* A scheme is searched and applied only with two valid meshes of one element type and
\* one memory space, in a mode the build has: the checks establish it, and nothing the
\* rest of the update does to scheme and meshes takes it back.
THEOREM MatchingMeshes == Spec => []AppliedOnMatchingMeshes
<1>1. Init => AppliedOnMatchingMeshes
  BY DEF Init, AppliedOnMatchingMeshes, InScheme
<1>2. ASSUME IInv, AppliedOnMatchingMeshes, [Next]_vars PROVE AppliedOnMatchingMeshes'
  <2>1. ASSUME NEW s \in todo, InitValid(s) PROVE AppliedOnMatchingMeshes'
    <3> DEFINE S == scheme[s]
               M1 == mesh[S.m1]
               M2 == mesh[S.m2]
    <3>1. s \in DOMAIN scheme /\ S \in SchemeRecord
      BY <1>2 DEF IInv, TypeOK
    <3>2. /\ {S.m1, S.m2} \subseteq DOMAIN mesh /\ M1.etype = M2.etype
          /\ M1.valid /\ M2.valid
          /\ checkExecutionMode(S, M1, M2).ok
          /\ ReachesChecks(S, mesh) /\ ~CheckAborts(s)
      BY <2>1 DEF InitValid, isValidCouplingScheme, ReachesChecks, ChecksPass
    <3>3. M1 \in MeshRecord /\ M2 \in MeshRecord
      BY <1>2, <3>2 DEF IInv, TypeOK
    <3>4. /\ M1.space = M2.space /\ checkExecutionMode(S, M1, M2).exec \in BuiltModes
          /\ S.method # "COMMON_PLANE" => checkExecutionMode(S, M1, M2).exec = "Sequential"
      BY <3>1, <3>2, <3>3, ValidMode DEF CheckAborts
    <3>5. /\ scheme'[s].exec = checkExecutionMode(S, M1, M2).exec
          /\ scheme'[s].m1 = S.m1 /\ scheme'[s].m2 = S.m2 /\ scheme'[s].method = S.method
      BY <2>1, <3>1, <3>2 DEF InitValid, ChecksOf, SchemeAfterChecks, CheckedScheme, SchemeRecord
    <3>6. \A m \in DOMAIN mesh :
            /\ mesh'[m].valid = mesh[m].valid
            /\ mesh'[m].etype = mesh[m].etype
            /\ mesh'[m].space = mesh[m].space
      <4> DEFINE mm == MeshesAfterChecks(S, mesh)
      <4>1. mm = PenaltyChecked(S, mesh)
        BY <3>2, <3>4 DEF MeshesAfterChecks
      <4> DEFINE Same(A, B) ==
                   A \in MeshRecord /\ A.valid = B.valid /\ A.etype = B.etype /\ A.space = B.space
      <4>2. ASSUME NEW M \in MeshRecord
            PROVE  Same(afterPenaltyCheck(M, S.pen), M) /\ Same(computeFaceData(M), M)
        <5>1. afterPenaltyCheck(M, S.pen) \in MeshRecord /\ computeFaceData(M) \in MeshRecord
          BY MeshUpdates
        <5> QED BY <5>1 DEF afterPenaltyCheck, ClearRateFlag, computeFaceData, Put, Drop, MeshRecord
      <4>3. /\ DOMAIN mm = DOMAIN mesh
            /\ \A m \in DOMAIN mesh : Same(mm[m], mesh[m])
        <5>1. \A m \in DOMAIN mesh : mesh[m] \in MeshRecord
          BY <1>2 DEF IInv, TypeOK
        <5> DEFINE m_ == [mesh EXCEPT ![S.m1] = afterPenaltyCheck(@, S.pen)]
                   m__ == [m_ EXCEPT ![S.m2] = afterPenaltyCheck(@, S.pen)]
        <5>2. /\ DOMAIN m_ = DOMAIN mesh
              /\ \A m \in DOMAIN mesh : m_[m] \in {mesh[m], afterPenaltyCheck(mesh[m], S.pen)}
          BY <1>2, <3>2 DEF IInv, TypeOK
        <5>3. \A m \in DOMAIN mesh : Same(m_[m], mesh[m])
          BY <4>2, <5>1, <5>2
        <5>4. /\ DOMAIN m__ = DOMAIN mesh
              /\ \A m \in DOMAIN mesh : m__[m] \in {m_[m], afterPenaltyCheck(m_[m], S.pen)}
          BY <3>2, <5>2
        <5>5. \A m \in DOMAIN mesh : Same(m__[m], mesh[m])
          BY <4>2, <5>3, <5>4
        <5>6. mm \in {mesh, m_, m__}
          BY <4>1 DEF PenaltyChecked
        <5> QED BY <5>1, <5>2, <5>3, <5>4, <5>5, <5>6
      <4>4. mesh' = FaceDataOf(S, mm)
        BY <2>1 DEF InitValid
      <4> QED BY <4>2, <4>3, <4>4 DEF FaceDataOf
    <3>7. pc' = "binning" /\ cur' = s
      BY <2>1 DEF InitValid
    <3> QED BY <3>2, <3>4, <3>5, <3>6, <3>7 DEF AppliedOnMatchingMeshes
  <2>2. CASE KeepPairs
    <3>1. /\ pc = "binning" /\ pc' = "apply" /\ fixed[cur]
          /\ UNCHANGED <<mesh, scheme, cur, fixed>>
      BY <2>2 DEF KeepPairs, hostVars
    <3> QED BY <1>2, <3>1 DEF AppliedOnMatchingMeshes, InScheme
  <2>3. CASE FindPairs
    <3>1. /\ cur \in DOMAIN scheme /\ scheme[cur] \in SchemeRecord
          /\ pc = "binning" /\ UNCHANGED <<mesh, cur>>
      BY <1>2, <2>3 DEF FindPairs, IInv, TypeOK
    <3>2. /\ scheme'[cur] = [scheme[cur] EXCEPT !.binning = BinningAfter(scheme[cur])]
      BY <2>3, <3>1 DEF FindPairs
    <3>3. /\ \A f \in {"m1", "m2", "exec", "method"} : scheme'[cur][f] = scheme[cur][f]
          /\ scheme'[cur].binning = BinningAfter(scheme[cur])
      BY <3>1, <3>2 DEF SchemeRecord
    <3>4. ~(scheme'[cur].binning = "GRID" /\ isOnDevice(scheme'[cur].exec))
      BY <3>3 DEF BinningAfter
    <3> QED BY <1>2, <3>1, <3>3, <3>4 DEF AppliedOnMatchingMeshes, InScheme
  <2>4. CASE pc' \in {"idle", "loop", "aborted"}
    BY <2>4 DEF AppliedOnMatchingMeshes, InScheme
  <2>5. CASE UNCHANGED vars
    BY <1>2, <2>5 DEF vars, hostVars, AppliedOnMatchingMeshes, InScheme
  <2> QED BY <1>2, <2>1, <2>2, <2>3, <2>4, <2>5, ThreadMoves
<1> QED BY <1>1, <1>2, Invariance, PTL DEF Spec
-----------------------------------------------------------------------------
(***************************************************************************)
(* What the checks of a scheme leave of any mesh: all but flags of a rate  *)
(* penalty, and nothing new but face data.                                 *)
(***************************************************************************)
Left(A, B) ==
  /\ A \in MeshRecord /\ A.nelem = B.nelem /\ A.low = B.low
  /\ A.etype = B.etype /\ A.order = B.order /\ A.space = B.space /\ (A.valid => B.valid)
  /\ B.has \ {"rateConst", "ratePct"} \subseteq A.has
  /\ A.has \subseteq B.has \cup {"faceData"}
AllLeft(mn, mm) == DOMAIN mn = DOMAIN mm /\ \A m \in DOMAIN mm : Left(mn[m], mm[m])

LEMMA LeftChain == ASSUME NEW A, NEW B, NEW C, Left(A, B), Left(B, C) PROVE Left(A, C)
BY DEF Left

LEMMA AllLeftChain ==
  ASSUME NEW mm, NEW mn, NEW mo, AllLeft(mn, mm), AllLeft(mo, mn) PROVE AllLeft(mo, mm)
BY LeftChain DEF AllLeft

LEMMA LeftByOne ==
  ASSUME NEW M \in MeshRecord
  PROVE  /\ Left(M, M) /\ Left(computeFaceData(M), M) /\ Left([M EXCEPT !.valid = FALSE], M)
         /\ \A p : Left(afterPenaltyCheck(M, p), M)
<1>1. computeFaceData(M) \in MeshRecord /\ [M EXCEPT !.valid = FALSE] \in MeshRecord
  BY MeshUpdates, MeshOps
<1>2. Left(M, M) /\ Left(computeFaceData(M), M) /\ Left([M EXCEPT !.valid = FALSE], M)
  BY <1>1 DEF Left, computeFaceData, Put, MeshRecord
<1>3. ASSUME NEW p PROVE Left(afterPenaltyCheck(M, p), M)
  <2>1. afterPenaltyCheck(M, p) \in MeshRecord
    BY MeshUpdates
  <2> QED BY <2>1 DEF Left, afterPenaltyCheck, ClearRateFlag, Drop, MeshRecord
<1> QED BY <1>2, <1>3

\* The changes the checks and init make, one at a time.
LEMMA LeftByEach ==
  ASSUME NEW mm, \A m \in DOMAIN mm : mm[m] \in MeshRecord,
         NEW s, {s.m1, s.m2} \subseteq DOMAIN mm
  PROVE  /\ AllLeft(mm, mm)
         /\ AllLeft(FaceDataOf(s, mm), mm)
         /\ AllLeft(Invalidated(s, mm), mm)
         /\ \A i \in {s.m1, s.m2} : AllLeft([mm EXCEPT ![i] = afterPenaltyCheck(@, s.pen)], mm)
<1>1. \A m \in DOMAIN mm : mm[m] \in MeshRecord
  OBVIOUS
<1>2. AllLeft(mm, mm) /\ AllLeft(FaceDataOf(s, mm), mm)
  BY <1>1, LeftByOne DEF AllLeft, FaceDataOf
<1>3. ASSUME NEW i \in DOMAIN mm PROVE AllLeft([mm EXCEPT ![i].valid = FALSE], mm)
  BY <1>1, LeftByOne DEF AllLeft
<1>4. AllLeft(Invalidated(s, mm), mm)
  <2> DEFINE mn == [mm EXCEPT ![s.m1].valid = FALSE]
             mo == [mn EXCEPT ![s.m2].valid = FALSE]
  <2>1. AllLeft(mn, mm)
    BY <1>3
  <2>2. DOMAIN mn = DOMAIN mm /\ \A m \in DOMAIN mn : mn[m] \in MeshRecord
    BY <2>1 DEF AllLeft, Left
  <2>3. mo = Invalidated(s, mm)
    BY DEF Invalidated
  <2> HIDE DEF mn
  <2>4. AllLeft(mo, mn)
    BY <2>2, LeftByOne DEF AllLeft
  <2> QED BY <2>1, <2>3, <2>4, AllLeftChain
<1>5. ASSUME NEW i \in {s.m1, s.m2}
      PROVE  AllLeft([mm EXCEPT ![i] = afterPenaltyCheck(@, s.pen)], mm)
  BY <1>1, LeftByOne DEF AllLeft
<1> QED BY <1>2, <1>4, <1>5

LEMMA ChecksLeave ==
  ASSUME NEW mm, \A m \in DOMAIN mm : mm[m] \in MeshRecord,
         NEW s, {s.m1, s.m2} \subseteq DOMAIN mm
  PROVE  /\ AllLeft(MeshesAfterChecks(s, mm), mm)
         /\ AllLeft(FaceDataOf(s, MeshesAfterChecks(s, mm)), mm)
<1> DEFINE m1 == [mm EXCEPT ![s.m1] = afterPenaltyCheck(@, s.pen)]
           m2 == [m1 EXCEPT ![s.m2] = afterPenaltyCheck(@, s.pen)]
           mn == IF ReachesChecks(s, mm) THEN PenaltyChecked(s, mm) ELSE mm
           mo == MeshesAfterChecks(s, mm)
           Rec(f) == DOMAIN f = DOMAIN mm /\ \A m \in DOMAIN f : f[m] \in MeshRecord
<1>1. mn \in {mm, m1, m2} /\ mo \in {mn, Invalidated(s, mn)}
  BY DEF PenaltyChecked, MeshesAfterChecks
<1>2. AllLeft(m1, mm)
  BY LeftByEach
<1>3. Rec(m1)
  BY <1>2 DEF AllLeft, Left
<1> HIDE DEF m1, mo
<1>4. AllLeft(m2, m1)
  BY <1>3, LeftByEach
<1> HIDE DEF m2
<1>5. AllLeft(m2, mm) /\ AllLeft(mm, mm)
  BY <1>2, <1>4, AllLeftChain, LeftByEach
<1> HIDE DEF mn
<1>6. AllLeft(mn, mm)
  BY <1>1, <1>2, <1>5
<1>7. Rec(mn)
  BY <1>6 DEF AllLeft, Left
<1>8. AllLeft(Invalidated(s, mn), mn)
  BY <1>7, LeftByEach
<1>9. AllLeft(mo, mm)
  BY <1>1, <1>6, <1>8, AllLeftChain
<1>10. Rec(mo)
  BY <1>9 DEF AllLeft, Left
<1>11. AllLeft(FaceDataOf(s, mo), mo)
  BY <1>10, LeftByEach
<1> QED BY <1>9, <1>11, AllLeftChain DEF mo

LEMMA ChecksKeepMesh ==
  ASSUME IInv, NEW s \in todo, InitValid(s) \/ SkipInvalid(s)
  PROVE  AllLeft(mesh', mesh)
<1> DEFINE S == scheme[s]
<1>1. \A m \in DOMAIN mesh : mesh[m] \in MeshRecord
  BY DEF IInv, TypeOK
<1>2. CASE {S.m1, S.m2} \subseteq DOMAIN mesh
  BY <1>1, <1>2, ChecksLeave DEF InitValid, SkipInvalid
<1>3. CASE ~({S.m1, S.m2} \subseteq DOMAIN mesh)
  <2>1. mesh' = mesh
    BY <1>3 DEF InitValid, SkipInvalid, isValidCouplingScheme, ReachesChecks, MeshesAfterChecks
  <2> QED BY <1>1, <2>1, LeftByOne DEF AllLeft
<1> QED BY <1>2, <1>3
-----------------------------------------------------------------------------
\* The check of one scheme, told by the fields it leaves.
LEMMA CheckedFields ==
  ASSUME NEW s \in SchemeRecord, NEW mm
  PROVE  LET t == SchemeAfterChecks(s, mm)
         IN  /\ t.m1 = s.m1 /\ t.m2 = s.m2 /\ t.method = s.method /\ t.model = s.model
             /\ t.pen = s.pen /\ t.lmSet = s.lmSet /\ t.sparse = s.sparse
             /\ t.enzyme = s.enzyme /\ t.mode = s.mode /\ t.given = s.given
             /\ s.method # "MORTAR_WEIGHTS" => t.enf = s.enf /\ t.eval = s.eval
             /\ ReachesChecks(s, mm) => /\ t.autoCheck = AutoCheckAfter(s)
                                        /\ t.case = RepairedCase(s)
BY DEF SchemeAfterChecks, CheckedScheme, SchemeRecord

\* What a scheme that starts its search has passed, and what it and its meshes are then.
LEMMA Accepted ==
  ASSUME IInv, NEW s \in todo, InitValid(s)
  PROVE  LET S  == scheme[s]
             M1 == mesh[S.m1]
             M2 == mesh[S.m2]
         IN  /\ s \in DOMAIN scheme /\ S \in SchemeRecord /\ s \in SchemeIds
             /\ {S.m1, S.m2} \subseteq DOMAIN mesh
             /\ M1 \in MeshRecord /\ M2 \in MeshRecord
             /\ ReachesChecks(S, mesh) /\ ChecksPass(S, M1, M2)
             /\ cur' = s /\ pc' = "binning"
             /\ scheme'[s] = SchemeAfterChecks(S, mesh)
             /\ AllLeft(mesh', mesh)
<1>1. s \in DOMAIN scheme /\ scheme[s] \in SchemeRecord /\ s \in SchemeIds
  BY DEF IInv, TypeOK
<1>2. /\ ReachesChecks(scheme[s], mesh)
      /\ ChecksPass(scheme[s], mesh[scheme[s].m1], mesh[scheme[s].m2])
      /\ cur' = s /\ pc' = "binning"
  BY DEF InitValid, isValidCouplingScheme
<1>3. {scheme[s].m1, scheme[s].m2} \subseteq DOMAIN mesh
  BY <1>2 DEF ReachesChecks
<1>4. mesh[scheme[s].m1] \in MeshRecord /\ mesh[scheme[s].m2] \in MeshRecord
  BY <1>3 DEF IInv, TypeOK
<1>5. scheme'[s] = SchemeAfterChecks(scheme[s], mesh)
  BY <1>1 DEF InitValid, ChecksOf
<1>6. AllLeft(mesh', mesh)
  BY ChecksKeepMesh
<1> QED BY <1>1, <1>2, <1>3, <1>4, <1>5, <1>6

\* The search changes nothing of a scheme but how it searches.
LEMMA SearchKeeps ==
  ASSUME IInv, FindPairs
  PROVE  /\ pc = "binning" /\ pc' = "apply" /\ UNCHANGED <<mesh, cur>>
         /\ cur \in DOMAIN scheme /\ scheme[cur] \in SchemeRecord
         /\ DOMAIN scheme' = DOMAIN scheme
         /\ \A s \in DOMAIN scheme : s # cur => scheme'[s] = scheme[s]
         /\ scheme'[cur] = [scheme[cur] EXCEPT !.binning = BinningAfter(scheme[cur])]
BY DEF FindPairs, IInv, TypeOK

\* What ApplyInterfacePhysics looks at stays what it was through a search.
SameRequest(s, t) ==
  /\ s.m1 = t.m1 /\ s.m2 = t.m2 /\ s.method = t.method /\ s.enf = t.enf /\ s.model = t.model
  /\ s.pen = t.pen /\ s.autoCheck = t.autoCheck /\ s.enzyme = t.enzyme

LEMMA SearchKeepsRequest == ASSUME IInv, FindPairs PROVE SameRequest(scheme'[cur], scheme[cur])
BY SearchKeeps DEF SameRequest, SchemeRecord

\* The checks let through only combinations ApplyInterfacePhysics implements: it has no
\* default that would report one it does not.
THEOREM SchemesDispatch == Spec => []AcceptedSchemesDispatch
<1>1. Init => AcceptedSchemesDispatch
  BY DEF Init, AcceptedSchemesDispatch, InScheme
<1>2. ASSUME IInv, AcceptedSchemesDispatch, [Next]_vars PROVE AcceptedSchemesDispatch'
  <2>1. ASSUME NEW s \in todo, InitValid(s) PROVE AcceptedSchemesDispatch'
    <3> DEFINE S  == scheme[s]
               M1 == mesh[S.m1]
               M2 == mesh[S.m2]
               T  == scheme'[s]
    <3>1. /\ S \in SchemeRecord /\ {S.m1, S.m2} \subseteq DOMAIN mesh
          /\ T = SchemeAfterChecks(S, mesh) /\ cur' = s
          /\ isValidMethod(S, M1, M2) /\ isValidModel(S) /\ isValidEnforcement(S)
      BY <1>2, <2>1, Accepted DEF ChecksPass
    <3>2. /\ T.method = S.method /\ T.model = S.model /\ T.m1 = S.m1 /\ T.m2 = S.m2
          /\ S.method # "MORTAR_WEIGHTS" => T.enf = S.enf
      BY <3>1, CheckedFields
    <3>3. AllLeft(mesh', mesh)
      BY <1>2, <2>1, Accepted
    <3>4. mesh'[S.m1].nelem = M1.nelem /\ mesh'[S.m2].nelem = M2.nelem
      BY <3>1, <3>3 DEF AllLeft, Left
    <3>5. \/ Kernels(T) # {} \/ T.model = "NULL_MODEL" \/ nullMeshes(M1, M2)
      <4>1. S.method \in Methods
        BY <3>1 DEF SchemeRecord
      <4>2. CASE S.method = "ENERGY_MORTAR"
        BY <3>1, <4>2 DEF isValidMethod
      <4>3. CASE S.method = "COMMON_PLANE"
        <5>1. T.method = "COMMON_PLANE" /\ T.enf = "PENALTY"
          BY <3>1, <3>2, <4>3 DEF isValidEnforcement
        <5>2. "normal" \in Kernels(T)
          BY <5>1 DEF Kernels
        <5> QED BY <5>2
      <4>4. CASE S.method = "MORTAR_WEIGHTS"
        <5>1. "weights" \in Kernels(T)
          BY <3>2, <4>4 DEF Kernels
        <5> QED BY <5>1
      <4>5. CASE S.method \in {"SINGLE_MORTAR", "ALIGNED_MORTAR"}
        <5>1. T.enf = "LAGRANGE_MULTIPLIER" /\ T.model \in {"FRICTIONLESS", "NULL_MODEL"}
          BY <3>1, <3>2, <4>5 DEF isValidEnforcement, isValidModel, Mortars
        <5>2. T.model = "FRICTIONLESS" => "mortar" \in Kernels(T)
          BY <3>2, <4>5, <5>1 DEF Kernels
        <5> QED BY <5>1, <5>2
      <4> QED BY <4>1, <4>2, <4>3, <4>4, <4>5 DEF Methods, Mortars
    <3> QED BY <3>1, <3>2, <3>4, <3>5 DEF AcceptedSchemesDispatch, nullMeshes, IsNull
  <2>2. CASE KeepPairs
    <3>1. pc = "binning" /\ UNCHANGED <<mesh, scheme, cur>>
      BY <2>2 DEF KeepPairs, hostVars
    <3> QED BY <1>2, <3>1 DEF AcceptedSchemesDispatch, InScheme
  <2>3. CASE FindPairs
    <3>1. pc = "binning" /\ UNCHANGED <<mesh, cur>> /\ SameRequest(scheme'[cur], scheme[cur])
      BY <1>2, <2>3, SearchKeeps, SearchKeepsRequest
    <3>2. Kernels(scheme'[cur]) = Kernels(scheme[cur])
      BY <3>1 DEF Kernels, SameRequest
    <3> QED BY <1>2, <3>1, <3>2 DEF AcceptedSchemesDispatch, InScheme, SameRequest
  <2>4. CASE pc' \in {"idle", "loop", "aborted"}
    BY <2>4 DEF AcceptedSchemesDispatch, InScheme
  <2>5. CASE UNCHANGED vars
    BY <1>2, <2>5 DEF vars, hostVars, AcceptedSchemesDispatch, InScheme
  <2> QED BY <1>2, <2>1, <2>2, <2>3, <2>4, <2>5, ThreadMoves
<1> QED BY <1>1, <1>2, Invariance, PTL DEF Spec
-----------------------------------------------------------------------------
(***************************************************************************)
(* The time step -1.  Its cause is a scheme the loop has left behind, whose *)
(* meshes no later check of the update takes elements or velocities from.  *)
(***************************************************************************)
Registered ==
  InScheme => cur \notin todo /\ {scheme[cur].m1, scheme[cur].m2} \subseteq DOMAIN mesh

Caused(s) ==
  /\ {scheme[s].m1, scheme[s].m2} \subseteq DOMAIN mesh
  /\ planes[s] # {}
  /\ \E i \in {1, 2} : "velView" \notin SideOf(scheme[s], i).has
  /\ ~nullMeshes(SideOf(scheme[s], 1), SideOf(scheme[s], 2))

LeftBehind(s) == s \in DOMAIN scheme \ todo /\ (InScheme => s # cur)
Cause == pc # "idle" /\ dt = -1 => \E s \in DOMAIN scheme : LeftBehind(s) /\ Caused(s)

LEMMA RegisteredHolds == Spec => []Registered
<1>1. Init => Registered
  BY DEF Init, Registered, InScheme
<1>2. ASSUME IInv, Registered, [Next]_vars PROVE Registered'
  <2>1. ASSUME NEW s \in todo, InitValid(s) PROVE Registered'
    <3>1. /\ scheme[s] \in SchemeRecord /\ {scheme[s].m1, scheme[s].m2} \subseteq DOMAIN mesh
          /\ scheme'[s] = SchemeAfterChecks(scheme[s], mesh) /\ cur' = s
          /\ AllLeft(mesh', mesh)
      BY <1>2, <2>1, Accepted
    <3>2. scheme'[s].m1 = scheme[s].m1 /\ scheme'[s].m2 = scheme[s].m2
      BY <3>1, CheckedFields
    <3>3. s \notin todo'
      BY <2>1 DEF InitValid, ChecksOf
    <3> QED BY <3>1, <3>2, <3>3 DEF Registered, AllLeft
  <2>2. CASE KeepPairs
    BY <1>2, <2>2 DEF KeepPairs, hostVars, Registered, InScheme
  <2>3. CASE FindPairs
    <3>1. pc = "binning" /\ UNCHANGED <<mesh, cur, todo>> /\ SameRequest(scheme'[cur], scheme[cur])
      BY <1>2, <2>3, SearchKeeps, SearchKeepsRequest DEF FindPairs
    <3> QED BY <1>2, <3>1 DEF Registered, InScheme, SameRequest
  <2>4. CASE pc' \in {"idle", "loop", "aborted"}
    BY <2>4 DEF Registered, InScheme
  <2>5. CASE UNCHANGED vars
    BY <1>2, <2>5 DEF vars, hostVars, Registered, InScheme
  <2> QED BY <1>2, <2>1, <2>2, <2>3, <2>4, <2>5, ThreadMoves
<1> QED BY <1>1, <1>2, Invariance, PTL DEF Spec

\* A step of the loop over other schemes keeps a cause.
LEMMA CauseStays ==
  ASSUME NEW s \in DOMAIN scheme, Caused(s), AllLeft(mesh', mesh), planes'[s] = planes[s],
         scheme'[s].m1 = scheme[s].m1, scheme'[s].m2 = scheme[s].m2
  PROVE  Caused(s)'
<1> DEFINE S == scheme[s]
<1>1. ASSUME NEW m \in {S.m1, S.m2}
      PROVE  m \in DOMAIN mesh' /\ mesh'[m].nelem = mesh[m].nelem
             /\ ("velView" \notin mesh[m].has => "velView" \notin mesh'[m].has)
  BY <1>1 DEF Caused, AllLeft, Left
<1>2. /\ mesh'[S.m1].nelem = mesh[S.m1].nelem /\ mesh'[S.m2].nelem = mesh[S.m2].nelem
      /\ {S.m1, S.m2} \subseteq DOMAIN mesh'
  BY <1>1
<1>3. ~(mesh'[S.m1].nelem = 0 \/ mesh'[S.m2].nelem = 0)
  BY <1>2 DEF Caused, SideOf, nullMeshes, IsNull
<1>4. PICK i \in {1, 2} : "velView" \notin mesh[IF i = 1 THEN S.m1 ELSE S.m2].has
  BY DEF Caused, SideOf
<1>5. "velView" \notin mesh'[IF i = 1 THEN S.m1 ELSE S.m2].has
  BY <1>1, <1>4
<1> QED BY <1>2, <1>3, <1>5 DEF Caused, SideOf, nullMeshes, IsNull

LEMMA CauseStep == ASSUME IInv, Registered, Cause, [Next]_vars PROVE Cause'
<1>1. \A m \in DOMAIN mesh : mesh[m] \in MeshRecord
  BY DEF IInv, TypeOK
<1>2. ASSUME UNCHANGED mesh PROVE AllLeft(mesh', mesh)
  BY <1>1, <1>2, LeftByOne DEF AllLeft
<1>3. ASSUME NEW s \in todo, InitValid(s) \/ SkipInvalid(s) PROVE Cause'
  <2>1. /\ scheme' = [scheme EXCEPT ![s] = SchemeAfterChecks(@, mesh)]
        /\ todo' = todo \ {s} /\ cur' \in {cur, s} /\ UNCHANGED <<planes, dt>>
        /\ pc = "loop" /\ s \in DOMAIN scheme
        /\ pc' = "loop" \/ cur' = s
    BY <1>3 DEF InitValid, SkipInvalid, ChecksOf, IInv, TypeOK
  <2>2. AllLeft(mesh', mesh)
    BY <1>3, ChecksKeepMesh
  <2>3. SUFFICES ASSUME dt = -1 PROVE \E t \in DOMAIN scheme' : LeftBehind(t)' /\ Caused(t)'
    BY <2>1 DEF Cause
  <2>4. PICK t \in DOMAIN scheme : LeftBehind(t) /\ Caused(t)
    BY <2>1, <2>3 DEF Cause
  <2>5. t # s /\ scheme'[t] = scheme[t] /\ DOMAIN scheme' = DOMAIN scheme
    BY <1>3, <2>1, <2>4 DEF LeftBehind
  <2>6. Caused(t)'
    BY <2>1, <2>2, <2>4, <2>5, CauseStays
  <2>7. LeftBehind(t)'
    BY <2>1, <2>4, <2>5 DEF LeftBehind, InScheme
  <2> QED BY <2>5, <2>6, <2>7
<1>4. CASE KeepPairs
  BY <1>4 DEF KeepPairs, hostVars, Cause, Caused, SideOf, LeftBehind, InScheme
<1>5. CASE FindPairs
  <2>1. /\ pc = "binning" /\ UNCHANGED <<mesh, cur, todo, planes, dt>>
        /\ DOMAIN scheme' = DOMAIN scheme /\ pc' = "apply"
        /\ \A s \in DOMAIN scheme : s # cur => scheme'[s] = scheme[s]
    BY <1>5, SearchKeeps DEF FindPairs
  <2>2. SUFFICES ASSUME dt = -1 PROVE \E t \in DOMAIN scheme' : LeftBehind(t)' /\ Caused(t)'
    BY <2>1 DEF Cause
  <2>3. PICK t \in DOMAIN scheme : LeftBehind(t) /\ Caused(t)
    BY <2>1, <2>2 DEF Cause
  <2>4. t # cur
    BY <2>1, <2>3 DEF LeftBehind, InScheme
  <2>5. Caused(t)'
    BY <1>2, <2>1, <2>3, <2>4, CauseStays
  <2>6. LeftBehind(t)'
    BY <2>1, <2>3, <2>4 DEF LeftBehind
  <2> QED BY <2>1, <2>5, <2>6
<1>6. ASSUME NEW P, Apply(P) PROVE Cause'
  <2>1. /\ pc = "apply" /\ UNCHANGED <<mesh, scheme, todo>> /\ cur \in DOMAIN scheme
        /\ planes' = [planes EXCEPT ![cur] = P] /\ cur \in SchemeIds
        /\ pc' = "loop"
        /\ dt' \in IF PhysicsFails(scheme[cur]) \/ P = {} THEN {dt} ELSE computeTimeStep(scheme[cur])
    BY <1>6 DEF Apply, IInv, TypeOK
  <2>2. planes'[cur] = P /\ \A s \in SchemeIds : s # cur => planes'[s] = planes[s]
    BY <2>1 DEF IInv, TypeOK
  <2>3. SUFFICES ASSUME dt' = -1 PROVE \E t \in DOMAIN scheme' : LeftBehind(t)' /\ Caused(t)'
    BY DEF Cause
  <2>4. CASE dt = -1
    <3>1. PICK t \in DOMAIN scheme : LeftBehind(t) /\ Caused(t)
      BY <2>1, <2>4 DEF Cause
    <3>2. planes'[t] = planes[t]
      BY <2>1, <2>2, <3>1 DEF LeftBehind, InScheme, IInv, TypeOK
    <3>3. Caused(t)'
      BY <1>2, <2>1, <3>1, <3>2, CauseStays
    <3>4. LeftBehind(t)'
      BY <2>1, <3>1 DEF LeftBehind, InScheme
    <3> QED BY <2>1, <3>1, <3>3, <3>4
  <2>5. CASE dt # -1
    <3>1. P # {} /\ -1 \in computeTimeStep(scheme[cur])
      BY <2>1, <2>3, <2>5
    <3>2. dt \in -1 .. MaxDt /\ MaxDt \in Nat
      BY HostAssumption DEF IInv, TypeOK
    <3> DEFINE S  == scheme[cur]
               M1 == mesh[S.m1]
               M2 == mesh[S.m2]
    <3>3. "velView" \notin M1.has \cap M2.has /\ ~nullMeshes(M1, M2)
      BY <2>5, <3>1, <3>2 DEF computeTimeStep
    <3>4. {S.m1, S.m2} \subseteq DOMAIN mesh
      BY <2>1 DEF Registered, InScheme
    <3>5. \E i \in {1, 2} : "velView" \notin SideOf(S, i).has
      BY <3>3 DEF SideOf
    <3>6. ~nullMeshes(SideOf(S, 1), SideOf(S, 2))
      BY <3>3 DEF SideOf
    <3>7. PICK c \in DOMAIN scheme : c = cur
      BY <2>1
    <3>8. Caused(c)'
      BY <2>1, <2>2, <3>1, <3>4, <3>5, <3>6, <3>7 DEF Caused, SideOf
    <3>9. LeftBehind(c)'
      BY <2>1, <3>7 DEF LeftBehind, Registered, InScheme
    <3> QED BY <2>1, <3>8, <3>9
  <2> QED BY <2>4, <2>5
<1>7. CASE pc' = "idle"
  BY <1>7 DEF Cause
<1>8. ASSUME NEW d \in 0 .. MaxDt, BeginUpdate(d) PROVE Cause'
  BY <1>8 DEF BeginUpdate, Cause
<1>9. CASE pc # "idle" /\ UNCHANGED <<mesh, scheme, planes, todo, cur, dt>> /\ pc' = "aborted"
  BY <1>9 DEF Cause, Caused, SideOf, LeftBehind, InScheme
<1>10. CASE UNCHANGED vars
  BY <1>10 DEF vars, hostVars, Cause, Caused, SideOf, LeftBehind, InScheme
<1>11. Registration => pc' = "idle"
  BY DEF Registration, RegisterMesh, RegisterNodalVelocities, RegisterNodalResponse,
     RegisterNodalReferenceCoords, RegisterMortarGaps, RegisterMortarPressures, SetScalar,
     RegisterModulus, RegisterThickness, OnMesh, RegisterCouplingScheme, SetPenaltyOptions,
     SetLagrangeMultiplierOptions, EnableTimestepVote, EnableEnzyme, OnScheme, MoveMesh,
     Finalize, HostCall
<1>12. Update =>
         \/ \E s \in todo : InitValid(s) \/ SkipInvalid(s)
         \/ KeepPairs \/ FindPairs \/ pc' = "idle" \/ \E P : Apply(P)
         \/ pc # "idle" /\ UNCHANGED <<mesh, scheme, planes, todo, cur, dt>> /\ pc' = "aborted"
  BY DEF Update, AbortInInit, AbortInApply, Abort, EndUpdate
<1> QED BY <1>3, <1>4, <1>5, <1>6, <1>7, <1>8, <1>9, <1>10, <1>11, <1>12 DEF Next, Aborted

\* The time step -1 comes from a scheme of this update with contact planes between two
\* meshes with elements, one of them without velocities: no scheme applied after it can
\* make it another's.
THEOREM MinusOneCaused == Spec => []MinusOneHasCause
<1>1. Init => Cause
  BY DEF Init, Cause
<1>2. Cause => MinusOneHasCause
  BY DEF Cause, MinusOneHasCause, LeftBehind, Caused
<1> QED BY <1>1, <1>2, CauseStep, Invariance, RegisteredHolds, PTL DEF Spec
-----------------------------------------------------------------------------
(***************************************************************************)
(* The converse.  A scheme the loop has been through had its velocities    *)
(* asked for, and no later check of the update takes them away.            *)
(***************************************************************************)
Moving(s) ==
  /\ {scheme[s].m1, scheme[s].m2} \subseteq DOMAIN mesh
  /\ \/ \A i \in {1, 2} : "velView" \in SideOf(scheme[s], i).has
     \/ nullMeshes(SideOf(scheme[s], 1), SideOf(scheme[s], 2))

Applied(s) == s \in DOMAIN scheme \ (todo \cup failed \cup {cur}) /\ verdict[s] = "valid" /\ planes[s] # {}
Asked == pc # "idle" /\ dt >= 1 => \A s \in DOMAIN scheme : Applied(s) => Moving(s)

LEMMA MovingStays ==
  ASSUME NEW s \in DOMAIN scheme, Moving(s), AllLeft(mesh', mesh),
         scheme'[s].m1 = scheme[s].m1, scheme'[s].m2 = scheme[s].m2
  PROVE  Moving(s)'
<1> DEFINE S == scheme[s]
<1>1. ASSUME NEW m \in {S.m1, S.m2}
      PROVE  m \in DOMAIN mesh' /\ mesh'[m].nelem = mesh[m].nelem
             /\ ("velView" \in mesh[m].has => "velView" \in mesh'[m].has)
  BY <1>1 DEF Moving, AllLeft, Left
<1>2. CASE nullMeshes(SideOf(S, 1), SideOf(S, 2))
  <2>1. mesh[S.m1].nelem = 0 \/ mesh[S.m2].nelem = 0
    BY <1>2 DEF SideOf, nullMeshes, IsNull
  <2> QED BY <1>1, <2>1 DEF Moving, SideOf, nullMeshes, IsNull
<1>3. CASE \A i \in {1, 2} : "velView" \in SideOf(S, i).has
  <2>1. "velView" \in mesh[S.m1].has /\ "velView" \in mesh[S.m2].has
    BY <1>3 DEF SideOf
  <2> QED BY <1>1, <2>1 DEF Moving, SideOf
<1> QED BY <1>2, <1>3 DEF Moving

LEMMA AskedStep == ASSUME IInv, Registered, Asked, [Next]_vars PROVE Asked'
<1>1. \A m \in DOMAIN mesh : mesh[m] \in MeshRecord
  BY DEF IInv, TypeOK
<1>2. ASSUME UNCHANGED mesh PROVE AllLeft(mesh', mesh)
  BY <1>1, <1>2, LeftByOne DEF AllLeft
<1>3. dt \in -1 .. MaxDt /\ MaxDt \in Nat
  BY HostAssumption DEF IInv, TypeOK
<1>4. ASSUME NEW s \in todo, InitValid(s) \/ SkipInvalid(s) PROVE Asked'
  <2>1. /\ scheme' = [scheme EXCEPT ![s] = SchemeAfterChecks(@, mesh)]
        /\ todo' = todo \ {s} /\ UNCHANGED <<planes, dt, failed>>
        /\ pc = "loop" /\ s \in DOMAIN scheme /\ s \in SchemeIds
    BY <1>4 DEF InitValid, SkipInvalid, ChecksOf, IInv, TypeOK
  <2>2. AllLeft(mesh', mesh)
    BY <1>4, ChecksKeepMesh
  <2>3. \/ cur' = s /\ verdict' = [verdict EXCEPT ![s] = "valid"]
        \/ cur' = cur /\ verdict' = [verdict EXCEPT ![s] = "skipped"]
    BY <1>4 DEF InitValid, SkipInvalid
  <2>4. SUFFICES ASSUME dt >= 1, NEW t \in DOMAIN scheme', Applied(t)' PROVE Moving(t)'
    BY <2>1 DEF Asked
  <2>5. t # s
    <3> SUFFICES ASSUME t = s PROVE FALSE
      OBVIOUS
    <3>1. cur' # s /\ verdict'[s] = "valid"
      BY <2>4 DEF Applied
    <3>2. verdict \in [SchemeIds -> {"none", "valid", "skipped"}]
      BY DEF IInv, TypeOK
    <3> QED BY <2>1, <2>3, <3>1, <3>2
  <2>6. t \in DOMAIN scheme /\ scheme'[t] = scheme[t] /\ t \in SchemeIds
    BY <2>1, <2>4, <2>5 DEF IInv, TypeOK
  <2>7. verdict'[t] = verdict[t] /\ t # cur
    <3>1. cur = NoScheme
      BY <2>1 DEF IInv, LoopVariables
    <3>2. t # cur
      BY <2>6, <3>1, HostAssumption
    <3> QED BY <2>3, <2>5, <2>6, <3>2 DEF IInv, TypeOK
  <2>8. Applied(t)
    BY <2>1, <2>4, <2>5, <2>6, <2>7 DEF Applied
  <2> QED BY <2>1, <2>2, <2>4, <2>6, <2>8, MovingStays DEF Asked
<1>5. CASE KeepPairs
  BY <1>5 DEF KeepPairs, hostVars, Asked, Applied, Moving, SideOf
<1>6. CASE FindPairs
  <2>1. /\ pc = "binning" /\ UNCHANGED <<mesh, cur, todo, planes, dt, failed, verdict>>
        /\ DOMAIN scheme' = DOMAIN scheme /\ pc' = "apply"
        /\ \A s \in DOMAIN scheme : s # cur => scheme'[s] = scheme[s]
    BY <1>6, SearchKeeps DEF FindPairs
  <2>2. SUFFICES ASSUME dt >= 1, NEW t \in DOMAIN scheme', Applied(t)' PROVE Moving(t)'
    BY <2>1 DEF Asked
  <2>3. t \in DOMAIN scheme /\ t # cur /\ Applied(t) /\ scheme'[t] = scheme[t]
    BY <2>1, <2>2 DEF Applied
  <2> QED BY <1>2, <2>1, <2>2, <2>3, MovingStays DEF Asked
<1>7. ASSUME NEW P, Apply(P) PROVE Asked'
  <2>1. /\ pc = "apply" /\ UNCHANGED <<mesh, scheme, todo, verdict>> /\ cur \in DOMAIN scheme
        /\ planes' = [planes EXCEPT ![cur] = P] /\ cur \in SchemeIds
        /\ dt' \in IF PhysicsFails(scheme[cur]) \/ P = {} THEN {dt} ELSE computeTimeStep(scheme[cur])
        /\ failed' = IF PhysicsFails(scheme[cur]) THEN failed \cup {cur} ELSE failed
    BY <1>7 DEF Apply, IInv, TypeOK
  <2>2. planes'[cur] = P /\ \A s \in SchemeIds : s # cur => planes'[s] = planes[s]
    BY <2>1 DEF IInv, TypeOK
  <2>3. SUFFICES ASSUME dt' >= 1, NEW t \in DOMAIN scheme', Applied(t)' PROVE Moving(t)'
    BY DEF Asked
  <2>4. dt >= 1
    BY <1>3, <2>1, <2>3 DEF computeTimeStep
  <2>5. CASE t # cur
    <3>1. t \in SchemeIds
      BY <2>1, <2>3 DEF IInv, TypeOK
    <3>2. t \in DOMAIN scheme /\ Applied(t)
      BY <2>1, <2>2, <2>3, <2>5, <3>1 DEF Applied
    <3>3. Moving(t)
      BY <2>1, <2>4, <3>2 DEF Asked
    <3> QED BY <1>2, <2>1, <3>2, <3>3, MovingStays
  <2>6. CASE t = cur
    <3> DEFINE S  == scheme[cur]
               M1 == mesh[S.m1]
               M2 == mesh[S.m2]
    <3>1. P # {} /\ ~PhysicsFails(S)
      BY <2>1, <2>2, <2>3, <2>6 DEF Applied
    <3>2. dt' \in computeTimeStep(S)
      BY <2>1, <3>1
    <3>3. "velView" \in M1.has \cap M2.has \/ nullMeshes(M1, M2)
      BY <1>3, <2>3, <2>4, <3>2 DEF computeTimeStep
    <3>4. {S.m1, S.m2} \subseteq DOMAIN mesh
      BY <2>1 DEF Registered, InScheme
    <3>5. scheme' = scheme /\ mesh' = mesh
      BY <2>1
    <3>6. Moving(cur)
      BY <3>3, <3>4 DEF Moving, SideOf
    <3> QED BY <2>6, <3>5, <3>6 DEF Moving, SideOf
  <2> QED BY <2>5, <2>6
<1>8. CASE pc' = "idle"
  BY <1>8 DEF Asked
<1>9. ASSUME NEW d \in 0 .. MaxDt, BeginUpdate(d) PROVE Asked'
  BY <1>9 DEF BeginUpdate, hostVars, Asked, Applied
<1>10. CASE pc # "idle" /\ UNCHANGED <<mesh, scheme, planes, todo, cur, dt, failed, verdict>> /\ pc' = "aborted"
  BY <1>10 DEF Asked, Applied, Moving, SideOf
<1>11. CASE UNCHANGED vars
  BY <1>11 DEF vars, hostVars, Asked, Applied, Moving, SideOf
<1>12. Registration => pc' = "idle"
  BY DEF Registration, RegisterMesh, RegisterNodalVelocities, RegisterNodalResponse,
     RegisterNodalReferenceCoords, RegisterMortarGaps, RegisterMortarPressures, SetScalar,
     RegisterModulus, RegisterThickness, OnMesh, RegisterCouplingScheme, SetPenaltyOptions,
     SetLagrangeMultiplierOptions, EnableTimestepVote, EnableEnzyme, OnScheme, MoveMesh,
     Finalize, HostCall
<1>13. Update =>
         \/ \E s \in todo : InitValid(s) \/ SkipInvalid(s)
         \/ KeepPairs \/ FindPairs \/ pc' = "idle" \/ \E P : Apply(P)
         \/ pc # "idle" /\ UNCHANGED <<mesh, scheme, planes, todo, cur, dt, failed, verdict>> /\ pc' = "aborted"
  BY DEF Update, AbortInInit, AbortInApply, Abort, EndUpdate
<1> QED BY <1>4, <1>5, <1>6, <1>7, <1>8, <1>9, <1>10, <1>11, <1>12, <1>13 DEF Next, Aborted

\* A time step above the threshold reaches the host only if the velocities were there of every scheme of
\* this update that has contact planes between two meshes with elements (computeTimeStep asks before it looks at
\* whether the scheme votes).
THEOREM StepAsksVelocities == Spec => []StepNeedsVelocities
<1>1. Init => Asked
  BY DEF Init, Asked
<1>2. Asked => StepNeedsVelocities
  BY DEF Asked, StepNeedsVelocities, Applied, Moving
<1> QED BY <1>1, <1>2, AskedStep, Invariance, RegisteredHolds, PTL DEF Spec
-----------------------------------------------------------------------------
(***************************************************************************)
(* What the kernels read.  A flag on a mesh with elements stands for its   *)
(* arrays, because registration refuses a null array for such a mesh; and  *)
(* the checks, which look at flags, run before every search.               *)
(***************************************************************************)
FlagsHaveArrays(M) ==
  M.nelem > 0 =>
    /\ "kinElem" \in M.has => {"modulusArray", "thicknessArray"} \subseteq M.has
    /\ "thickness" \in M.has => "thicknessArray" \in M.has
AllFlagsHaveArrays == \A m \in DOMAIN mesh : FlagsHaveArrays(mesh[m])

\* The reads of the two kernels whose data the checks ask for.
CheckedReads(s) ==
  (IF "normal" \in Kernels(s) THEN PenaltyReads(s) ELSE {})
  \cup (IF "mortar" \in Kernels(s) THEN MortarReads(s) ELSE {})

CheckedDataRegistered ==
  /\ AllFlagsHaveArrays
  /\ InScheme => LET S == scheme[cur]
                 IN \/ nullMeshes(mesh[S.m1], mesh[S.m2])
                    \/ Covered(S, CheckedReads(S))

LEMMA FlagsByCall ==
  ASSUME NEW M \in MeshRecord, FlagsHaveArrays(M), NEW ok \in BOOLEAN, NEW value,
         AcceptsValue(M, value)
  PROVE  /\ FlagsHaveArrays(registerNodalVelocities(M, ok))
         /\ FlagsHaveArrays(registerNodalResponse(M, ok))
         /\ FlagsHaveArrays(registerNodalReferenceCoords(M))
         /\ \A f \in {"gap", "pressure"} : FlagsHaveArrays(registerMortarField(M, f, ok))
         /\ \A f \in ScalarFields : FlagsHaveArrays(registerScalar(M, f, value))
         /\ FlagsHaveArrays(registerModulus(M, value))
         /\ FlagsHaveArrays(registerThickness(M, value))
<1> DEFINE Other == MeshFields \ {"kinElem", "thickness", "modulusArray", "thicknessArray"}
<1>1. \A F \in SUBSET Other : FlagsHaveArrays(Put(M, F)) /\ FlagsHaveArrays(Drop(M, F))
  BY DEF FlagsHaveArrays, Put, Drop, MeshRecord
<1>2. \A f : \A v : Value(M, f, v).has = M.has /\ Value(M, f, v).nelem = M.nelem
  BY DEF Value, MeshRecord
<1>3. /\ {{"velocity"}, {"velView"}, {"velocity", "velView"}, {"response"}, {"refPosition"},
          {"gap"}, {"pressure"}} \subseteq SUBSET Other
      /\ \A f \in ScalarFields : {f} \in SUBSET Other
  BY DEF MeshFields, ScalarFields, NodalFields
<1>4. FlagsHaveArrays(registerNodalVelocities(M, ok))
  <2>1. Drop(M, {"velocity"}).has = M.has \ {"velocity"} /\ Drop(M, {"velocity"}).nelem = M.nelem
    BY DEF Drop, MeshRecord
  <2>2. Drop(M, {"velocity"}) \in MeshRecord
    BY MeshOps DEF MeshFields, NodalFields
  <2>3. FlagsHaveArrays(Put(Drop(M, {"velocity"}), {"velView"}))
    BY <2>1, <2>2 DEF FlagsHaveArrays, Put, MeshRecord
  <2> QED BY <1>1, <1>3, <2>3 DEF registerNodalVelocities
<1>5. /\ FlagsHaveArrays(registerNodalResponse(M, ok))
      /\ FlagsHaveArrays(registerNodalReferenceCoords(M))
  BY <1>1, <1>3 DEF registerNodalResponse, registerNodalReferenceCoords
<1>6. \A f \in {"gap", "pressure"} : FlagsHaveArrays(registerMortarField(M, f, ok))
  <2>1. FlagsHaveArrays([M EXCEPT !.valid = FALSE])
    BY DEF FlagsHaveArrays, MeshRecord
  <2> QED BY <1>1, <1>3, <2>1 DEF registerMortarField
<1>7. ASSUME NEW f \in ScalarFields PROVE FlagsHaveArrays(registerScalar(M, f, value))
  <2>1. FlagsHaveArrays(Put(M, {f})) /\ Put(M, {f}) \in MeshRecord
    BY <1>1, <1>3, MeshOps
  <2>2. FlagsHaveArrays(Value(Put(M, {f}), f, value))
    BY <2>1 DEF FlagsHaveArrays, Value, MeshRecord
  <2> QED BY <2>1, <2>2 DEF registerScalar
<1>8. CASE value = "null"
  <2>1. M.nelem = 0
    BY <1>8 DEF AcceptsValue, IsNull
  <2> QED BY <1>4, <1>5, <1>6, <1>7, <1>8, <2>1
          DEF registerModulus, registerThickness, FlagsHaveArrays, Put, MeshRecord
<1>9. CASE value # "null"
  <2>1. ASSUME NEW f \in CheckedValues, NEW F \in SUBSET MeshFields
        PROVE  LET A == Put(Value(M, f, value), F)
               IN  /\ A.has = M.has \cup F /\ A.nelem = M.nelem
                   /\ Put(A, {"kinElem"}).has = M.has \cup F \cup {"kinElem"}
                   /\ Put(A, {"kinElem"}).nelem = M.nelem
    BY DEF Put, Value, MeshRecord
  <2>2. FlagsHaveArrays(registerModulus(M, value))
    <3> DEFINE F == IF IsNull(M) THEN {} ELSE {"modulusArray"}
               A == Put(Value(M, "modulusArray", value), F)
    <3>1. F \in SUBSET MeshFields /\ "modulusArray" \in CheckedValues
      BY DEF MeshFields, ElementArrays, CheckedValues
    <3>2. /\ A.has = M.has \cup F /\ A.nelem = M.nelem
          /\ Put(A, {"kinElem"}).has = M.has \cup F \cup {"kinElem"}
          /\ Put(A, {"kinElem"}).nelem = M.nelem
      BY <2>1, <3>1
    <3>3. registerModulus(M, value) =
            IF "thicknessArray" \in M.has THEN Put(A, {"kinElem"}) ELSE A
      BY <1>9 DEF registerModulus
    <3>4. M.nelem > 0 => F = {"modulusArray"}
      BY DEF IsNull
    <3> HIDE DEF A, F
    <3> QED BY <3>2, <3>3, <3>4 DEF FlagsHaveArrays
  <2>3. FlagsHaveArrays(registerThickness(M, value))
    <3> DEFINE F == {"thickness"} \cup IF IsNull(M) THEN {} ELSE {"thicknessArray"}
               A == Put(Value(M, "thicknessArray", value), F)
    <3>1. F \in SUBSET MeshFields /\ "thicknessArray" \in CheckedValues
      BY DEF MeshFields, ElementArrays, ElementFlags, CheckedValues
    <3>2. /\ A.has = M.has \cup F /\ A.nelem = M.nelem
          /\ Put(A, {"kinElem"}).has = M.has \cup F \cup {"kinElem"}
          /\ Put(A, {"kinElem"}).nelem = M.nelem
      BY <2>1, <3>1
    <3>3. registerThickness(M, value) =
            IF "modulusArray" \in M.has THEN Put(A, {"kinElem"}) ELSE A
      BY <1>9 DEF registerThickness
    <3>4. M.nelem > 0 => F = {"thickness", "thicknessArray"}
      BY DEF IsNull
    <3> HIDE DEF A, F
    <3> QED BY <3>2, <3>3, <3>4 DEF FlagsHaveArrays
  <2> QED BY <1>4, <1>5, <1>6, <1>7, <2>2, <2>3
<1> QED BY <1>8, <1>9

LEMMA FlagsLeft ==
  ASSUME NEW A, NEW B \in MeshRecord, Left(A, B), FlagsHaveArrays(B) PROVE FlagsHaveArrays(A)
BY DEF FlagsHaveArrays, Left

\* No registration call separates a flag from its arrays.
LEMMA FlagsByRegistration == ASSUME IInv, AllFlagsHaveArrays, Registration PROVE AllFlagsHaveArrays'
<1>1. \A m \in DOMAIN mesh : mesh[m] \in MeshRecord /\ FlagsHaveArrays(mesh[m])
  BY DEF IInv, TypeOK, AllFlagsHaveArrays
<1>2. ASSUME NEW m \in DOMAIN mesh, NEW M, FlagsHaveArrays(M), OnMesh(m, M)
      PROVE  AllFlagsHaveArrays'
  BY <1>1, <1>2 DEF OnMesh, AllFlagsHaveArrays
<1>3. ASSUME NEW m \in MeshIds, NEW in \in MeshInputs, RegisterMesh(m, in)
      PROVE  AllFlagsHaveArrays'
  <2>1. FlagsHaveArrays(NewMesh(in))
    BY DEF FlagsHaveArrays, NewMesh
  <2> QED BY <1>1, <1>3, <2>1 DEF RegisterMesh, Add, AllFlagsHaveArrays
<1>4. ASSUME NEW m \in DOMAIN mesh, NEW ok \in BOOLEAN,
             \/ RegisterNodalVelocities(m, ok) \/ RegisterNodalResponse(m, ok)
             \/ RegisterNodalReferenceCoords(m, ok)
             \/ RegisterMortarGaps(m, ok) \/ RegisterMortarPressures(m, ok)
      PROVE  AllFlagsHaveArrays'
  <2>1. AcceptsValue(mesh[m], "good")
    BY DEF AcceptsValue
  <2>2. PICK M : FlagsHaveArrays(M) /\ OnMesh(m, M)
    BY <1>1, <1>4, <2>1, FlagsByCall DEF RegisterNodalVelocities, RegisterNodalResponse,
       RegisterNodalReferenceCoords, RegisterMortarGaps, RegisterMortarPressures
  <2> QED BY <1>2, <2>2
<1>5. ASSUME NEW m \in DOMAIN mesh, NEW value \in {"null", "good", "low"},
             \/ \E f \in ScalarFields : SetScalar(m, f, value)
             \/ RegisterModulus(m, value) \/ RegisterThickness(m, value)
      PROVE  AllFlagsHaveArrays'
  <2>1. AcceptsValue(mesh[m], value)
    BY <1>5 DEF SetScalar, RegisterModulus, RegisterThickness
  <2>2. PICK M : FlagsHaveArrays(M) /\ OnMesh(m, M)
    BY <1>1, <1>5, <2>1, FlagsByCall DEF SetScalar, RegisterModulus, RegisterThickness
  <2> QED BY <1>2, <2>2
<1>6. CASE UNCHANGED mesh
  BY <1>1, <1>6 DEF AllFlagsHaveArrays
<1>7. CASE Finalize
  BY <1>7 DEF Finalize, AllFlagsHaveArrays
<1>8. (\E s \in SchemeIds, in \in SchemeInputs, lm \in Uninitialised :
         RegisterCouplingScheme(s, in, lm)) => UNCHANGED mesh
  BY DEF RegisterCouplingScheme
<1>9. (\E s \in DOMAIN scheme :
         \/ \E o \in Args["setPenaltyOptions"] : SetPenaltyOptions(s, o)
         \/ \E lm \in Args["setLagrangeMultiplierOptions"] : SetLagrangeMultiplierOptions(s, lm)
         \/ \E b \in BOOLEAN : EnableTimestepVote(s, b) \/ EnableEnzyme(s, b))
        \/ (\E m \in MovingMeshes, p \in Positions : MoveMesh(m, p)) => UNCHANGED mesh
  BY DEF SetPenaltyOptions, SetLagrangeMultiplierOptions, EnableTimestepVote, EnableEnzyme,
     OnScheme, MoveMesh
<1> QED BY <1>3, <1>4, <1>5, <1>6, <1>7, <1>8, <1>9 DEF Registration

\* The fields the penalty kernel reads of each side.
PenaltyFields(s) ==
  {"response"}
  \cup (IF s.pen.kin = "KINEMATIC_ELEMENT" THEN {"modulusArray", "thicknessArray"}
        ELSE {"kinConst"})
  \cup (IF s.autoCheck THEN {"thicknessArray"} ELSE {})
  \cup (IF s.pen.type = "KINEMATIC_AND_RATE" /\ s.pen.rate # "NO_RATE_PENALTY"
        THEN {"velocity", IF s.pen.rate = "RATE_CONSTANT" THEN "rateConst" ELSE "ratePct"}
        ELSE {})

LEMMA PenaltyReadsFields ==
  ASSUME NEW s PROVE \A r \in PenaltyReads(s) : r[1] \in {1, 2} /\ r[2] \in PenaltyFields(s)
BY DEF PenaltyReads, PenaltyFields, Both

\* The penalty checks look at one mesh at a time.
LEMMA PenaltyDataChecked ==
  ASSUME NEW M \in MeshRecord, NEW s \in SchemeRecord, M.nelem # 0, FlagsHaveArrays(M),
         PenaltyDataOK(M, s.pen), s.autoCheck => "thickness" \in M.has, "response" \in M.has
  PROVE  PenaltyFields(s) \subseteq M.has
<1>1. M.nelem > 0
  BY DEF MeshRecord
<1>2. /\ "kinElem" \in M.has => {"modulusArray", "thicknessArray"} \subseteq M.has
      /\ "thickness" \in M.has => "thicknessArray" \in M.has
  BY <1>1 DEF FlagsHaveArrays
<1>3. /\ isValidKinematicPenalty(M, s.pen)
      /\ s.pen.type = "KINEMATIC_AND_RATE" => isValidRatePenalty(M, s.pen) /\ "velocity" \in M.has
  BY DEF PenaltyDataOK, IsNull
<1> QED BY <1>2, <1>3 DEF PenaltyFields, isValidKinematicPenalty, isValidRatePenalty

\* Checks of a scheme whose meshes match take no mesh out of use, and a scheme with a rate
\* penalty keeps its flags: only one without clears any.
LEMMA MatchedChecks ==
  ASSUME NEW mm, \A m \in DOMAIN mm : mm[m] \in MeshRecord, NEW s,
         ReachesChecks(s, mm), mm[s.m1].space = mm[s.m2].space,
         NEW mn \in {MeshesAfterChecks(s, mm), FaceDataOf(s, MeshesAfterChecks(s, mm))}
  PROVE  \A m \in DOMAIN mm :
           /\ mn[m].valid = mm[m].valid
           /\ s.pen.rate # "NO_RATE_PENALTY" => mm[m].has \subseteq mn[m].has
<1> DEFINE m1 == [mm EXCEPT ![s.m1] = afterPenaltyCheck(@, s.pen)]
           m2 == [m1 EXCEPT ![s.m2] = afterPenaltyCheck(@, s.pen)]
           mo == MeshesAfterChecks(s, mm)
           Kept(A, B) == /\ A \in MeshRecord /\ A.valid = B.valid
                         /\ s.pen.rate # "NO_RATE_PENALTY" => B.has \subseteq A.has
<1>1. mo \in {mm, m1, m2}
  BY DEF PenaltyChecked, MeshesAfterChecks, ReachesChecks
<1>2. ASSUME NEW M \in MeshRecord
      PROVE  Kept(afterPenaltyCheck(M, s.pen), M) /\ Kept(computeFaceData(M), M)
  <2>1. afterPenaltyCheck(M, s.pen) \in MeshRecord /\ computeFaceData(M) \in MeshRecord
    BY MeshUpdates
  <2> QED BY <2>1 DEF afterPenaltyCheck, ClearRateFlag, computeFaceData, Put, Drop, MeshRecord
<1>3. \A A, B, C : Kept(A, B) /\ Kept(B, C) => Kept(A, C)
  OBVIOUS
<1>4. \A m \in DOMAIN mm : Kept(mm[m], mm[m])
  OBVIOUS
<1> HIDE DEF Kept
<1>5. DOMAIN m1 = DOMAIN mm /\ \A m \in DOMAIN mm : Kept(m1[m], mm[m])
  BY <1>2, <1>4
<1>6. DOMAIN m2 = DOMAIN mm /\ \A m \in DOMAIN mm : Kept(m2[m], m1[m])
  <2>1. \A m \in DOMAIN mm : m1[m] \in MeshRecord /\ Kept(m1[m], m1[m])
    BY <1>5 DEF Kept
  <2> QED BY <1>2, <1>5, <2>1
<1> HIDE DEF m1, m2
<1>7. DOMAIN mo = DOMAIN mm /\ \A m \in DOMAIN mm : Kept(mo[m], mm[m])
  BY <1>1, <1>3, <1>4, <1>5, <1>6
<1> HIDE DEF mo
<1>8. \A m \in DOMAIN mm : FaceDataOf(s, mo)[m] \in {mo[m], computeFaceData(mo[m])}
  BY <1>7 DEF FaceDataOf
<1>9. \A m \in DOMAIN mm : Kept(FaceDataOf(s, mo)[m], mm[m])
  <2>1. \A m \in DOMAIN mm : mo[m] \in MeshRecord
    BY <1>7 DEF Kept
  <2> QED BY <1>2, <1>3, <1>7, <1>8, <2>1
<1> QED BY <1>7, <1>9 DEF Kept, mo

LEMMA DataStays ==
  ASSUME IInv, NEW s \in todo, InitValid(s), NEW m \in DOMAIN mesh
  PROVE  /\ \A f \in mesh[m].has : f \notin {"rateConst", "ratePct"} => f \in mesh'[m].has
         /\ scheme[s].pen.rate # "NO_RATE_PENALTY" => mesh[m].has \subseteq mesh'[m].has
         /\ mesh'[m].nelem = mesh[m].nelem
<1>1. \A n \in DOMAIN mesh : mesh[n] \in MeshRecord
  BY DEF IInv, TypeOK
<1>2. AllLeft(mesh', mesh)
  BY Accepted
<1>3. /\ \A f \in mesh[m].has : f \notin {"rateConst", "ratePct"} => f \in mesh'[m].has
      /\ mesh'[m].nelem = mesh[m].nelem
  BY <1>2 DEF AllLeft, Left
<1>4. ASSUME scheme[s].pen.rate # "NO_RATE_PENALTY" PROVE mesh[m].has \subseteq mesh'[m].has
  <2>1. /\ ReachesChecks(scheme[s], mesh)
        /\ mesh[scheme[s].m1].space = mesh[scheme[s].m2].space
    BY Accepted DEF ChecksPass, checkExecutionMode
  <2>2. mesh' = FaceDataOf(scheme[s], MeshesAfterChecks(scheme[s], mesh))
    BY DEF InitValid
  <2> QED BY <1>1, <1>4, <2>1, <2>2, MatchedChecks
<1> QED BY <1>3, <1>4

LEMMA ChecksCoverReads ==
  ASSUME IInv, AllFlagsHaveArrays, NEW s \in todo, InitValid(s),
         ~nullMeshes(mesh[scheme[s].m1], mesh[scheme[s].m2])
  PROVE  LET T == scheme'[s]
         IN  \A r \in CheckedReads(T) : r[2] \in mesh'[IF r[1] = 1 THEN T.m1 ELSE T.m2].has
<1> DEFINE S  == scheme[s]
           T  == scheme'[s]
           M1 == mesh[S.m1]
           M2 == mesh[S.m2]
<1>1. /\ S \in SchemeRecord /\ {S.m1, S.m2} \subseteq DOMAIN mesh
      /\ M1 \in MeshRecord /\ M2 \in MeshRecord
      /\ ReachesChecks(S, mesh) /\ ChecksPass(S, M1, M2)
      /\ T = SchemeAfterChecks(S, mesh)
  BY Accepted
<1>2. /\ T.method = S.method /\ T.m1 = S.m1 /\ T.m2 = S.m2 /\ T.pen = S.pen
      /\ T.autoCheck = AutoCheckAfter(S)
  BY <1>1, CheckedFields
<1>3. M1.nelem # 0 /\ M2.nelem # 0
  BY DEF nullMeshes, IsNull
<1>4. S.method # "MORTAR_WEIGHTS" => "response" \in M1.has /\ "response" \in M2.has
  BY <1>1 DEF ChecksPass, isValidMethod
<1>5. T \in SchemeRecord
  BY <1>1, ChecksKeepScheme DEF IInv, TypeOK
<1>6. ASSUME "normal" \in Kernels(T)
      PROVE  \A r \in PenaltyReads(T) : r[2] \in mesh'[IF r[1] = 1 THEN T.m1 ELSE T.m2].has
  <2>1. S.method = "COMMON_PLANE"
    BY <1>2, <1>6 DEF Kernels
  <2>2. T.autoCheck => "thickness" \in M1.has \cap M2.has
    BY <1>1, <1>2, <2>1 DEF ChecksPass, isValidCase, AutoCheckAfter
  <2>3. PenaltyDataOK(M1, T.pen) /\ PenaltyDataOK(M2, T.pen)
    BY <1>1, <1>2, <2>1 DEF ChecksPass, EnforcementDataOK
  <2>4. FlagsHaveArrays(M1) /\ FlagsHaveArrays(M2)
    BY <1>1 DEF AllFlagsHaveArrays
  <2>5. PenaltyFields(T) \subseteq M1.has
    BY <1>1, <1>3, <1>4, <1>5, <2>1, <2>2, <2>3, <2>4, PenaltyDataChecked
  <2>6. PenaltyFields(T) \subseteq M2.has
    BY <1>1, <1>3, <1>4, <1>5, <2>1, <2>2, <2>3, <2>4, PenaltyDataChecked
  <2>7. {"rateConst", "ratePct"} \cap PenaltyFields(T) # {} => T.pen.rate # "NO_RATE_PENALTY"
    BY DEF PenaltyFields
  <2>8. ASSUME NEW m \in {S.m1, S.m2} PROVE PenaltyFields(T) \subseteq mesh'[m].has
    <3>1. /\ \A f \in mesh[m].has : f \notin {"rateConst", "ratePct"} => f \in mesh'[m].has
          /\ S.pen.rate # "NO_RATE_PENALTY" => mesh[m].has \subseteq mesh'[m].has
      BY <1>1, <2>8, DataStays
    <3>2. PenaltyFields(T) \subseteq mesh[m].has
      BY <2>5, <2>6, <2>8
    <3> QED BY <1>2, <2>7, <3>1, <3>2
  <2> QED BY <1>2, <2>8, PenaltyReadsFields
<1>7. ASSUME "mortar" \in Kernels(T)
      PROVE  \A r \in MortarReads(T) : r[2] \in mesh'[IF r[1] = 1 THEN T.m1 ELSE T.m2].has
  <2>1. S.method \in {"SINGLE_MORTAR", "ALIGNED_MORTAR"}
    BY <1>2, <1>7 DEF Kernels
  <2>2. {"gap", "pressure"} \subseteq M2.has
    BY <1>1, <1>3, <2>1 DEF ChecksPass, EnforcementDataOK, LagrangeMultiplierDataOK, IsNull
  <2>3. \A r \in MortarReads(T) :
          \/ r[1] \in {1, 2} /\ r[2] = "response"
          \/ r[1] = 2 /\ r[2] \in {"gap", "pressure"}
    BY DEF MortarReads, Both
  <2>4. /\ "response" \in mesh'[S.m1].has
        /\ {"response", "gap", "pressure"} \subseteq mesh'[S.m2].has
    BY <1>1, <1>4, <2>1, <2>2, DataStays
  <2> QED BY <1>2, <2>3, <2>4
<1> QED BY <1>6, <1>7 DEF CheckedReads

LEMMA CheckedDataHolds == Spec => []CheckedDataRegistered
<1>1. Init => CheckedDataRegistered
  BY DEF Init, CheckedDataRegistered, AllFlagsHaveArrays, InScheme
<1>2. ASSUME IInv, CheckedDataRegistered, [Next]_vars PROVE CheckedDataRegistered'
  <2>1. AllFlagsHaveArrays'
    <3>1. CASE Registration
      BY <1>2, <3>1, FlagsByRegistration DEF CheckedDataRegistered
    <3>2. ASSUME NEW s \in todo, InitValid(s) \/ SkipInvalid(s) PROVE AllFlagsHaveArrays'
      <4>1. AllLeft(mesh', mesh)
        BY <1>2, <3>2, ChecksKeepMesh
      <4>2. \A m \in DOMAIN mesh : mesh[m] \in MeshRecord /\ FlagsHaveArrays(mesh[m])
        BY <1>2 DEF IInv, TypeOK, CheckedDataRegistered, AllFlagsHaveArrays
      <4> QED BY <4>1, <4>2, FlagsLeft DEF AllLeft, AllFlagsHaveArrays
    <3>3. CASE UNCHANGED mesh
      BY <1>2, <3>3 DEF CheckedDataRegistered, AllFlagsHaveArrays
    <3>4. Update => UNCHANGED mesh \/ \E s \in todo : InitValid(s) \/ SkipInvalid(s)
      BY DEF Update, AbortInInit, KeepPairs, FindPairs, Apply, AbortInApply, Abort, EndUpdate,
         hostVars
    <3>5. (\E d \in 0 .. MaxDt : BeginUpdate(d)) \/ Aborted \/ UNCHANGED vars => UNCHANGED mesh
      BY DEF BeginUpdate, Aborted, vars, hostVars
    <3> QED BY <1>2, <3>1, <3>2, <3>3, <3>4, <3>5 DEF Next
  <2>2. ASSUME NEW s \in todo, InitValid(s) PROVE CheckedDataRegistered'
    <3> DEFINE S == scheme[s]
    <3>1. /\ {S.m1, S.m2} \subseteq DOMAIN mesh /\ S \in SchemeRecord
          /\ scheme'[s] = SchemeAfterChecks(S, mesh) /\ cur' = s
      BY <1>2, <2>2, Accepted
    <3>2. scheme'[s].m1 = S.m1 /\ scheme'[s].m2 = S.m2
      BY <3>1, CheckedFields
    <3>3. mesh'[S.m1].nelem = mesh[S.m1].nelem /\ mesh'[S.m2].nelem = mesh[S.m2].nelem
      BY <1>2, <2>2, <3>1, DataStays
    <3>4. CASE nullMeshes(mesh[S.m1], mesh[S.m2])
      BY <2>1, <3>1, <3>2, <3>3, <3>4 DEF CheckedDataRegistered, nullMeshes, IsNull
    <3>5. CASE ~nullMeshes(mesh[S.m1], mesh[S.m2])
      <4>1. \A r \in CheckedReads(scheme'[s]) :
              r[2] \in mesh'[IF r[1] = 1 THEN scheme'[s].m1 ELSE scheme'[s].m2].has
        BY <1>2, <2>2, <3>5, ChecksCoverReads DEF CheckedDataRegistered
      <4> QED BY <2>1, <3>1, <4>1 DEF CheckedDataRegistered, Covered, SideOf
    <3> QED BY <3>4, <3>5
  <2>3. CASE KeepPairs
    <3>1. pc = "binning" /\ UNCHANGED <<mesh, scheme, cur>>
      BY <2>3 DEF KeepPairs, hostVars
    <3> QED BY <1>2, <2>1, <3>1 DEF CheckedDataRegistered, InScheme, Covered, SideOf
  <2>4. CASE FindPairs
    <3>1. pc = "binning" /\ UNCHANGED <<mesh, cur>> /\ SameRequest(scheme'[cur], scheme[cur])
      BY <1>2, <2>4, SearchKeeps, SearchKeepsRequest
    <3>2. CheckedReads(scheme'[cur]) = CheckedReads(scheme[cur])
      BY <3>1 DEF CheckedReads, Kernels, PenaltyReads, MortarReads, SameRequest
    <3> QED BY <1>2, <2>1, <3>1, <3>2
            DEF CheckedDataRegistered, InScheme, Covered, SideOf, SameRequest
  <2>5. CASE pc' \in {"idle", "loop", "aborted"}
    BY <2>1, <2>5 DEF CheckedDataRegistered, InScheme
  <2>6. CASE UNCHANGED vars
    BY <1>2, <2>1, <2>6 DEF vars, hostVars, CheckedDataRegistered, InScheme, Covered, SideOf
  <2> QED BY <1>2, <2>2, <2>3, <2>4, <2>5, <2>6, ThreadMoves
<1> QED BY <1>1, <1>2, Invariance, PTL DEF Spec

\* A host that asks for none of the three kernels whose data no check looks for: the
\* tangential one (velocities), the one of mortar weights (gaps) and Enzyme's (the
\* reference configuration).
ChecksKnowTheKernels ==
  /\ ~UseEnzyme
  /\ \A in \in SchemeInputs :
       /\ in.method # "MORTAR_WEIGHTS"
       /\ in.method = "COMMON_PLANE" => in.model # "VISCOUS_TANGENTIAL"

Known(s) ==
  /\ ~s.enzyme
  /\ s.method # "MORTAR_WEIGHTS"
  /\ s.method = "COMMON_PLANE" => s.model # "VISCOUS_TANGENTIAL"

LEMMA KnownReads == ASSUME NEW s, Known(s) PROVE KernelReads(s) = CheckedReads(s)
<1>1. ~EnzymeKernel(s) /\ "weights" \notin Kernels(s) /\ "tangential" \notin Kernels(s)
  BY DEF Known, EnzymeKernel, Kernels
<1> QED BY <1>1 DEF KernelReads, CheckedReads

\* What a step makes of the schemes: some are new, the others keep what they ask for.
Descends(t, s) ==
  /\ t.method = s.method /\ t.model = s.model
  /\ t.case \in {s.case, RepairedCase(s)}
  /\ t.enzyme => s.enzyme \/ UseEnzyme

LEMMA SchemeSteps ==
  ASSUME IInv, [Next]_vars
  PROVE  \A s \in DOMAIN scheme' :
           \/ \E in \in SchemeInputs, lm \in Uninitialised : scheme'[s] = NewScheme(in, lm)
           \/ s \in DOMAIN scheme /\ Descends(scheme'[s], scheme[s])
<1>1. \A s \in DOMAIN scheme : scheme[s] \in SchemeRecord /\ Descends(scheme[s], scheme[s])
  BY DEF IInv, TypeOK, Descends
<1> DEFINE Fresh(t) == \E in \in SchemeInputs, lm \in Uninitialised : t = NewScheme(in, lm)
           Goal == \A s \in DOMAIN scheme' :
                     \/ Fresh(scheme'[s])
                     \/ s \in DOMAIN scheme /\ Descends(scheme'[s], scheme[s])
<1> HIDE DEF Fresh
<1>2. CASE UNCHANGED scheme
  BY <1>1, <1>2
<1>3. ASSUME NEW s \in DOMAIN scheme, NEW S, OnScheme(s, S), Descends(S, scheme[s])
      PROVE  Goal
  BY <1>1, <1>3 DEF OnScheme
<1>4. ASSUME NEW s \in SchemeIds, NEW in \in SchemeInputs, NEW lm \in Uninitialised,
             RegisterCouplingScheme(s, in, lm)
      PROVE  Goal
  <2>1. Fresh(NewScheme(in, lm))
    BY DEF Fresh
  <2>2. scheme' = Add(scheme, s, NewScheme(in, lm))
    BY <1>4 DEF RegisterCouplingScheme
  <2>3. DOMAIN scheme' = DOMAIN scheme \cup {s}
    BY <2>2 DEF Add
  <2>4. \A t \in DOMAIN scheme \cup {s} :
          scheme'[t] = IF t = s THEN NewScheme(in, lm) ELSE scheme[t]
    BY <2>2 DEF Add
  <2> QED BY <1>1, <2>1, <2>3, <2>4
<1>5. ASSUME NEW s \in DOMAIN scheme,
             \/ \E o \in Args["setPenaltyOptions"] : SetPenaltyOptions(s, o)
             \/ \E lm \in Args["setLagrangeMultiplierOptions"] : SetLagrangeMultiplierOptions(s, lm)
             \/ \E b \in BOOLEAN : EnableTimestepVote(s, b) \/ EnableEnzyme(s, b)
      PROVE  Goal
  <2> DEFINE Alike(S) == Descends(S, scheme[s])
  <2>1. ASSUME NEW o, SetPenaltyOptions(s, o) PROVE \E S : OnScheme(s, S) /\ Alike(S)
    <3> DEFINE P == [ type |-> Option(scheme[s].pen.type, o.type),
                      kin  |-> Option(scheme[s].pen.kin, o.kin),
                      rate |-> Option(scheme[s].pen.rate, o.rate) ]
               S == [scheme[s] EXCEPT !.pen = P]
    <3>1. OnScheme(s, S)
      BY <2>1 DEF SetPenaltyOptions
    <3>2. Alike(S)
      BY <1>1 DEF SchemeRecord, Descends
    <3> QED BY <3>1, <3>2
  <2>2. ASSUME NEW lm, SetLagrangeMultiplierOptions(s, lm)
        PROVE  \E S : OnScheme(s, S) /\ Alike(S)
    <3> DEFINE S == [scheme[s] EXCEPT !.lmSet = TRUE, !.eval = lm[1], !.sparse = lm[2]]
    <3>1. OnScheme(s, S)
      BY <2>2 DEF SetLagrangeMultiplierOptions
    <3>2. Alike(S)
      BY <1>1 DEF SchemeRecord, Descends
    <3> QED BY <3>1, <3>2
  <2>3. ASSUME NEW b \in BOOLEAN, EnableTimestepVote(s, b)
        PROVE  \E S : OnScheme(s, S) /\ Alike(S)
    <3> DEFINE S == [scheme[s] EXCEPT !.vote = b]
    <3>1. OnScheme(s, S)
      BY <2>3 DEF EnableTimestepVote
    <3>2. Alike(S)
      BY <1>1 DEF SchemeRecord, Descends
    <3> QED BY <3>1, <3>2
  <2>4. ASSUME NEW b \in BOOLEAN, EnableEnzyme(s, b) PROVE \E S : OnScheme(s, S) /\ Alike(S)
    <3> DEFINE S == [scheme[s] EXCEPT !.enzyme = b /\ UseEnzyme]
    <3>1. OnScheme(s, S)
      BY <2>4 DEF EnableEnzyme
    <3>2. Alike(S)
      BY <1>1 DEF SchemeRecord, Descends
    <3> QED BY <3>1, <3>2
  <2>5. PICK S : OnScheme(s, S) /\ Alike(S)
    BY <1>5, <2>1, <2>2, <2>3, <2>4
  <2> QED BY <1>3, <2>5
<1>6. CASE Finalize
  BY <1>6 DEF Finalize
<1>7. Registration =>
        \/ UNCHANGED scheme \/ Finalize
        \/ \E s \in SchemeIds, in \in SchemeInputs, lm \in Uninitialised :
             RegisterCouplingScheme(s, in, lm)
        \/ \E s \in DOMAIN scheme :
             \/ \E o \in Args["setPenaltyOptions"] : SetPenaltyOptions(s, o)
             \/ \E lm \in Args["setLagrangeMultiplierOptions"] : SetLagrangeMultiplierOptions(s, lm)
             \/ \E b \in BOOLEAN : EnableTimestepVote(s, b) \/ EnableEnzyme(s, b)
  BY DEF Registration, RegisterMesh, RegisterNodalVelocities, RegisterNodalResponse,
     RegisterNodalReferenceCoords, RegisterMortarGaps, RegisterMortarPressures, SetScalar,
     RegisterModulus, RegisterThickness, OnMesh, MoveMesh
<1>8. ASSUME NEW s \in todo, ChecksOf(s) PROVE Goal
  <2>1. /\ s \in DOMAIN scheme
        /\ scheme' = [scheme EXCEPT ![s] = SchemeAfterChecks(@, mesh)]
    BY <1>8 DEF ChecksOf, IInv, TypeOK
  <2>2. Descends(SchemeAfterChecks(scheme[s], mesh), scheme[s])
    <3>1. SchemeAfterChecks(scheme[s], mesh).case \in {scheme[s].case, RepairedCase(scheme[s])}
      BY <1>1, <2>1 DEF SchemeAfterChecks, CheckedScheme, SchemeRecord
    <3> QED BY <1>1, <2>1, <3>1, CheckedFields DEF Descends
  <2> QED BY <1>1, <2>1, <2>2
<1>9. CASE FindPairs
  <2>1. Descends(scheme'[cur], scheme[cur])
    BY <1>9, SearchKeeps DEF Descends, SchemeRecord
  <2> QED BY <1>1, <1>9, <2>1, SearchKeeps
<1>10. Update => UNCHANGED scheme \/ FindPairs \/ \E s \in todo : ChecksOf(s)
  BY DEF Update, InitValid, SkipInvalid, AbortInInit, KeepPairs, Apply, AbortInApply, Abort,
     EndUpdate, hostVars
<1>11. (\E d \in 0 .. MaxDt : BeginUpdate(d)) \/ Aborted \/ UNCHANGED vars => UNCHANGED scheme
  BY DEF BeginUpdate, Aborted, vars, hostVars
<1> QED BY <1>2, <1>4, <1>5, <1>6, <1>7, <1>8, <1>9, <1>10, <1>11 DEF Next, Fresh

LEMMA KnownStep ==
  ASSUME ChecksKnowTheKernels, IInv, \A s \in DOMAIN scheme : Known(scheme[s]), [Next]_vars
  PROVE  \A s \in DOMAIN scheme' : Known(scheme'[s])
<1>1. \A in \in SchemeInputs : \A lm : Known(NewScheme(in, lm))
  BY DEF Known, NewScheme, ChecksKnowTheKernels
<1>2. \A t, s : Known(s) /\ Descends(t, s) => Known(t)
  BY DEF Known, Descends, ChecksKnowTheKernels
<1> QED BY <1>1, <1>2, SchemeSteps

\* A scheme with pairs of elements has elements on both sides.
LEMMA PairsNeedElements ==
  ASSUME NEW s, ExistingPairs(s) # {}
  PROVE  ~nullMeshes(mesh[scheme[s].m1], mesh[scheme[s].m2])
BY DEF ExistingPairs, Elements, nullMeshes, IsNull

\* Whatever a host registers, in any order and with whatever schemes that share the
\* meshes: when update reaches the physics of a scheme that has pairs of elements, the
\* data of the penalty and of the mortar kernel are registered.
THEOREM CheckedKernelData ==
  Spec => [](pc = "apply" /\ ExistingPairs(cur) # {} =>
               Covered(scheme[cur], CheckedReads(scheme[cur])))
<1>1. CheckedDataRegistered =>
        (pc = "apply" /\ ExistingPairs(cur) # {} => Covered(scheme[cur], CheckedReads(scheme[cur])))
  BY PairsNeedElements DEF CheckedDataRegistered, InScheme
<1> QED BY <1>1, CheckedDataHolds, PTL

\* For hosts that ask for no kernel the checks do not know, everything a kernel reads is
\* registered when update reaches it.
THEOREM KernelData == ASSUME ChecksKnowTheKernels PROVE Spec => []KernelDataRegistered
<1> DEFINE AllKnown == \A s \in DOMAIN scheme : Known(scheme[s])
<1>1. Init => AllKnown
  BY DEF Init
<1>2. ASSUME IInv, AllKnown, [Next]_vars PROVE AllKnown'
  BY <1>2, KnownStep
<1>3. ASSUME IInv, AllKnown, CheckedDataRegistered PROVE KernelDataRegistered
  <2>1. ASSUME pc = "apply", ExistingPairs(cur) # {}
        PROVE  Covered(scheme[cur], KernelReads(scheme[cur]))
    <3>1. cur \in DOMAIN scheme
      BY <1>3, <2>1 DEF IInv, TypeOK
    <3>2. Covered(scheme[cur], CheckedReads(scheme[cur]))
      BY <1>3, <2>1, PairsNeedElements DEF CheckedDataRegistered, InScheme
    <3> QED BY <1>3, <3>1, <3>2, KnownReads
  <2> QED BY <2>1 DEF KernelDataRegistered
<1> QED BY <1>1, <1>2, <1>3, Invariance, CheckedDataHolds, PTL DEF Spec

-----------------------------------------------------------------------------
(***************************************************************************)
(* Verdicts.  The checks rewrite the scheme and flags of its meshes, but   *)
(* nothing of what they look at the next time, as long as the case is one  *)
(* the library knows: one out of range is turned down, and replaced in     *)
(* passing by one that is not.                                             *)
(***************************************************************************)
LEMMA RepairedTwice ==
  ASSUME NEW s, NEW t, t.mode = s.mode, t.method = s.method, t.case = RepairedCase(s)
  PROVE  RepairedCase(t) = RepairedCase(s)
BY DEF RepairedCase

\* Every check gives of what it left the answer it gave before.
LEMMA SameAnswers ==
  ASSUME NEW s \in SchemeRecord, s.case # "OUT_OF_RANGE",
         NEW M1 \in MeshRecord, NEW M2 \in MeshRecord, NEW N1, NEW N2,
         Left(N1, M1), Left(N2, M2),
         s.pen.rate # "NO_RATE_PENALTY" => M1.has \subseteq N1.has /\ M2.has \subseteq N2.has
  PROVE  ChecksPass(CheckedScheme(s, M1, M2), N1, N2) <=> ChecksPass(s, M1, M2)
<1> DEFINE t == CheckedScheme(s, M1, M2)
<1>1. /\ t.m1 = s.m1 /\ t.m2 = s.m2 /\ t.method = s.method /\ t.model = s.model
      /\ t.pen = s.pen /\ t.lmSet = s.lmSet /\ t.sparse = s.sparse
      /\ t.mode = s.mode /\ t.given = s.given
      /\ s.method # "MORTAR_WEIGHTS" => t.enf = s.enf /\ t.eval = s.eval
      /\ t.case = RepairedCase(s)
  BY DEF CheckedScheme, SchemeRecord
<1> HIDE DEF t
<1>2. ASSUME NEW f, f \notin {"rateConst", "ratePct", "faceData"}
      PROVE  (f \in N1.has <=> f \in M1.has) /\ (f \in N2.has <=> f \in M2.has)
  BY <1>2 DEF Left
<1>3. /\ N1.nelem = M1.nelem /\ N1.low = M1.low /\ N1.etype = M1.etype /\ N1.order = M1.order
      /\ N1.space = M1.space
      /\ N2.nelem = M2.nelem /\ N2.low = M2.low /\ N2.etype = M2.etype /\ N2.order = M2.order
      /\ N2.space = M2.space
  BY DEF Left
<1>4. isValidMode(t) <=> isValidMode(s)
  BY <1>1 DEF isValidMode
<1>5. isValidCase(t, N1, N2) <=> isValidCase(s, M1, M2)
  <2>1. RepairedCase(t) = RepairedCase(s)
    BY <1>1, RepairedTwice
  <2>2. t.case # "OUT_OF_RANGE"
    BY <1>1 DEF RepairedCase
  <2> QED BY <1>1, <1>2, <2>1, <2>2 DEF isValidCase
<1>6. isValidMethod(t, N1, N2) <=> isValidMethod(s, M1, M2)
  <2>1. /\ nullMeshes(N1, N2) <=> nullMeshes(M1, M2)
        /\ dim(N1) = dim(M1)
        /\ numberOfNodesPerElement(N1) = numberOfNodesPerElement(M1)
        /\ numberOfNodesPerElement(N2) = numberOfNodesPerElement(M2)
    BY <1>3 DEF nullMeshes, IsNull, dim, numberOfNodesPerElement
  <2> QED BY <1>1, <1>2, <2>1 DEF isValidMethod
<1>7. isValidModel(t) <=> isValidModel(s)
  BY <1>1 DEF isValidModel
<1>8. checkExecutionMode(t, N1, N2).ok <=> checkExecutionMode(s, M1, M2).ok
  <2>1. ExecFor(t, M1.space) = ExecFor(s, M1.space)
    BY <1>1 DEF ExecFor
  <2> QED BY <1>1, <1>3, <2>1 DEF checkExecutionMode
<1>9. isValidEnforcement(t) <=> isValidEnforcement(s)
  BY <1>1 DEF isValidEnforcement
<1>10. PenaltyDataOK(N1, s.pen) <=> PenaltyDataOK(M1, s.pen)
  <2>1. s.pen.rate # "NO_RATE_PENALTY" =>
          /\ "rateConst" \in N1.has <=> "rateConst" \in M1.has
          /\ "ratePct" \in N1.has <=> "ratePct" \in M1.has
    BY DEF Left
  <2> QED BY <1>2, <1>3, <2>1 DEF PenaltyDataOK, IsNull, isValidKinematicPenalty, isValidRatePenalty
<1>11. PenaltyDataOK(N2, s.pen) <=> PenaltyDataOK(M2, s.pen)
  <2>1. s.pen.rate # "NO_RATE_PENALTY" =>
          /\ "rateConst" \in N2.has <=> "rateConst" \in M2.has
          /\ "ratePct" \in N2.has <=> "ratePct" \in M2.has
    BY DEF Left
  <2> QED BY <1>2, <1>3, <2>1 DEF PenaltyDataOK, IsNull, isValidKinematicPenalty, isValidRatePenalty
<1>12. EnforcementDataOK(t, N1, N2) <=> EnforcementDataOK(s, M1, M2)
  <2>1. LagrangeMultiplierDataOK(N2) <=> LagrangeMultiplierDataOK(M2)
    BY <1>2, <1>3 DEF LagrangeMultiplierDataOK, IsNull
  <2> QED BY <1>1, <1>10, <1>11, <2>1 DEF EnforcementDataOK
<1> QED BY <1>4, <1>5, <1>6, <1>7, <1>8, <1>9, <1>12 DEF ChecksPass, t

\* The verdict on what the checks left is the verdict they gave.
LEMMA SameVerdict ==
  ASSUME NEW s \in SchemeRecord, s.case # "OUT_OF_RANGE",
         NEW mm, \A m \in DOMAIN mm : mm[m] \in MeshRecord,
         NEW mn \in {MeshesAfterChecks(s, mm), FaceDataOf(s, MeshesAfterChecks(s, mm))},
         {s.m1, s.m2} \subseteq DOMAIN mm
  PROVE  isValidCouplingScheme(SchemeAfterChecks(s, mm), mn) <=> isValidCouplingScheme(s, mm)
<1> DEFINE t  == SchemeAfterChecks(s, mm)
           M1 == mm[s.m1]
           M2 == mm[s.m2]
           N1 == mn[s.m1]
           N2 == mn[s.m2]
<1>1. AllLeft(mn, mm)
  BY ChecksLeave
<1>2. t.m1 = s.m1 /\ t.m2 = s.m2
  BY CheckedFields
<1>3. DOMAIN mn = DOMAIN mm /\ Left(N1, M1) /\ Left(N2, M2)
  BY <1>1 DEF AllLeft
<1>4. CASE ~ReachesChecks(s, mm)
  <2>1. ~ReachesChecks(t, mn)
    BY <1>2, <1>3, <1>4 DEF ReachesChecks, Left
  <2> QED BY <1>4, <2>1 DEF isValidCouplingScheme
<1>5. CASE ReachesChecks(s, mm) /\ M1.space # M2.space
  <2>1. ~checkExecutionMode(s, M1, M2).ok /\ ~checkExecutionMode(t, N1, N2).ok
    BY <1>3, <1>5 DEF checkExecutionMode, Left
  <2> QED BY <1>2, <2>1 DEF isValidCouplingScheme, ChecksPass
<1>6. CASE ReachesChecks(s, mm) /\ M1.space = M2.space
  <2>1. \A m \in DOMAIN mm :
          /\ mn[m].valid = mm[m].valid
          /\ s.pen.rate # "NO_RATE_PENALTY" => mm[m].has \subseteq mn[m].has
    BY <1>6, MatchedChecks
  <2>2. ReachesChecks(t, mn)
    BY <1>2, <1>3, <1>6, <2>1 DEF ReachesChecks, Left
  <2>3. t = CheckedScheme(s, M1, M2)
    BY <1>6 DEF SchemeAfterChecks
  <2>4. ChecksPass(CheckedScheme(s, M1, M2), N1, N2) <=> ChecksPass(s, M1, M2)
    BY <1>3, <2>1, SameAnswers
  <2> QED BY <1>2, <1>6, <2>2, <2>3, <2>4 DEF isValidCouplingScheme
<1> QED BY <1>4, <1>5, <1>6

\* The checks of a scheme change no mesh but its own.
LEMMA OthersLeftAlone ==
  ASSUME NEW s, NEW mm, NEW m \in DOMAIN mm, m \notin {s.m1, s.m2}
  PROVE  /\ MeshesAfterChecks(s, mm)[m] = mm[m]
         /\ FaceDataOf(s, MeshesAfterChecks(s, mm))[m] = mm[m]
<1> DEFINE m1 == [mm EXCEPT ![s.m1] = afterPenaltyCheck(@, s.pen)]
           m2 == [m1 EXCEPT ![s.m2] = afterPenaltyCheck(@, s.pen)]
           mn == IF ReachesChecks(s, mm) THEN PenaltyChecked(s, mm) ELSE mm
           mo == MeshesAfterChecks(s, mm)
<1>1. mn \in {mm, m1, m2} /\ mo \in {mm, mn, Invalidated(s, mn)}
  BY DEF PenaltyChecked, MeshesAfterChecks
<1>2. m1[m] = mm[m] /\ DOMAIN m1 = DOMAIN mm
  OBVIOUS
<1>3. m2[m] = mm[m] /\ DOMAIN m2 = DOMAIN mm
  BY <1>2
<1> HIDE DEF m1, m2
<1>4. mn[m] = mm[m] /\ DOMAIN mn = DOMAIN mm
  BY <1>1, <1>2, <1>3
<1> HIDE DEF mn, mo
<1>5. Invalidated(s, mn)[m] = mm[m] /\ DOMAIN Invalidated(s, mn) = DOMAIN mm
  BY <1>4 DEF Invalidated
<1>6. mo[m] = mm[m] /\ DOMAIN mo = DOMAIN mm
  BY <1>1, <1>4, <1>5
<1>7. FaceDataOf(s, mo)[m] = mm[m]
  BY <1>6 DEF FaceDataOf
<1> QED BY <1>6, <1>7 DEF mo

\* A verdict depends on the two meshes of the scheme only.
LEMMA VerdictOfOwnMeshes ==
  ASSUME NEW s, NEW mm, NEW mn, DOMAIN mn = DOMAIN mm,
         \A m \in {s.m1, s.m2} \cap DOMAIN mm : mn[m] = mm[m]
  PROVE  isValidCouplingScheme(s, mn) <=> isValidCouplingScheme(s, mm)
<1>1. CASE {s.m1, s.m2} \subseteq DOMAIN mm
  <2>1. mn[s.m1] = mm[s.m1] /\ mn[s.m2] = mm[s.m2]
    BY <1>1
  <2> QED BY <2>1 DEF isValidCouplingScheme, ReachesChecks
<1>2. CASE ~({s.m1, s.m2} \subseteq DOMAIN mm)
  BY <1>2 DEF isValidCouplingScheme, ReachesChecks
<1> QED BY <1>1, <1>2

\* Nor does it depend on how the scheme is searched.
LEMMA VerdictWithoutBinning ==
  ASSUME NEW s \in SchemeRecord, NEW b, NEW mm
  PROVE  isValidCouplingScheme([s EXCEPT !.binning = b], mm) <=> isValidCouplingScheme(s, mm)
<1> DEFINE t == [s EXCEPT !.binning = b]
<1>1. /\ t.m1 = s.m1 /\ t.m2 = s.m2 /\ t.method = s.method /\ t.model = s.model
      /\ t.pen = s.pen /\ t.lmSet = s.lmSet /\ t.sparse = s.sparse /\ t.mode = s.mode
      /\ t.given = s.given /\ t.enf = s.enf /\ t.eval = s.eval /\ t.case = s.case
  BY DEF SchemeRecord
<1> HIDE DEF t
<1>2. ReachesChecks(t, mm) <=> ReachesChecks(s, mm)
  BY <1>1 DEF ReachesChecks
<1>3. ASSUME NEW M1, NEW M2 PROVE ChecksPass(t, M1, M2) <=> ChecksPass(s, M1, M2)
  <2>1. RepairedCase(t) = RepairedCase(s)
    BY <1>1 DEF RepairedCase
  <2>2. isValidCase(t, M1, M2) <=> isValidCase(s, M1, M2)
    BY <1>1, <2>1 DEF isValidCase
  <2>3. /\ isValidMode(t) <=> isValidMode(s)
        /\ isValidMethod(t, M1, M2) <=> isValidMethod(s, M1, M2)
        /\ isValidModel(t) <=> isValidModel(s)
        /\ isValidEnforcement(t) <=> isValidEnforcement(s)
        /\ EnforcementDataOK(t, M1, M2) <=> EnforcementDataOK(s, M1, M2)
    BY <1>1 DEF isValidMode, isValidMethod, isValidModel, isValidEnforcement, EnforcementDataOK
  <2>4. ExecFor(t, M1.space) = ExecFor(s, M1.space)
    BY <1>1 DEF ExecFor
  <2>5. checkExecutionMode(t, M1, M2).ok <=> checkExecutionMode(s, M1, M2).ok
    BY <1>1, <2>4 DEF checkExecutionMode
  <2> QED BY <2>2, <2>3, <2>5 DEF ChecksPass
<1> QED BY <1>1, <1>2, <1>3 DEF isValidCouplingScheme, t

\* A verdict on a scheme that shares no mesh is what the checks would say now.
CasesInRange == \A in \in SchemeInputs : in.case # "OUT_OF_RANGE"
VerdictsCurrent ==
  \A s \in DOMAIN scheme :
    Unshared(s) /\ verdict[s] # "none" =>
      (verdict[s] = "valid" <=> isValidCouplingScheme(scheme[s], mesh))

LEMMA CasesStayInRange ==
  ASSUME CasesInRange
  PROVE  Spec => [](\A s \in DOMAIN scheme : scheme[s].case # "OUT_OF_RANGE")
<1> DEFINE InRange == \A s \in DOMAIN scheme : scheme[s].case # "OUT_OF_RANGE"
<1>1. Init => InRange
  BY DEF Init
<1>2. ASSUME IInv, InRange, [Next]_vars PROVE InRange'
  <2>1. \A in \in SchemeInputs : \A lm : NewScheme(in, lm).case # "OUT_OF_RANGE"
    BY DEF NewScheme, CasesInRange
  <2>2. \A t, s : s.case # "OUT_OF_RANGE" /\ Descends(t, s) => t.case # "OUT_OF_RANGE"
    BY DEF Descends, RepairedCase
  <2> QED BY <1>2, <2>1, <2>2, SchemeSteps
<1> QED BY <1>1, <1>2, Invariance, PTL DEF Spec

\* Steps that change meshes, schemes or verdicts.
LEMMA VerdictSteps ==
  ASSUME IInv, [Next]_vars
  PROVE  \/ verdict' = NoVerdict
         \/ UNCHANGED <<mesh, scheme, verdict>>
         \/ \E s \in todo : InitValid(s) \/ SkipInvalid(s)
         \/ FindPairs
<1>1. Registration => verdict' = NoVerdict \/ UNCHANGED <<mesh, scheme, verdict>>
  BY DEF Registration, RegisterMesh, RegisterNodalVelocities, RegisterNodalResponse,
     RegisterNodalReferenceCoords, RegisterMortarGaps, RegisterMortarPressures, SetScalar,
     RegisterModulus, RegisterThickness, OnMesh, RegisterCouplingScheme, SetPenaltyOptions,
     SetLagrangeMultiplierOptions, EnableTimestepVote, EnableEnzyme, OnScheme, MoveMesh,
     Finalize, HostCall
<1>2. Update => \/ UNCHANGED <<mesh, scheme, verdict>>
                \/ \E s \in todo : InitValid(s) \/ SkipInvalid(s)
                \/ FindPairs
  BY DEF Update, AbortInInit, KeepPairs, Apply, AbortInApply, Abort, EndUpdate, hostVars
<1>3. (\E d \in 0 .. MaxDt : BeginUpdate(d)) \/ Aborted \/ UNCHANGED vars
        => UNCHANGED <<mesh, scheme, verdict>>
  BY DEF BeginUpdate, Aborted, vars, hostVars
<1> QED BY <1>1, <1>2, <1>3 DEF Next

\* A check of one scheme: its own verdict is what the checks said before and say after.
LEMMA CheckedVerdict ==
  ASSUME IInv, NEW s \in todo, InitValid(s) \/ SkipInvalid(s),
         scheme[s].case # "OUT_OF_RANGE"
  PROVE  /\ DOMAIN scheme' = DOMAIN scheme /\ DOMAIN mesh' = DOMAIN mesh
         /\ \A t \in DOMAIN scheme : /\ scheme'[t].m1 = scheme[t].m1
                                     /\ scheme'[t].m2 = scheme[t].m2
                                     /\ t # s => scheme'[t] = scheme[t]
         /\ \A m \in DOMAIN mesh \ {scheme[s].m1, scheme[s].m2} : mesh'[m] = mesh[m]
         /\ verdict' = [verdict EXCEPT ![s] =
                          IF isValidCouplingScheme(scheme[s], mesh) THEN "valid" ELSE "skipped"]
         /\ isValidCouplingScheme(scheme'[s], mesh') <=> isValidCouplingScheme(scheme[s], mesh)
<1> DEFINE S == scheme[s]
           T == SchemeAfterChecks(S, mesh)
           mo == MeshesAfterChecks(S, mesh)
<1>1. s \in DOMAIN scheme /\ S \in SchemeRecord /\ \A m \in DOMAIN mesh : mesh[m] \in MeshRecord
  BY DEF IInv, TypeOK
<1>2. scheme' = [scheme EXCEPT ![s] = T] /\ mesh' \in {mo, FaceDataOf(S, mo)}
  BY DEF InitValid, SkipInvalid, ChecksOf
<1>3. T.m1 = S.m1 /\ T.m2 = S.m2
  BY <1>1, CheckedFields
<1> HIDE DEF T, mo
<1>4. /\ DOMAIN scheme' = DOMAIN scheme /\ scheme'[s] = T
      /\ \A t \in DOMAIN scheme : /\ scheme'[t].m1 = scheme[t].m1
                                  /\ scheme'[t].m2 = scheme[t].m2
                                  /\ t # s => scheme'[t] = scheme[t]
  BY <1>1, <1>2, <1>3
<1>5. DOMAIN mesh' = DOMAIN mesh
  BY ChecksKeepMesh DEF AllLeft
<1>6. \A m \in DOMAIN mesh \ {S.m1, S.m2} : mesh'[m] = mesh[m]
  BY <1>2, OthersLeftAlone DEF mo
<1>7. verdict' = [verdict EXCEPT ![s] =
                    IF isValidCouplingScheme(S, mesh) THEN "valid" ELSE "skipped"]
  BY DEF InitValid, SkipInvalid
<1>8. isValidCouplingScheme(T, mesh') <=> isValidCouplingScheme(S, mesh)
  <2>1. CASE {S.m1, S.m2} \subseteq DOMAIN mesh
    BY <1>1, <1>2, <2>1, SameVerdict DEF T, mo
  <2>2. CASE ~({S.m1, S.m2} \subseteq DOMAIN mesh)
    BY <1>3, <1>5, <2>2 DEF isValidCouplingScheme, ReachesChecks
  <2> QED BY <2>1, <2>2
<1> QED BY <1>4, <1>5, <1>6, <1>7, <1>8

LEMMA VerdictsStayCurrent ==
  ASSUME IInv, VerdictsCurrent, \A s \in DOMAIN scheme : scheme[s].case # "OUT_OF_RANGE",
         [Next]_vars
  PROVE  /\ VerdictsCurrent'
         /\ \A s \in DOMAIN scheme :
              Unshared(s) /\ verdict[s] # "none" => verdict'[s] \in {verdict[s], "none"}
<1> DEFINE Goal == /\ VerdictsCurrent'
                   /\ \A s \in DOMAIN scheme :
                        Unshared(s) /\ verdict[s] # "none" => verdict'[s] \in {verdict[s], "none"}
<1>1. CASE verdict' = NoVerdict
  <2>1. DOMAIN scheme' \subseteq SchemeIds /\ DOMAIN scheme \subseteq SchemeIds
    BY NextIInv DEF IInv, TypeOK
  <2> QED BY <1>1, <2>1 DEF NoVerdict, VerdictsCurrent
<1>2. CASE UNCHANGED <<mesh, scheme, verdict>>
  BY <1>2 DEF VerdictsCurrent, Unshared, Shares
<1>3. ASSUME NEW s \in todo, InitValid(s) \/ SkipInvalid(s) PROVE Goal
  <2>1. s \in DOMAIN scheme /\ verdict \in [SchemeIds -> {"none", "valid", "skipped"}]
        /\ DOMAIN scheme \subseteq SchemeIds
    BY DEF IInv, TypeOK
  <2>2. /\ DOMAIN scheme' = DOMAIN scheme /\ DOMAIN mesh' = DOMAIN mesh
        /\ \A t \in DOMAIN scheme : /\ scheme'[t].m1 = scheme[t].m1
                                    /\ scheme'[t].m2 = scheme[t].m2
                                    /\ t # s => scheme'[t] = scheme[t]
        /\ \A m \in DOMAIN mesh \ {scheme[s].m1, scheme[s].m2} : mesh'[m] = mesh[m]
        /\ verdict' = [verdict EXCEPT ![s] =
                         IF isValidCouplingScheme(scheme[s], mesh) THEN "valid" ELSE "skipped"]
        /\ isValidCouplingScheme(scheme'[s], mesh') <=> isValidCouplingScheme(scheme[s], mesh)
    BY <1>3, <2>1, CheckedVerdict
  <2>3. /\ \A t \in DOMAIN scheme : t # s => verdict'[t] = verdict[t]
        /\ verdict'[s] = IF isValidCouplingScheme(scheme[s], mesh) THEN "valid" ELSE "skipped"
    BY <2>1, <2>2
  <2>4. \A t \in DOMAIN scheme : Unshared(t)' <=> Unshared(t)
    BY <2>2 DEF Unshared, Shares
  <2>5. ASSUME NEW t \in DOMAIN scheme, t # s, Unshared(t)
        PROVE  isValidCouplingScheme(scheme'[t], mesh') <=> isValidCouplingScheme(scheme[t], mesh)
    <3>1. ~Shares(t, s)
      BY <2>1, <2>5 DEF Unshared
    <3>2. \A m \in {scheme[t].m1, scheme[t].m2} \cap DOMAIN mesh : mesh'[m] = mesh[m]
      BY <2>2, <3>1 DEF Shares
    <3>3. isValidCouplingScheme(scheme[t], mesh') <=> isValidCouplingScheme(scheme[t], mesh)
      BY <2>2, <3>2, VerdictOfOwnMeshes
    <3> QED BY <2>2, <2>5, <3>3
  <2>6. ASSUME NEW t \in DOMAIN scheme', Unshared(t)', verdict'[t] # "none"
        PROVE  verdict'[t] = "valid" <=> isValidCouplingScheme(scheme'[t], mesh')
    <3>1. CASE t = s
      BY <2>2, <2>3, <3>1
    <3>2. CASE t # s
      BY <2>2, <2>3, <2>4, <2>5, <2>6, <3>2 DEF VerdictsCurrent
    <3> QED BY <3>1, <3>2
  <2>7. ASSUME NEW t \in DOMAIN scheme, Unshared(t), verdict[t] # "none"
        PROVE  verdict'[t] = verdict[t]
    <3>1. CASE t = s
      <4>1. verdict[s] \in {"valid", "skipped"}
        BY <2>1, <2>7, <3>1
      <4> QED BY <2>1, <2>3, <2>7, <3>1, <4>1 DEF VerdictsCurrent
    <3>2. CASE t # s
      BY <2>3, <3>2
    <3> QED BY <3>1, <3>2
  <2> QED BY <2>6, <2>7 DEF VerdictsCurrent
<1>4. CASE FindPairs
  <2>1. /\ UNCHANGED <<mesh, verdict>> /\ DOMAIN scheme' = DOMAIN scheme
        /\ cur \in DOMAIN scheme /\ scheme[cur] \in SchemeRecord
        /\ \A s \in DOMAIN scheme : s # cur => scheme'[s] = scheme[s]
        /\ scheme'[cur] = [scheme[cur] EXCEPT !.binning = BinningAfter(scheme[cur])]
    BY <1>4, SearchKeeps DEF FindPairs
  <2>2. \A s \in DOMAIN scheme : scheme'[s].m1 = scheme[s].m1 /\ scheme'[s].m2 = scheme[s].m2
    BY <2>1 DEF SchemeRecord
  <2>3. \A s \in DOMAIN scheme : Unshared(s)' <=> Unshared(s)
    BY <2>1, <2>2 DEF Unshared, Shares
  <2>4. \A s \in DOMAIN scheme :
          isValidCouplingScheme(scheme'[s], mesh) <=> isValidCouplingScheme(scheme[s], mesh)
    BY <2>1, VerdictWithoutBinning
  <2> QED BY <2>1, <2>3, <2>4 DEF VerdictsCurrent
<1> QED BY <1>1, <1>2, <1>3, <1>4, VerdictSteps

\* For cases the library knows, the verdict on a scheme that shares no mesh is the verdict
\* of every later update until the host registers something: what the checks rewrite,
\* they would not look at, or would find as good.
THEOREM StableVerdicts == ASSUME CasesInRange PROVE Spec => VerdictStable
<1>1. Init => VerdictsCurrent
  BY DEF Init, VerdictsCurrent
<1> QED BY <1>1, VerdictsStayCurrent, CasesStayInRange, Invariance, PTL DEF VerdictStable, Spec
=============================================================================
