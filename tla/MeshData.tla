------------------------------ MODULE MeshData ------------------------------
(***************************************************************************)
(* A registered surface mesh (tribol::MeshData) as the contact pipeline    *)
(* sees it: which host arrays and scalars have been handed over, and the   *)
(* checks an update makes of them.  The numbers in those arrays are        *)
(* abstracted to the one thing the checks tell apart, whether a value is   *)
(* acceptable; node coordinates live in the module that has the host.      *)
(*                                                                         *)
(* Everything here is an operator on a mesh record; the mesh manager that  *)
(* holds the records is a variable of module Tribol.                       *)
(***************************************************************************)
EXTENDS Naturals

(***************************************************************************)
(* What a host can have registered on a mesh.  The last two are the        *)
(* per-element arrays themselves: a flag and the array behind it are set   *)
(* by different calls.  "velView" is the velocity view, replaced by every  *)
(* registration, "velocity" the flag that says its pointers are not null.  *)
(***************************************************************************)
ScalarFields == {"kinConst", "rateConst", "ratePct", "viscous"}
NodalFields  == {"response", "velocity", "velView", "refPosition", "gap", "pressure"}
ElementFlags == {"kinElem", "thickness"}
ElementArrays == {"modulusArray", "thicknessArray"}

\* Every field a mesh can carry; "faceData" is what computeFaceData stores.
MeshFields == ScalarFields \cup NodalFields \cup ElementFlags \cup ElementArrays \cup {"faceData"}

\* The fields whose value a check compares with a threshold.
CheckedValues == {"kinConst", "rateConst", "ratePct", "modulusArray", "thicknessArray"}

ElementTypes == {"EDGE", "TRIANGLE", "QUAD"}
FaceOrders   == {"LINEAR_LAGRANGE", "QUADRATIC_LAGRANGE"}
MemorySpaces == {"Dynamic", "Host", "Device", "Unified"}

\* The scalars default to zero, which the stiffness checks reject.
MeshRecord ==
  [ nelem : Nat, etype : ElementTypes, order : FaceOrders, space : MemorySpaces,
    valid : BOOLEAN,               \* m_is_valid; nothing ever sets it again
    has   : SUBSET MeshFields,     \* what is registered
    low   : SUBSET CheckedValues ] \* registered or default value below its threshold

\* MeshData::MeshData: null coordinates make a mesh with elements invalid.
NewMesh(in) ==
  [ nelem |-> in.nelem, etype |-> in.etype, order |-> in.order, space |-> in.space,
    valid |-> (in.nelem = 0 \/ in.coords), has |-> {}, low |-> {"kinConst", "rateConst"} ]

IsNull(M) == M.nelem = 0

\* MeshData::getDimFromElementType
dim(M) == IF M.etype = "EDGE" THEN 2 ELSE 3

\* GetFaceNodeCount: quadratic triangles do not exist, registration aborts on them.
numberOfNodesPerElement(M) ==
  IF M.order = "LINEAR_LAGRANGE"
  THEN CASE M.etype = "EDGE" -> 2 [] M.etype = "TRIANGLE" -> 3 [] M.etype = "QUAD" -> 4
  ELSE CASE M.etype = "EDGE" -> 3 [] M.etype = "TRIANGLE" -> 0 [] M.etype = "QUAD" -> 9

-----------------------------------------------------------------------------
(***************************************************************************)
(* Registration of fields.  "ok" says the pointers handed over are not     *)
(* null; "value" is "null", "good" or "low".                               *)
(***************************************************************************)
Put(M, F) == [M EXCEPT !.has = @ \cup F]
Drop(M, F) == [M EXCEPT !.has = @ \ F]
Value(M, f, value) == [M EXCEPT !.low = IF value = "low" THEN @ \cup {f} ELSE @ \ {f}]

registerNodalVelocities(M, ok) ==
  IF ok THEN Put(M, {"velocity", "velView"}) ELSE Put(Drop(M, {"velocity"}), {"velView"})

registerNodalResponse(M, ok) ==
  IF ok THEN Put(M, {"response"}) ELSE Drop(M, {"response"})

registerNodalReferenceCoords(M) == Put(M, {"refPosition"})

\* registerMortarGaps and registerMortarPressures: a null pointer on a mesh with
\* elements invalidates the whole mesh and leaves the flag as it was.
registerMortarField(M, f, ok) ==
  IF ~ok /\ ~IsNull(M) THEN [M EXCEPT !.valid = FALSE] ELSE Put(M, {f})

registerScalar(M, f, value) ==
  IF value = "null" THEN Put(M, {f})
  ELSE IF f \in CheckedValues THEN Value(Put(M, {f}), f, value) ELSE Put(M, {f})

\* BULK_MODULUS and YOUNGS_MODULUS: the element penalty counts as set only once the
\* other array is there too.  A view of no elements is empty.
registerModulus(M, value) ==
  IF value = "null" THEN Put(M, {"kinElem"})
  ELSE LET A == Put(Value(M, "modulusArray", value),
                    IF IsNull(M) THEN {} ELSE {"modulusArray"})
       IN  IF "thicknessArray" \in M.has THEN Put(A, {"kinElem"}) ELSE A

\* Mutant of registerThickness: the element penalty counts as set without moduli.
ThicknessSetsPenalty(M, value) ==
  Put(Value(M, "thicknessArray", value), {"thickness", "thicknessArray", "kinElem"})

registerThickness(M, value) ==
  IF value = "null" THEN Put(M, {"kinElem", "thickness"})
  ELSE LET A == Put(Value(M, "thicknessArray", value),
                    {"thickness"} \cup IF IsNull(M) THEN {} ELSE {"thicknessArray"})
       IN  IF "modulusArray" \in M.has THEN Put(A, {"kinElem"}) ELSE A

\* The process aborts when the host passes a null pointer for a mesh with elements.
AcceptsValue(M, value) == value = "null" => IsNull(M)

-----------------------------------------------------------------------------
(***************************************************************************)
(* The checks of a penalty scheme.  p holds the scheme's penalty options:  *)
(* p.type, p.kin and p.rate, each "unset" until setPenaltyOptions accepts  *)
(* a value for it.                                                         *)
(***************************************************************************)
isValidKinematicPenalty(M, p) ==
  \/ /\ p.kin = "KINEMATIC_CONSTANT"
     /\ "kinConst" \in M.has
     /\ "kinConst" \notin M.low
  \/ /\ p.kin = "KINEMATIC_ELEMENT"
     /\ "kinElem" \in M.has
     /\ M.low \cap {"modulusArray", "thicknessArray"} = {}

isValidRatePenalty(M, p) ==
  \/ p.rate = "NO_RATE_PENALTY"
  \/ p.rate = "RATE_CONSTANT" /\ "rateConst" \in M.has /\ "rateConst" \notin M.low
  \/ p.rate = "RATE_PERCENT" /\ "ratePct" \in M.has /\ "ratePct" \notin M.low

\* Mutant of PenaltyDataOK: a rate penalty is accepted without velocities.
PenaltyWithoutVelocity(M, p) ==
  \/ IsNull(M)
  \/ /\ isValidKinematicPenalty(M, p)
     /\ p.type = "KINEMATIC" \/ isValidRatePenalty(M, p)

\* MeshData::checkPenaltyData returns no error.  Its caller's options are set.
PenaltyDataOK(M, p) ==
  \/ IsNull(M)
  \/ p.type = "KINEMATIC" /\ isValidKinematicPenalty(M, p)
  \/ /\ p.type = "KINEMATIC_AND_RATE"
     /\ isValidKinematicPenalty(M, p)
     /\ isValidRatePenalty(M, p)
     /\ "velocity" \in M.has

\* What isValidRatePenalty does to the flags: NO_RATE_PENALTY clears the constant
\* flag, or else the percent flag, never both in one call.
ClearRateFlag(M) ==
  Drop(M, IF "rateConst" \in M.has THEN {"rateConst"} ELSE {"ratePct"})

\* Mutant of afterPenaltyCheck: it clears a flag whatever the rate option.
AlwaysClears(M, p) ==
  IF ~IsNull(M) /\ p.type = "KINEMATIC_AND_RATE" THEN ClearRateFlag(M) ELSE M

afterPenaltyCheck(M, p) ==
  IF ~IsNull(M) /\ p.type = "KINEMATIC_AND_RATE" /\ p.rate = "NO_RATE_PENALTY"
  THEN ClearRateFlag(M) ELSE M

LagrangeMultiplierDataOK(M) == IsNull(M) \/ {"gap", "pressure"} \subseteq M.has

\* MeshData::computeFaceData stores normals, centroids and radii of linear faces only.
computeFaceData(M) ==
  IF M.order = "LINEAR_LAGRANGE" THEN Put(M, {"faceData"}) ELSE M
=============================================================================
