--------------------------- MODULE CouplingScheme ---------------------------
(***************************************************************************)
(* A coupling scheme (tribol::CouplingScheme): what the host asked for, the *)
(* checks isValidCouplingScheme makes of it and of its two meshes, and the *)
(* changes those checks make on the way.  The checks are not queries: they *)
(* rewrite the contact case, the enforcement method and the evaluation     *)
(* mode of the scheme, they clear rate-penalty flags of a mesh, and they   *)
(* can invalidate both meshes for good.                                    *)
(*                                                                         *)
(* Operators only; s is a scheme record, M1 and M2 its mesh records.       *)
(***************************************************************************)
EXTENDS MeshData

CONSTANTS
  UseUmpire, UseOpenMP, UseCuda,  \* the TRIBOL_USE_* options of the build
  UseEnzyme

ASSUME BuildAssumption ==
  /\ {UseUmpire, UseOpenMP, UseCuda, UseEnzyme} \subseteq BOOLEAN
  /\ UseCuda => UseUmpire

Modes   == {"SURFACE_TO_SURFACE", "SURFACE_TO_SURFACE_CONFORMING", "SURFACE_TO_VOLUME"}
\* The constructor does not range-check the case: "OUT_OF_RANGE" stands for any other integer.
Cases   == {"NO_CASE", "AUTO", "TIED_NORMAL", "TIED_FULL", "NO_SLIDING", "OUT_OF_RANGE"}
Mortars == {"SINGLE_MORTAR", "ALIGNED_MORTAR", "MORTAR_WEIGHTS"}
Methods == Mortars \cup {"COMMON_PLANE", "ENERGY_MORTAR"}
Models  == {"FRICTIONLESS", "NULL_MODEL", "VISCOUS_TANGENTIAL", "FRICTION_COULOMB"}
Enforcements == {"PENALTY", "LAGRANGE_MULTIPLIER", "NULL_ENFORCEMENT"}
Binnings == {"GRID", "BVH", "CARTESIAN_PRODUCT"}
EvalModes == {"MORTAR_GAP", "MORTAR_RESIDUAL", "MORTAR_JACOBIAN", "MORTAR_RESIDUAL_JACOBIAN",
              "MORTAR_WEIGHTS_EVAL"}
SparseModes == {"MFEM_INDEX_SET", "MFEM_LINKED_LIST", "MFEM_ELEMENT_DENSE"}

BuiltModes == {"Sequential"} \cup (IF UseOpenMP THEN {"OpenMP"} ELSE {})
                             \cup (IF UseCuda THEN {"Cuda"} ELSE {})
BuiltSpaces == {"Dynamic", "Host"} \cup (IF UseUmpire THEN {"Device", "Unified"} ELSE {})
ExecutionModes == BuiltModes \cup {"Dynamic"}
isOnDevice(exec) == exec = "Cuda"

PenaltyOptions ==
  [ type : {"unset", "KINEMATIC", "KINEMATIC_AND_RATE"},
    kin  : {"unset", "KINEMATIC_CONSTANT", "KINEMATIC_ELEMENT"},
    rate : {"unset", "NO_RATE_PENALTY", "RATE_CONSTANT", "RATE_PERCENT"} ]

-----------------------------------------------------------------------------
(***************************************************************************)
(* The checks, in the order isValidCouplingScheme makes them.              *)
(***************************************************************************)
nullMeshes(M1, M2) == IsNull(M1) \/ IsNull(M2)

isValidMode(s) == s.mode \in {"SURFACE_TO_SURFACE", "SURFACE_TO_SURFACE_CONFORMING"}

\* isValidCase replaces a case the mode or the method cannot have.
RepairedCase(s) ==
  IF s.mode = "SURFACE_TO_SURFACE_CONFORMING" \/ s.method = "ALIGNED_MORTAR" THEN "NO_SLIDING"
  ELSE IF s.method \in {"SINGLE_MORTAR", "MORTAR_WEIGHTS"} /\ s.case # "NO_SLIDING" THEN "NO_CASE"
  ELSE s.case

\* The range check comes before the repair, the checks of COMMON_PLANE after it.
isValidCase(s, M1, M2) ==
  /\ s.case # "OUT_OF_RANGE"
  /\ s.method = "COMMON_PLANE" =>
       /\ RepairedCase(s) # "TIED_FULL"
       /\ RepairedCase(s) = "AUTO" => "thickness" \in M1.has \cap M2.has

\* auto_contact_check is left as it was by TIED_FULL and by every other method.
AutoCheckAfter(s) ==
  IF s.method # "COMMON_PLANE" \/ RepairedCase(s) = "TIED_FULL" THEN s.autoCheck
  ELSE RepairedCase(s) = "AUTO"

\* A missing reference configuration is noted and then forgotten (findings in README).
isValidMethod(s, M1, M2) ==
  \/ nullMeshes(M1, M2)
  \/ /\ s.method # "ENERGY_MORTAR"
     /\ numberOfNodesPerElement(M1) = numberOfNodesPerElement(M2)
     /\ s.method \in Mortars => s.m1 # s.m2 /\ dim(M1) = 3
     /\ s.method # "MORTAR_WEIGHTS" => "response" \in M1.has \cap M2.has

isValidModel(s) ==
  CASE s.method \in Mortars      -> s.model \in {"FRICTIONLESS", "NULL_MODEL"}
    [] s.method = "COMMON_PLANE" -> s.model \in {"FRICTIONLESS", "NULL_MODEL", "VISCOUS_TANGENTIAL"}
    [] OTHER                     -> TRUE

\* checkExecutionModeData: the mode the scheme runs in, for meshes of one memory space.
ExecFor(s, space) ==
  CASE space = "Dynamic" -> IF UseUmpire THEN s.given ELSE "Sequential"
    [] space = "Unified" -> IF s.given # "Dynamic" THEN s.given
                            ELSE IF UseCuda THEN "Cuda"
                            ELSE IF UseOpenMP THEN "OpenMP" ELSE "Sequential"
    [] space = "Host"    -> IF s.given = "Dynamic" /\ UseOpenMP THEN "OpenMP"
                            ELSE IF s.given = "OpenMP" THEN "OpenMP" ELSE "Sequential"
    [] space = "Device"  -> IF UseCuda /\ s.given \in {"Cuda", "Dynamic"} THEN "Cuda" ELSE "Sequential"

checkExecutionMode(s, M1, M2) ==
  IF M1.space # M2.space THEN [exec |-> "Sequential", ok |-> FALSE]
  ELSE LET exec == ExecFor(s, M1.space)
       IN [ exec |-> exec,
            ok |-> /\ M1.space = "Dynamic" => exec # "Dynamic"
                   /\ M1.space = "Host" => s.given # "Cuda"
                   /\ s.method # "COMMON_PLANE" => exec = "Sequential" ]

\* SLIC_ERROR: device memory and an execution mode that cannot reach it.
ExecAborts(s, M1, M2) ==
  /\ M1.space = "Device" /\ M2.space = "Device"
  /\ ~(UseCuda /\ s.given \in {"Cuda", "Dynamic"})

\* Mutant of isValidEnforcement: a mortar method is accepted with any enforcement.
AnyMortarEnforcement(s) ==
  CASE s.method = "MORTAR_WEIGHTS" -> s.sparse = "MFEM_LINKED_LIST"
    [] s.method \in {"ALIGNED_MORTAR", "SINGLE_MORTAR"} ->
         s.lmSet /\ s.sparse # "MFEM_INDEX_SET" /\ s.eval # "MORTAR_WEIGHTS_EVAL"
    [] s.method = "COMMON_PLANE" -> s.enf = "PENALTY" /\ s.pen.type # "unset"
    [] OTHER -> TRUE

isValidEnforcement(s) ==
  CASE s.method = "MORTAR_WEIGHTS" -> s.sparse = "MFEM_LINKED_LIST"
    [] s.method \in {"ALIGNED_MORTAR", "SINGLE_MORTAR"} ->
         /\ s.enf = "LAGRANGE_MULTIPLIER"
         /\ s.lmSet
         /\ s.sparse \in {"MFEM_LINKED_LIST", "MFEM_ELEMENT_DENSE"}
         /\ s.eval # "MORTAR_WEIGHTS_EVAL"
    [] s.method = "COMMON_PLANE" -> s.enf = "PENALTY" /\ s.pen.type # "unset"
    [] OTHER -> TRUE

\* Mutant of EnforcementDataOK: a mortar method looks at the other side.
ChecksMortarSide(s, M1, M2) ==
  CASE s.method \in {"ALIGNED_MORTAR", "SINGLE_MORTAR"} -> LagrangeMultiplierDataOK(M1)
    [] s.method = "COMMON_PLANE" -> PenaltyDataOK(M1, s.pen) /\ PenaltyDataOK(M2, s.pen)
    [] OTHER -> TRUE

\* checkEnforcementData; a mortar method looks at the nonmortar side only.
EnforcementDataOK(s, M1, M2) ==
  CASE s.method \in {"ALIGNED_MORTAR", "SINGLE_MORTAR"} -> LagrangeMultiplierDataOK(M2)
    [] s.method = "COMMON_PLANE" -> PenaltyDataOK(M1, s.pen) /\ PenaltyDataOK(M2, s.pen)
    [] OTHER -> TRUE

ChecksPass(s, M1, M2) ==
  /\ isValidMode(s)
  /\ isValidCase(s, M1, M2)
  /\ isValidMethod(s, M1, M2)
  /\ isValidModel(s)
  /\ checkExecutionMode(s, M1, M2).ok
  /\ isValidEnforcement(s)
  /\ EnforcementDataOK(s, M1, M2)

-----------------------------------------------------------------------------
(***************************************************************************)
(* What the checks leave behind.  They all run, whichever of them fails.   *)
(***************************************************************************)
CheckedScheme(s, M1, M2) ==
  LET weights == s.method = "MORTAR_WEIGHTS"
  IN [ s EXCEPT !.case = RepairedCase(s),
                !.autoCheck = AutoCheckAfter(s),
                !.exec = checkExecutionMode(s, M1, M2).exec,
                !.enf  = IF weights THEN "NULL_ENFORCEMENT" ELSE @,
                !.eval = IF weights THEN "MORTAR_WEIGHTS_EVAL" ELSE @ ]

\* checkPenaltyData is reached by a COMMON_PLANE scheme with valid enforcement; the
\* second mesh is not looked at when the first one fails, and sees what the first
\* left when both are the same mesh.
PenaltyChecked(s, mm) ==
  LET p  == s.pen
      m_ == [mm EXCEPT ![s.m1] = afterPenaltyCheck(@, p)]
  IN IF s.method = "COMMON_PLANE" /\ isValidEnforcement(s)
     THEN IF PenaltyDataOK(mm[s.m1], p) THEN [m_ EXCEPT ![s.m2] = afterPenaltyCheck(@, p)] ELSE m_
     ELSE mm

\* The meshes of a scheme whose element types or memory spaces differ are invalid from then on.
Invalidated(s, mm) == [mm EXCEPT ![s.m1].valid = FALSE, ![s.m2].valid = FALSE]

(***************************************************************************)
(* isValidCouplingScheme: the verdict, the scheme and the meshes after it. *)
(* A scheme whose meshes are not both registered, have different element   *)
(* types or are invalid is turned down before any other check runs.        *)
(***************************************************************************)
\* Mutant of ReachesChecks: nobody looks at the valid flags of the meshes.
IgnoresValidFlags(s, mm) ==
  {s.m1, s.m2} \subseteq DOMAIN mm /\ mm[s.m1].etype = mm[s.m2].etype

ReachesChecks(s, mm) ==
  /\ {s.m1, s.m2} \subseteq DOMAIN mm
  /\ mm[s.m1].etype = mm[s.m2].etype
  /\ mm[s.m1].valid /\ mm[s.m2].valid

isValidCouplingScheme(s, mm) == ReachesChecks(s, mm) /\ ChecksPass(s, mm[s.m1], mm[s.m2])

SchemeAfterChecks(s, mm) ==
  IF ReachesChecks(s, mm) THEN CheckedScheme(s, mm[s.m1], mm[s.m2]) ELSE s

MeshesAfterChecks(s, mm) ==
  IF ~({s.m1, s.m2} \subseteq DOMAIN mm) THEN mm
  ELSE LET checked == IF ReachesChecks(s, mm) THEN PenaltyChecked(s, mm) ELSE mm
       IN IF \/ mm[s.m1].etype # mm[s.m2].etype
             \/ ReachesChecks(s, mm) /\ mm[s.m1].space # mm[s.m2].space
          THEN Invalidated(s, checked) ELSE checked

-----------------------------------------------------------------------------
(***************************************************************************)
(* What a valid scheme runs: ApplyInterfacePhysics dispatches on method,   *)
(* enforcement and model, with no default that reports an error.           *)
(***************************************************************************)
Kernels(s) ==
  (IF s.method = "COMMON_PLANE" /\ s.enf = "PENALTY" THEN {"normal"} ELSE {})
  \cup (IF s.method = "COMMON_PLANE" /\ s.enf = "PENALTY" /\ s.model = "VISCOUS_TANGENTIAL"
        THEN {"tangential"} ELSE {})
  \cup (IF /\ s.method \in {"SINGLE_MORTAR", "ALIGNED_MORTAR"}
           /\ s.enf = "LAGRANGE_MULTIPLIER" /\ s.model = "FRICTIONLESS"
        THEN {"mortar"} ELSE {})
  \cup (IF s.method = "MORTAR_WEIGHTS" THEN {"weights"} ELSE {})

EnzymeKernel(s) == s.enzyme /\ s.method = "SINGLE_MORTAR" /\ "mortar" \in Kernels(s)

\* ApplyNormalEnzyme refuses a Jacobian in any storage but the element dense one.
PhysicsFails(s) ==
  /\ EnzymeKernel(s)
  /\ s.eval \in {"MORTAR_JACOBIAN", "MORTAR_RESIDUAL_JACOBIAN"}
  /\ s.sparse # "MFEM_ELEMENT_DENSE"

\* SLIC_ERROR in a kernel: no nodal gap array behind a contact plane, or an Enzyme
\* scheme without the reference configuration of its nonmortar mesh.
KernelAborts(s, M2, planes) ==
  IF EnzymeKernel(s)
  THEN ~PhysicsFails(s) /\ ("refPosition" \notin M2.has \/ dim(M2) # 3)
  ELSE Kernels(s) \cap {"mortar", "weights"} # {} /\ planes # {} /\ "gap" \notin M2.has

(***************************************************************************)
(* What the kernels read of each side for a contact plane: <<side, field>>.*)
(***************************************************************************)
Both(F) == {1, 2} \X F
PenaltyReads(s) ==
  Both({"response"})
  \cup (IF s.pen.kin = "KINEMATIC_ELEMENT" THEN Both({"modulusArray", "thicknessArray"})
        ELSE Both({"kinConst"}))
  \cup (IF s.autoCheck THEN Both({"thicknessArray"}) ELSE {})
  \cup (IF s.pen.type = "KINEMATIC_AND_RATE" /\ s.pen.rate # "NO_RATE_PENALTY"
        THEN Both({"velocity", IF s.pen.rate = "RATE_CONSTANT" THEN "rateConst" ELSE "ratePct"})
        ELSE {})
MortarReads(s) == Both({"response"}) \cup {<<2, "gap">>, <<2, "pressure">>}

KernelReads(s) ==
  (IF "normal" \in Kernels(s) THEN PenaltyReads(s) ELSE {})
  \cup (IF "mortar" \in Kernels(s) THEN MortarReads(s) ELSE {})
  \cup (IF "tangential" \in Kernels(s) THEN Both({"velocity"}) ELSE {})
  \cup (IF "weights" \in Kernels(s) THEN {<<2, "gap">>} ELSE {})
  \cup (IF EnzymeKernel(s) THEN {<<2, "refPosition">>} ELSE {})

\* computeCommonPlaneTimeStep runs, and reads the velocities of both faces.
VotesOnTimestep(s, M1, M2) ==
  /\ s.method = "COMMON_PLANE" /\ s.enf = "PENALTY" /\ s.vote
  /\ "thickness" \in M1.has \cap M2.has
=============================================================================
