------------------------------ MODULE MCTribol ------------------------------
(***************************************************************************)
(* What the host may pass in each TLC run of module Tribol: one set of     *)
(* meshes, one set of schemes and one set of calls per configuration file. *)
(***************************************************************************)
EXTENDS TribolClaims

Mesh(nelem, etype, space) ==
  [nelem |-> nelem, etype |-> etype, order |-> "LINEAR_LAGRANGE", space |-> space, coords |-> TRUE]

\* A frictionless common-plane penalty scheme, the variations of which follow.
Penalty(m1, m2) ==
  [ m1 |-> m1, m2 |-> m2, mode |-> "SURFACE_TO_SURFACE", case |-> "NO_CASE",
    method |-> "COMMON_PLANE", model |-> "FRICTIONLESS", enf |-> "PENALTY",
    binning |-> "GRID", given |-> "Sequential" ]

MortarScheme(m1, m2, method) ==
  [Penalty(m1, m2) EXCEPT !.method = method, !.enf = "LAGRANGE_MULTIPLIER", !.binning = "BVH"]

NoCalls == [op \in Operations |-> {}]
Options(type, kin, rate) == [type |-> type, kin |-> kin, rate |-> rate]
Kinematic == Options("KINEMATIC", "KINEMATIC_CONSTANT", "NO_RATE_PENALTY")

\* What the options of a scheme hold until they are set, unless a run is about that.
Zeroes == {<<"MORTAR_GAP", "MFEM_INDEX_SET">>}

-----------------------------------------------------------------------------
(* penalty: every order of the calls that make a scheme with a rate penalty valid. *)
PenaltyMeshes == {Mesh(1, "EDGE", "Host")}
PenaltySchemes == {Penalty("a", "b")}
PenaltyCalls == [NoCalls EXCEPT
  !["registerNodalResponse"] = {TRUE},
  !["registerNodalVelocities"] = {TRUE, FALSE},
  !["kinConst"] = {"good"},
  !["rateConst"] = {"good"},
  !["setPenaltyOptions"] = { Kinematic,
                             Options("KINEMATIC_AND_RATE", "invalid", "RATE_CONSTANT") }]

-----------------------------------------------------------------------------
(* element: stiffness from moduli and thicknesses, auto contact, self contact, and a  *)
(* mesh whose elements went away.  Auto contact drops elements that share a node, so  *)
(* that three in a row are the fewest with a pair.                                    *)
ElementMeshes == {Mesh(3, "EDGE", "Host"), Mesh(0, "EDGE", "Host")}
ElementSchemes == {[Penalty("a", m) EXCEPT !.case = "AUTO"] : m \in {"a", "b"}}
ElementCalls == [NoCalls EXCEPT
  !["registerNodalResponse"] = {TRUE},
  !["modulus"] = {"good", "null"},
  !["thickness"] = {"good", "low", "null"},
  !["setPenaltyOptions"] = {Options("KINEMATIC", "KINEMATIC_ELEMENT", "NO_RATE_PENALTY")}]

-----------------------------------------------------------------------------
(* mortar: what the mortar methods need, and what they refuse. *)
MortarMeshes == {Mesh(1, "QUAD", "Host")}
MortarSchemes ==
  { MortarScheme("a", "b", "ALIGNED_MORTAR"),
    MortarScheme("a", "b", "SINGLE_MORTAR"),
    [MortarScheme("a", "b", "SINGLE_MORTAR") EXCEPT !.enf = "PENALTY"],
    [MortarScheme("a", "b", "SINGLE_MORTAR") EXCEPT !.model = "NULL_MODEL"],
    [MortarScheme("a", "b", "SINGLE_MORTAR") EXCEPT !.model = "VISCOUS_TANGENTIAL"],
    MortarScheme("a", "b", "ENERGY_MORTAR") }
MortarCalls == [NoCalls EXCEPT
  !["registerNodalResponse"] = {TRUE},
  !["registerMortarGaps"] = {TRUE},
  !["registerMortarPressures"] = {TRUE},
  !["setLagrangeMultiplierOptions"] =
      {"MORTAR_GAP", "MORTAR_RESIDUAL_JACOBIAN"} \X {"MFEM_LINKED_LIST", "MFEM_INDEX_SET"}]

-----------------------------------------------------------------------------
(* modes: meshes in three memories, and two schemes on the same two of them. *)
ModeMeshes == {Mesh(0, "QUAD", "Device"), Mesh(0, "QUAD", "Unified"), Mesh(0, "EDGE", "Host")}
ModeSchemes == { [Penalty("a", "b") EXCEPT !.given = "OpenMP"],
                 [Penalty("a", "b") EXCEPT !.given = "Dynamic"],
                 [MortarScheme("a", "b", "SINGLE_MORTAR") EXCEPT !.given = "Dynamic"] }
ModeLM == {<<"MORTAR_GAP", "MFEM_LINKED_LIST">>}
ModeCalls == [NoCalls EXCEPT
  !["setPenaltyOptions"] = {Kinematic},
  !["setLagrangeMultiplierOptions"] = ModeLM]

-----------------------------------------------------------------------------
(* lifecycle: meshes that move and are registered anew, under every way of binning. *)
LifecycleMeshes == {Mesh(2, "EDGE", "Host"), Mesh(0, "EDGE", "Host")}
LifecycleSchemes ==
  { Penalty("a", "b"),
    [Penalty("a", "b") EXCEPT !.binning = "CARTESIAN_PRODUCT"],
    [Penalty("a", "b") EXCEPT !.mode = "SURFACE_TO_SURFACE_CONFORMING"] }
LifecycleCalls == [NoCalls EXCEPT
  !["registerNodalResponse"] = {TRUE},
  !["kinConst"] = {"good"},
  !["setPenaltyOptions"] = {Kinematic}]

-----------------------------------------------------------------------------
(* votes: two schemes on one mesh in contact with itself vote on the time step. *)
VotesSchemes == {[Penalty("a", "a") EXCEPT !.binning = "BVH"]}
VotesCalls == [LifecycleCalls EXCEPT
  !["registerNodalVelocities"] = {TRUE},
  !["thickness"] = {"good"},
  !["enableTimestepVote"] = {TRUE}]

-----------------------------------------------------------------------------
(* returns: two schemes that compute mortar weights, with and without what the kernel wants. *)
WeightsSchemes == {MortarScheme("a", "b", "MORTAR_WEIGHTS")}
EitherStorage == {"MORTAR_GAP"} \X {"MFEM_LINKED_LIST", "MFEM_INDEX_SET"}
WeightsCalls == [NoCalls EXCEPT
  !["registerMortarGaps"] = {TRUE},
  !["registerNodalReferenceCoords"] = {TRUE},
  !["enableEnzyme"] = {TRUE}]

-----------------------------------------------------------------------------
(* The claims: just enough to reach the state that contradicts each. *)
\* return_code
EnzymeSchemes == {MortarScheme("a", "b", "SINGLE_MORTAR"), MortarScheme("a", "b", "MORTAR_WEIGHTS")}
EnzymeCalls == [NoCalls EXCEPT
  !["registerNodalResponse"] = {TRUE},
  !["registerMortarGaps"] = {TRUE},
  !["registerMortarPressures"] = {TRUE},
  !["enableEnzyme"] = {TRUE},
  !["setLagrangeMultiplierOptions"] = {<<"MORTAR_RESIDUAL_JACOBIAN", "MFEM_LINKED_LIST">>}]
LinkedList == {<<"MORTAR_GAP", "MFEM_LINKED_LIST">>}
=============================================================================
