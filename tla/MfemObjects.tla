---------------------------- MODULE MfemObjects ----------------------------
(* What an MFEM coupling scheme owns, and which of these objects refer to which others by plain reference or pointer
   (MfemData.hpp). An object is owned by one unique_ptr or is a member of its owner; a reference does not keep its
   target alive. Objects are named like the members that own them; view_* are the arrays a Tribol mesh points to.  *)
EXTENDS FiniteSets

MeshObjects == {"lor_mesh", "update_data", "coords", "response", "velocity", "reference_coords"}
PenaltyObjects == {"elem_thickness", "material_modulus", "tribol_elem_thickness", "tribol_material_modulus"}
SubmeshObjects == {"submesh_lor_xfer", "submesh_update_data", "pressure", "redecomp_gap"}
JacobianObjects == {"jacobian_data", "jacobian_update_data"}

\* The array a view of a Tribol mesh points to.
Viewed == [view_x |-> "coords", view_response |-> "response", view_velocity |-> "velocity",
           view_reference |-> "reference_coords", view_thickness |-> "tribol_elem_thickness",
           view_modulus |-> "tribol_material_modulus", view_gap |-> "redecomp_gap", view_pressure |-> "pressure"]
Views == DOMAIN Viewed

Objects == MeshObjects \cup PenaltyObjects \cup SubmeshObjects \cup JacobianObjects \cup {"formulation"} \cup Views

(* Pairs of an object and one it refers to. *)

\* The redecomposed mesh keeps its parent, its vector transfer the space and the transfer of the LOR mesh.
RedecompReferences == {<<"update_data", "lor_mesh">>}

\* A grid function refers to the space of the transfer it was made with.
FieldReferences == {<<f, "update_data">> : f \in {"coords", "response", "velocity", "reference_coords"}}
ElementReferences == {<<e, "lor_mesh">> : e \in {"elem_thickness", "material_modulus"}}

LORReferences == {<<"submesh_lor_xfer", "lor_mesh">>}
SubmeshReferences == {<<"submesh_update_data", "submesh_lor_xfer">>, <<"submesh_update_data", "update_data">>}
PressureReferences == {<<f, "submesh_update_data">> : f \in {"pressure", "redecomp_gap"}}

\* The paths of a Jacobian go through the spaces of the LOR mesh on both sides; the formulation uses the data in place.
JacobianReferences == {<<"jacobian_update_data", "lor_mesh">>, <<"jacobian_update_data", "submesh_lor_xfer">>}
FormulationReferences == {<<"formulation", "jacobian_data">>}

ViewReferences == {<<v, Viewed[v]>> : v \in Views}

References == RedecompReferences \cup FieldReferences \cup ElementReferences \cup LORReferences \cup SubmeshReferences
              \cup PressureReferences \cup JacobianReferences \cup FormulationReferences \cup ViewReferences

\* A member whose getter dereferences it without asking whether it is there (GetRedecompElemThickness1).
UncheckedReferences == {<<"mesh_data", "tribol_elem_thickness">>}

\* The objects that exist, the references whose target exists, and those whose target is gone.
Heaps == [objects : SUBSET Objects, live : SUBSET References, dangling : SUBSET References]
EmptyHeap == [objects |-> {}, live |-> {}, dangling |-> {}]

\* As below, but a reference to what is destroyed counts as live.
KeepsReferences(h, S) ==
  [objects |-> h.objects \ S, live |-> {r \in h.live : r[1] \notin S}, dangling |-> {r \in h.dangling : r[1] \notin S}]

\* Destroying S: references held by S go with it, references to S are left dangling.
Free(h, S) ==
  [objects  |-> h.objects \ S,
   live     |-> {r \in h.live : r[1] \notin S /\ r[2] \notin S},
   dangling |-> {r \in h.dangling : r[1] \notin S} \cup {r \in h.live : r[1] \notin S /\ r[2] \in S}]

\* Making the objects S anew, in place of those of the same owner, with references to what exists afterwards.
New(h, S) ==
  LET kept == Free(h, S) IN
  [objects  |-> kept.objects \cup S,
   live     |-> kept.live \cup {r \in References : r[1] \in S /\ r[2] \in kept.objects \cup S},
   dangling |-> kept.dangling]

\* S is made where the condition holds.
NewIf(cond, h, S) == IF cond THEN New(h, S) ELSE h

\* The references among R that lead to something destroyed.
Dangling(h, R) == h.dangling \cap R
=============================================================================
