----------------------------- MODULE MfemTribol -----------------------------
(* The MFEM interface of one coupling scheme (mfem_tribol.cpp): what its calls replace in MfemMeshData,
   MfemSubmeshData, MfemJacobianData and the ContactFormulation, when the redecomposed mesh is built again, and what
   the Tribol meshes point to afterwards. Calls come from a host that moves its mesh in between.                   *)
EXTENDS MfemObjects, Integers

CONSTANTS
  Schemes,       \* the method, model, order and enforcement location a scheme may be registered with
  MaxX,          \* bound: the host's coordinate stays in 0 .. MaxX
  Triggers,      \* displacements that may trigger a new decomposition; the least is the element size
  Factors,       \* refinement factors the host may ask for
  Proximities,   \* binning proximity scales the host may set
  Penalties      \* constant penalties the host may set

Methods == {"COMMON_PLANE", "SINGLE_MORTAR", "ENERGY_MORTAR"}
Models == {"FRICTIONLESS", "VISCOUS_TANGENTIAL"}
Locations == {"Nodal", "QuadraturePoint"}

ASSUME MfemAssumption ==
  /\ Schemes \subseteq [method : Methods, model : Models, order : 1 .. 2, location : Locations]
  /\ \A s \in Schemes : /\ s.method # "COMMON_PLANE" => s.model = "FRICTIONLESS"
                        /\ s.location = "Nodal" => s.method = "ENERGY_MORTAR"
  /\ MaxX \in Nat
  /\ Triggers \subseteq Nat /\ Triggers # {}
  /\ Factors \subseteq Nat /\ Proximities \subseteq Nat /\ Proximities # {}
  /\ Penalties \subseteq Nat \ {0}

VARIABLES
  x,             \* the coordinate of the parent mesh, the host's own grid function
  scheme,        \* method, model and options of the coupling scheme
  mesh_data,     \* the plain members of MfemMeshData, and where and how wide its redecomposed mesh was made
  heap,          \* the objects and references of MfemObjects
  formulation,   \* what the ContactFormulation captured when it was made
  gap,           \* the coordinates at which the contributions in redecomp_gap_ were computed
  fresh,         \* no call since the last decomposition asks for another one
  since,         \* calls since the redecomposed mesh was built that replace what it was built with
  broken,        \* references followed although their target was gone, or not there yet
  status         \* "none", "registered", or why the program was stopped

vars == <<x, scheme, mesh_data, heap, formulation, gap, fresh, since, broken, status>>

Kinematic == {"none", "constant", "element"}
Rates == {"none", "constant", "percent"}
Scalars == {"rate_constant", "rate_percent", "viscous"}
Calls == {"setMfemLORFactor", "setLagrangeMultiplierOptions", "setMfemKinematicElementPenalty",
          "setMfemRedecompTriggerDisplacement"}
Errors == {"no kinematic penalty", "no material modulus", "no viscous coefficient", "parents differ",
           "null followed", "no submesh data", "no Jacobian transfer", "penalty required"}
k_default == 0
Least(S) == CHOOSE n \in S : \A m \in S : n <= m

HasSubmesh == scheme.method # "COMMON_PLANE"
IsEnergy == scheme.method = "ENERGY_MORTAR"
Abs(n) == IF n < 0 THEN -n ELSE n
EffectiveProximity(p, factor) == IF factor > 1 THEN p * factor ELSE p

Init ==
  /\ x = 0 /\ status = "none"
  /\ scheme = [method |-> "COMMON_PLANE", model |-> "FRICTIONLESS", kinematic |-> "none", rate |-> "none",
               location |-> "QuadraturePoint", proximity |-> Least(Proximities)]
  /\ mesh_data = [order |-> 1, lor_factor |-> 0, x_last |-> 0, made_at |-> 0, trigger |-> Least(Triggers), ghost |-> 0,
                  penalty |-> k_default, scalars |-> {}, fields |-> {}]
  /\ heap = EmptyHeap /\ gap = {} /\ fresh = FALSE /\ since = {} /\ broken = {}
  /\ formulation = [location |-> "Nodal", use_penalty |-> FALSE, k |-> k_default, proximity |-> 0]

\* The program stops, after it followed the references R.
StopAfter(error, R) ==
  /\ status' = error /\ broken' = broken \cup R
  /\ UNCHANGED <<x, scheme, mesh_data, heap, formulation, gap, fresh, since>>

Stop(error) == StopAfter(error, {})
Registered == status = "registered"

-----------------------------------------------------------------------------
(* Registration and the calls that replace objects. *)

\* As below, but only a constant penalty counts as one.
CreatedForConstant(s, d) == [location |-> s.location, use_penalty |-> s.kinematic = "constant", k |-> d.penalty,
                             proximity |-> EffectiveProximity(s.proximity, d.lor_factor)]

\* createContactFormulation for scheme s and mesh data d.
Created(s, d) == [location |-> s.location, use_penalty |-> s.kinematic # "none", k |-> d.penalty,
                  proximity |-> EffectiveProximity(s.proximity, d.lor_factor)]

\* The formulation is made anew, if the scheme has one, from the scheme and the mesh data after the call.
updateContactFormulation(h) ==
  /\ heap' = NewIf(IsEnergy, h, {"formulation"})
  /\ formulation' = IF IsEnergy THEN Created(scheme', mesh_data') ELSE formulation

KeepsFormulation(h) == heap' = h /\ UNCHANGED formulation

registerMfemCouplingScheme(s) ==
  /\ status = "none" /\ status' = "registered"
  /\ scheme' = [scheme EXCEPT !.method = s.method, !.model = s.model, !.location = s.location]
  /\ mesh_data' = [mesh_data EXCEPT !.order = s.order, !.lor_factor = IF s.order > 1 THEN s.order ELSE 0]
  /\ LET lor == NewIf(s.order > 1, heap, {"lor_mesh"})
         submesh == NewIf(s.order > 1 /\ s.method # "COMMON_PLANE", lor, {"submesh_lor_xfer"})
     IN IF s.method = "ENERGY_MORTAR"
        THEN /\ heap' = New(submesh, {"jacobian_data", "formulation"})
             /\ formulation' = Created(scheme', mesh_data')
        ELSE KeepsFormulation(submesh)
  /\ UNCHANGED <<x, gap, fresh, since, broken>>

\* MfemMeshData::SetLORFactor: a factor the mesh cannot use is ignored, with a warning.
Refines(factor) == factor > 1 /\ mesh_data.order > 1

\* The objects after SetLORFactor, SetLORMesh and the new Jacobian data: everything on the LOR mesh is made anew
\* except what MfemMeshData built from it.
AfterLORFactor(factor) ==
  LET lor == NewIf(Refines(factor), heap, {"lor_mesh"})
      submesh == NewIf(HasSubmesh /\ "lor_mesh" \in lor.objects, lor, {"submesh_lor_xfer"})
      reset == Free(submesh, {"submesh_update_data"})
  IN IF "jacobian_data" \in heap.objects THEN New(Free(reset, JacobianObjects), {"jacobian_data"}) ELSE reset

LORFactorSet(factor) ==
  /\ Registered
  /\ mesh_data' = [mesh_data EXCEPT !.lor_factor = IF Refines(factor) THEN factor ELSE @]
  /\ fresh' = FALSE /\ since' = since \cup {"setMfemLORFactor"}
  /\ UNCHANGED <<x, scheme, gap, broken, status>>

\* As below, but the formulation stays what it was.
ForgetsFormulation(factor) == LORFactorSet(factor) /\ KeepsFormulation(AfterLORFactor(factor))

setMfemLORFactor(factor) == LORFactorSet(factor) /\ updateContactFormulation(AfterLORFactor(factor))

setMfemRedecompTriggerDisplacement(d) ==
  /\ Registered /\ mesh_data' = [mesh_data EXCEPT !.trigger = d]
  /\ since' = since \cup {"setMfemRedecompTriggerDisplacement"}
  /\ UNCHANGED <<x, scheme, heap, formulation, gap, fresh, broken, status>>

setBinningProximityScale(p) ==
  /\ Registered /\ scheme' = [scheme EXCEPT !.proximity = p]
  /\ UNCHANGED <<x, mesh_data, gap, fresh, since, broken, status>>
  /\ updateContactFormulation(heap)

setEnforcementLocation(l) ==
  /\ Registered /\ IsEnergy /\ scheme' = [scheme EXCEPT !.location = l]
  /\ UNCHANGED <<x, mesh_data, gap, fresh, since, broken, status>>
  /\ updateContactFormulation(heap)

\* Asking for a Jacobian makes the data for its transfer, but not the transfer itself.
setLagrangeMultiplierOptions ==
  /\ Registered /\ HasSubmesh /\ "jacobian_data" \notin heap.objects
  /\ KeepsFormulation(New(heap, {"jacobian_data"}))
  /\ since' = since \cup {"setLagrangeMultiplierOptions"}
  /\ UNCHANGED <<x, scheme, mesh_data, gap, fresh, broken, status>>

-----------------------------------------------------------------------------
(* Penalty data and fields. *)

\* As below, but the rate of before is kept.
KeepsRate(kinematic, rate) ==
  scheme' = [scheme EXCEPT !.kinematic = kinematic, !.rate = IF rate = "none" THEN @ ELSE rate]

setPenaltyOptions(kinematic, rate) == scheme' = [scheme EXCEPT !.kinematic = kinematic, !.rate = rate]

ClearAllPenaltyData(k) == mesh_data' = [mesh_data EXCEPT !.penalty = k, !.scalars = {}]

ConstantPenaltySet(k) ==
  /\ Registered
  /\ setPenaltyOptions("constant", "none") /\ ClearAllPenaltyData(k)
  /\ fresh' = FALSE /\ UNCHANGED <<x, gap, since, broken, status>>

\* As below, but the formulation stays what it was.
ForgetsPenalty(k) == ConstantPenaltySet(k) /\ KeepsFormulation(Free(heap, PenaltyObjects))

setMfemKinematicConstantPenalty(k) == ConstantPenaltySet(k) /\ updateContactFormulation(Free(heap, PenaltyObjects))

setMfemKinematicElementPenalty ==
  /\ Registered
  /\ setPenaltyOptions("element", "none") /\ ClearAllPenaltyData(k_default)
  /\ KeepsFormulation(New(Free(heap, PenaltyObjects), {"elem_thickness", "material_modulus"}))
  /\ fresh' = FALSE /\ since' = since \cup {"setMfemKinematicElementPenalty"}
  /\ UNCHANGED <<x, gap, broken, status>>

NeedsKinematic == Registered /\ scheme.kinematic = "none" /\ Stop("no kinematic penalty")

setMfemRatePenalty(rate, scalar) ==
  /\ Registered /\ scheme.kinematic # "none"
  /\ setPenaltyOptions(scheme.kinematic, rate)
  /\ mesh_data' = [mesh_data EXCEPT !.scalars = (@ \ {"rate_constant", "rate_percent"}) \cup {scalar}]
  /\ fresh' = FALSE /\ UNCHANGED <<x, heap, formulation, gap, since, broken, status>>

setMfemRateConstantPenalty == setMfemRatePenalty("constant", "rate_constant")
setMfemRatePercentPenalty == setMfemRatePenalty("percent", "rate_percent")

setMfemViscousDampingCoeff ==
  /\ Registered /\ mesh_data' = [mesh_data EXCEPT !.scalars = @ \cup {"viscous"}]
  /\ UNCHANGED <<x, scheme, heap, formulation, gap, fresh, since, broken, status>>

\* As below, but the copies on the redecomposed mesh go with what they were copied from.
DropsCopies(object) ==
  /\ Registered /\ scheme.kinematic # "none"
  /\ KeepsFormulation(New(Free(heap, {"tribol_elem_thickness", "tribol_material_modulus"}), {object}))
  /\ UNCHANGED <<x, scheme, mesh_data, gap, fresh, since, broken, status>>

\* Thickness or modulus alone: also for a constant penalty, because the guard asks for "not set and not by element".
updateMfemElementData(object) ==
  /\ Registered /\ scheme.kinematic # "none"
  /\ KeepsFormulation(New(heap, {object}))
  /\ UNCHANGED <<x, scheme, mesh_data, gap, fresh, since, broken, status>>

updateMfemElemThickness == updateMfemElementData("elem_thickness")
updateMfemMaterialModulus == updateMfemElementData("material_modulus")

\* ParentField::SetParentGridFn: a field registered again drops its grid function on the redecomposed mesh.
registerMfemField(field) ==
  /\ Registered
  /\ mesh_data' = [mesh_data EXCEPT !.fields = @ \cup {field}]
  /\ KeepsFormulation(Free(heap, {field}))
  /\ fresh' = FALSE /\ UNCHANGED <<x, scheme, gap, since, broken, status>>

registerMfemVelocity == registerMfemField("velocity")
registerMfemReferenceCoords == registerMfemField("reference_coords")

\* The host moves its mesh by one, in one direction.
Move ==
  /\ Registered /\ x < MaxX /\ x' = x + 1
  /\ fresh' = FALSE
  /\ UNCHANGED <<scheme, mesh_data, heap, formulation, gap, since, broken, status>>


-----------------------------------------------------------------------------
(* updateMfemParallelDecomposition. *)

NeedsNewRedecomp(force) ==
  force \/ "update_data" \notin heap.objects \/ Abs(x - mesh_data.x_last) > mesh_data.trigger

\* As below, but the response keeps the space it was made with.
KeepsResponse(rebuilt) ==
  LET mesh == NewIf(rebuilt, heap, {"update_data"})
      fields == New(mesh, {"coords"} \cup mesh_data.fields)
      response == NewIf("response" \notin heap.objects, fields, {"response"})
  IN NewIf(rebuilt /\ "elem_thickness" \in heap.objects, response,
           {"tribol_elem_thickness", "tribol_material_modulus"})

\* The fields of the mesh after UpdateMfemMeshData. Thickness and modulus are copied when the mesh is made only.
UpdateMfemMeshData(rebuilt) ==
  LET mesh == NewIf(rebuilt, heap, {"update_data"})
      fields == New(mesh, {"coords"} \cup mesh_data.fields)
      response == NewIf(rebuilt, fields, {"response"})
  IN NewIf(rebuilt /\ "elem_thickness" \in heap.objects, response,
           {"tribol_elem_thickness", "tribol_material_modulus"})

\* The references UpdateMfemMeshData goes through: those of the mesh it keeps, or those of what it copies to a new one.
FollowedByMesh(rebuilt) ==
  IF ~rebuilt THEN RedecompReferences
  ELSE IF {"elem_thickness", "material_modulus"} \subseteq heap.objects THEN ElementReferences ELSE {}

\* registerMesh makes both Tribol meshes anew: they point to the coordinates and, once registered, to the fields.
ViewsOf(fields) == {"view_x", "view_response"} \cup {CHOOSE v \in Views : Viewed[v] = f : f \in fields}

\* As below, but meshes are made for a new decomposition only.
RegistersNewMeshes(h) == IF "update_data" \in heap.objects THEN h ELSE New(Free(h, Views), ViewsOf(mesh_data.fields))

RegisterMeshes(h) == New(Free(h, Views), ViewsOf(mesh_data.fields))

\* UpdateMfemSubmeshData: the transfer is made with the mesh or when it is missing, the fields every time.
KeepsSubmesh(rebuilt) == HasSubmesh /\ "submesh_update_data" \notin heap.objects
RebuildsSubmesh(rebuilt) == HasSubmesh /\ (rebuilt \/ "submesh_update_data" \notin heap.objects)

UpdateMfemSubmeshData(h, rebuilt) ==
  NewIf(HasSubmesh, NewIf(RebuildsSubmesh(rebuilt), h, {"submesh_update_data"}), {"pressure", "redecomp_gap"})

\* The Jacobian transfer is made with every new mesh; below, when it was asked for at the mesh made first.
FirstJacobianXfer(h, rebuilt) ==
  NewIf(HasSubmesh /\ "jacobian_data" \in h.objects /\ "update_data" \notin heap.objects, h, {"jacobian_update_data"})

UpdateJacobianXfer(h, rebuilt) ==
  NewIf(HasSubmesh /\ rebuilt /\ "jacobian_data" \in h.objects, h, {"jacobian_update_data"})

SubmeshViews == IF HasSubmesh THEN {"view_gap", "view_pressure"} ELSE {}
PenaltyViews == IF scheme.kinematic = "element" THEN {"view_thickness", "view_modulus"} ELSE {}

\* The objects after the whole call.
AfterDecomposition(rebuilt) ==
  LET mesh == RegisterMeshes(UpdateMfemMeshData(rebuilt))
      submesh == UpdateMfemSubmeshData(mesh, rebuilt)
      jacobian == UpdateJacobianXfer(submesh, rebuilt)
  IN New(jacobian, SubmeshViews \cup PenaltyViews)

\* The transfer of the submesh refuses a redecomposed mesh that was made from another LOR mesh.
ParentsDiffer(rebuilt) ==
  RebuildsSubmesh(rebuilt) /\ ~rebuilt /\ <<"update_data", "lor_mesh">> \in heap.dangling

\* The guard that asks for the thickness dereferences its pointer to do so: with an element penalty and no copy of the
\* thickness on this mesh, the program ends here, and its message is never given.
ThicknessIsNull(rebuilt) ==
  scheme.kinematic = "element" /\ "tribol_elem_thickness" \notin UpdateMfemMeshData(rebuilt).objects

\* Why the call ends the program, in the order of the code; "" where it does not.
DecompositionError(rebuilt) ==
  IF rebuilt /\ "elem_thickness" \in heap.objects /\ "material_modulus" \notin heap.objects THEN "no material modulus"
  ELSE IF ParentsDiffer(rebuilt) THEN "parents differ"
  ELSE IF ThicknessIsNull(rebuilt) THEN "null followed"
  ELSE IF scheme.model = "VISCOUS_TANGENTIAL" /\ "viscous" \notin mesh_data.scalars THEN "no viscous coefficient"
  ELSE ""

\* What the call follows, until it ends or ends the program, although it leads nowhere.
MissedByDecomposition(rebuilt) ==
  Dangling(heap, FollowedByMesh(rebuilt))
  \cup IF DecompositionError(rebuilt) = "null followed" THEN UncheckedReferences ELSE {}

\* Where a new mesh is made, how wide its ghost layer is, and the coordinates the next call compares with.
Made(d) == [d EXCEPT !.made_at = x, !.ghost = d.trigger]

\* As below, but the coordinates are stored by every call.
RemembersEachCall(rebuilt) == LET d == [mesh_data EXCEPT !.x_last = x] IN mesh_data' = IF rebuilt THEN Made(d) ELSE d

Remembers(rebuilt) == mesh_data' = IF rebuilt THEN Made([mesh_data EXCEPT !.x_last = x]) ELSE mesh_data

\* The gap is zeroed by every call, and as below by a new decomposition only.
ZeroNewGap(rebuilt) == gap' = IF rebuilt THEN {} ELSE gap
ZeroGap(rebuilt) == gap' = {}

updateMfemParallelDecomposition(force) ==
  /\ Registered
  /\ LET rebuilt == NeedsNewRedecomp(force)
         error == DecompositionError(rebuilt)
     IN IF error # ""
        THEN StopAfter(error, MissedByDecomposition(rebuilt))
        ELSE /\ Remembers(rebuilt)
             /\ KeepsFormulation(AfterDecomposition(rebuilt))
             /\ ZeroGap(rebuilt) /\ fresh' = TRUE
             /\ since' = IF rebuilt THEN {} ELSE since
             /\ broken' = broken \cup MissedByDecomposition(rebuilt)
             /\ UNCHANGED <<x, scheme, status>>

-----------------------------------------------------------------------------
(* update, for the objects it goes through. *)

MeshTransfer == RedecompReferences \cup {<<"response", "update_data">>}
PressureTransfer == {<<"redecomp_gap", "submesh_update_data">>} \cup SubmeshReferences \cup LORReferences

\* The references of the kernels and, for ENERGY_MORTAR, of the formulation and of the transfers it uses.
FollowedByUpdate ==
  ViewReferences
  \cup IF IsEnergy THEN MeshTransfer \cup PressureTransfer \cup JacobianReferences \cup FormulationReferences ELSE {}

\* The quadrature points ask for the penalty first; the transfer of the Jacobian is asked for after all others.
FollowedBefore(error) ==
  IF error = "penalty required" THEN ViewReferences ELSE FollowedByUpdate \ JacobianReferences

UpdateError ==
  IF ~IsEnergy THEN ""
  ELSE IF formulation.location = "QuadraturePoint" /\ ~formulation.use_penalty THEN "penalty required"
  ELSE IF "jacobian_update_data" \notin heap.objects THEN "no Jacobian transfer"
  ELSE ""

\* The nodal formulation adds its gaps to what redecomp_gap_ holds.
update ==
  /\ Registered /\ fresh
  /\ IF UpdateError # ""
     THEN StopAfter(UpdateError, Dangling(heap, FollowedBefore(UpdateError)))
     ELSE /\ gap' = IF IsEnergy /\ formulation.location = "Nodal" THEN gap \cup {x} ELSE gap
          /\ broken' = broken \cup Dangling(heap, FollowedByUpdate)
          /\ UNCHANGED <<x, scheme, mesh_data, heap, formulation, fresh, since, status>>

\* Results are read through the transfers they were made with, also after the host has moved on.
Reads(R) ==
  /\ broken' = broken \cup Dangling(heap, R)
  /\ UNCHANGED <<x, scheme, mesh_data, heap, formulation, gap, fresh, since, status>>

getMfemResponse == Registered /\ ~IsEnergy /\ "update_data" \in heap.objects /\ Reads(MeshTransfer)

getMfemGap ==
  /\ Registered /\ HasSubmesh /\ "redecomp_gap" \in heap.objects
  /\ IF "submesh_update_data" \in heap.objects THEN Reads(PressureTransfer) ELSE Stop("no submesh data")

-----------------------------------------------------------------------------
\* Bound: calls that change nothing a method reads are not made for it.
PenaltyNext ==
  /\ scheme.method # "SINGLE_MORTAR"
  /\ \/ \E k \in Penalties : setMfemKinematicConstantPenalty(k)
     \/ setMfemKinematicElementPenalty \/ NeedsKinematic
     \/ updateMfemElemThickness \/ updateMfemMaterialModulus

VelocityNext ==
  /\ scheme.model = "VISCOUS_TANGENTIAL"
  /\ \/ setMfemRateConstantPenalty \/ setMfemRatePercentPenalty \/ setMfemViscousDampingCoeff
     \/ registerMfemVelocity


Next ==
  \/ \E s \in Schemes : registerMfemCouplingScheme(s)
  \/ PenaltyNext \/ VelocityNext
  \/ \E factor \in Factors : setMfemLORFactor(factor)
  \/ \E d \in Triggers : setMfemRedecompTriggerDisplacement(d)
  \/ \E p \in Proximities : IsEnergy /\ setBinningProximityScale(p)
  \/ \E l \in Locations : setEnforcementLocation(l)
  \/ setLagrangeMultiplierOptions
  \/ scheme.method = "SINGLE_MORTAR" /\ registerMfemReferenceCoords
  \/ Move
  \/ \E force \in BOOLEAN : updateMfemParallelDecomposition(force)
  \/ update \/ getMfemResponse \/ getMfemGap

Spec == Init /\ [][Next]_vars

-----------------------------------------------------------------------------
(* Properties. *)

\* The formulation is not the one that would be made now.
Stale == formulation # Created(scheme, mesh_data)

TypeOK ==
  /\ x \in 0 .. MaxX /\ gap \subseteq 0 .. MaxX /\ fresh \in BOOLEAN /\ since \subseteq Calls
  /\ scheme \in [method : Methods, model : Models, kinematic : Kinematic, rate : Rates, location : Locations,
                 proximity : Proximities]
  /\ mesh_data \in [order : 1 .. 2, lor_factor : {0, 2} \cup Factors, x_last : 0 .. MaxX, made_at : 0 .. MaxX,
                    trigger : Triggers, ghost : Nat, penalty : Penalties \cup {k_default}, scalars : SUBSET Scalars,
                    fields : SUBSET {"velocity", "reference_coords"}]
  /\ heap \in Heaps /\ heap.live \cap heap.dangling = {} /\ broken \subseteq References \cup UncheckedReferences
  /\ \A r \in heap.live : r[1] \in heap.objects /\ r[2] \in heap.objects
  /\ formulation \in [location : Locations, use_penalty : BOOLEAN, k : Penalties \cup {k_default}, proximity : Nat]
  /\ status \in {"none", "registered"} \cup Errors

\* After a decomposition, and until a call that asks for another one, the Tribol meshes point to arrays that exist,
\* one for every field the host registered, although the decomposition replaces all of these arrays, call by call; and
\* everything made on the redecomposed mesh was made on the one in use, and not on one with other indices.
NothingStaleInUse ==
  /\ TypeOK
  /\ fresh => /\ \A v \in Views : v \in heap.objects => <<v, Viewed[v]>> \in heap.live
              /\ ViewsOf(mesh_data.fields) \cup SubmeshViews \subseteq heap.objects
              /\ \A r \in heap.dangling : r[2] \notin {"update_data", "submesh_update_data", "coords"}

\* Unless the trigger was changed since, the ghost layer of the mesh in use is as wide as the host has moved since
\* the mesh was made, however many small moves that took.
GhostLayerCoversMotion ==
  (fresh /\ "setMfemRedecompTriggerDisplacement" \notin since) => Abs(x - mesh_data.made_at) <= mesh_data.ghost

\* Location, proximity and Jacobian data of the formulation are those in force after every call, although it holds
\* copies of the first two and the third is replaced. Its penalty mode and stiffness are too, unless the penalty in
\* force is the one by element: setMfemKinematicElementPenalty does not make the formulation anew.
FormulationCurrent ==
  (Registered /\ IsEnergy) =>
    /\ <<"formulation", "jacobian_data">> \in heap.live
    /\ formulation.location = scheme.location
    /\ formulation.proximity = EffectiveProximity(scheme.proximity, mesh_data.lor_factor)
    /\ Stale => scheme.kinematic = "element"

\* A scheme with Jacobian data has its transfer after a decomposition, on the meshes in use, unless the LOR mesh or
\* the options were changed since the redecomposed mesh was made.
JacobianReady ==
  (fresh /\ "jacobian_data" \in heap.objects /\ since \cap {"setMfemLORFactor", "setLagrangeMultiplierOptions"} = {})
    => /\ "jacobian_update_data" \in heap.objects
       /\ \A r \in heap.dangling : r[1] # "jacobian_update_data"

\* The options never name a penalty whose data were cleared by a later call.
PenaltyDataInPlace ==
  /\ scheme.kinematic = "constant" => mesh_data.penalty \in Penalties
  /\ scheme.kinematic = "element" => {"elem_thickness", "material_modulus"} \subseteq heap.objects
  /\ scheme.rate = "constant" => "rate_constant" \in mesh_data.scalars
  /\ scheme.rate = "percent" => "rate_percent" \in mesh_data.scalars

\* A call follows what leads nowhere for one of three causes only: setMfemLORFactor replaced the LOR mesh under what
\* was made from it with the redecomposed mesh; or, at any time, under the thickness and the modulus that the next mesh
\* copies; or setMfemKinematicElementPenalty dropped the copy of the thickness, and the mesh was kept. Whatever else is
\* replaced, in whatever order, is never followed afterwards.
MissesForCause ==
  [][\A r \in broken' \ broken :
       \/ r[2] \in {"lor_mesh", "submesh_lor_xfer"} /\ "setMfemLORFactor" \in since
       \/ r \in ElementReferences
       \/ r \in UncheckedReferences /\ "setMfemKinematicElementPenalty" \in since]_vars

\* An update stops the program for want of a penalty if the host set none, or set one by element after the formulation
\* was made, which then does not know of it. It stops for want of a Jacobian transfer only after a setMfemLORFactor since
\* the redecomposed mesh was made, even one that left the factor as it was.
UpdateStopsForCause ==
  [][(fresh /\ status' \in {"no Jacobian transfer", "penalty required"}) =>
       \/ status' = "penalty required" /\ scheme.kinematic = "none"
       \/ status' = "penalty required" /\ scheme.kinematic = "element" /\ Stale
       \/ status' = "no Jacobian transfer" /\ "setMfemLORFactor" \in since]_vars

\* The nodal gaps hold no contribution of coordinates the mesh has left, whether the decomposition made a new mesh or
\* kept the old one.
GapOfCurrentCoordinates == fresh => gap \subseteq {x}

-----------------------------------------------------------------------------
(* What the documentation says of a call. *)

\* "This resets internal transfer data so the next UpdateMfemSubmeshData() rebuilds consistent redecomp transfers."
\* (MfemData.hpp:1553): the next decomposition does not find that the meshes of the transfer differ.
LORResetRebuilds == status # "parents differ"

\* "No element thickness data available.  Call setMfemKinematicElementPenalty()." (mfem_tribol.cpp:832): a thickness
\* that is missing is reported, and no null pointer is followed.
ThicknessIsReported == status # "null followed"
=============================================================================
