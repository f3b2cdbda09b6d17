------------------------- MODULE MfemTribol_proofs -------------------------
(***************************************************************************)
(* For any schemes, triggers, factors and penalties, and however far the   *)
(* host moves: what the objects of an MFEM coupling scheme refer to, and   *)
(* what its data mean, after any order of calls.                           *)
(***************************************************************************)
EXTENDS MfemTribol, WellFoundedInduction, TLAPS

-----------------------------------------------------------------------------
(***************************************************************************)
(* Heaps.  A reference leads from an object that exists; a live one leads  *)
(* to an object that exists.                                               *)
(***************************************************************************)
GoodHeap(h) ==
  /\ h \in Heaps
  /\ h.live \cap h.dangling = {}
  /\ \A r \in h.live : r[1] \in h.objects /\ r[2] \in h.objects
  /\ \A r \in h.dangling : r[1] \in h.objects

LEMMA FreeParts ==
  ASSUME NEW h, NEW S
  PROVE  /\ Free(h, S).objects = h.objects \ S
         /\ Free(h, S).live = {r \in h.live : r[1] \notin S /\ r[2] \notin S}
         /\ Free(h, S).dangling = {r \in h.dangling : r[1] \notin S}
                                    \cup {r \in h.live : r[1] \notin S /\ r[2] \in S}
BY DEF Free

LEMMA NewParts ==
  ASSUME NEW h, NEW S
  PROVE  /\ New(h, S).objects = h.objects \cup S
         /\ New(h, S).live = {r \in h.live : r[1] \notin S /\ r[2] \notin S}
                               \cup {r \in References : r[1] \in S /\ r[2] \in h.objects \cup S}
         /\ New(h, S).dangling = {r \in h.dangling : r[1] \notin S}
                                   \cup {r \in h.live : r[1] \notin S /\ r[2] \in S}
<1>1. (h.objects \ S) \cup S = h.objects \cup S
  OBVIOUS
<1> QED BY <1>1, FreeParts DEF New

\* Of the references, those the proofs ask about.
LEMMA ReferenceFacts ==
  ASSUME NEW r \in References
  PROVE  /\ r[1] \in Objects /\ r[2] \in Objects /\ r = <<r[1], r[2]>>
         /\ r[2] = "update_data" => r[1] \in {"coords", "response", "velocity", "reference_coords",
                                              "submesh_update_data"}
         /\ r[2] = "submesh_update_data" => r[1] \in {"pressure", "redecomp_gap"}
         /\ r[2] = "coords" => r[1] = "view_x"
         /\ r[1] = "jacobian_update_data" => r[2] \in {"lor_mesh", "submesh_lor_xfer"}
         /\ r[1] \in Views => r[2] = Viewed[r[1]]
<1>1. Views = {"view_x", "view_response", "view_velocity", "view_reference", "view_thickness",
               "view_modulus", "view_gap", "view_pressure"}
  BY DEF Views, Viewed
<1> USE DEF Objects, MeshObjects, PenaltyObjects, SubmeshObjects, JacobianObjects
<1>2. CASE r \in ViewReferences
  <2>1. PICK v \in Views : r = <<v, Viewed[v]>>
    BY <1>2 DEF ViewReferences
  <2> QED BY <1>1, <2>1 DEF Viewed
<1>3. CASE r \in RedecompReferences \cup FieldReferences \cup ElementReferences \cup LORReferences
             \cup SubmeshReferences \cup PressureReferences \cup JacobianReferences
             \cup FormulationReferences
  BY <1>1, <1>3 DEF RedecompReferences, FieldReferences, ElementReferences, LORReferences,
     SubmeshReferences, PressureReferences, JacobianReferences, FormulationReferences
<1> QED BY <1>2, <1>3 DEF References

LEMMA FreeGood == ASSUME NEW h, GoodHeap(h), NEW S PROVE GoodHeap(Free(h, S))
<1>1. /\ Free(h, S).objects \in SUBSET Objects /\ Free(h, S).live \in SUBSET References
      /\ Free(h, S).dangling \in SUBSET References
  BY FreeParts DEF GoodHeap, Heaps
<1>2. Free(h, S) \in Heaps
  BY <1>1 DEF Heaps, Free
<1> QED BY <1>2, FreeParts DEF GoodHeap

LEMMA NewGood ==
  ASSUME NEW h, GoodHeap(h), NEW S \in SUBSET Objects PROVE GoodHeap(New(h, S))
<1>1. /\ New(h, S).objects \in SUBSET Objects /\ New(h, S).live \in SUBSET References
      /\ New(h, S).dangling \in SUBSET References
  BY NewParts DEF GoodHeap, Heaps
<1>2. New(h, S) \in Heaps
  BY <1>1 DEF Heaps, New
<1>3. New(h, S).live \cap New(h, S).dangling = {}
  BY NewParts DEF GoodHeap
<1>4. \A r \in New(h, S).live : r[1] \in New(h, S).objects /\ r[2] \in New(h, S).objects
  BY NewParts DEF GoodHeap
<1>5. \A r \in New(h, S).dangling : r[1] \in New(h, S).objects
  BY NewParts DEF GoodHeap
<1> QED BY <1>2, <1>3, <1>4, <1>5 DEF GoodHeap

LEMMA NewIfGood ==
  ASSUME NEW h, GoodHeap(h), NEW S \in SUBSET Objects, NEW cond PROVE GoodHeap(NewIf(cond, h, S))
BY NewGood DEF NewIf

\* The sets of objects that calls make.
LEMMA ObjectSets ==
  /\ {{"lor_mesh"}, {"submesh_lor_xfer"}, {"jacobian_data", "formulation"}, {"formulation"},
      {"jacobian_data"}, {"elem_thickness", "material_modulus"}, {"elem_thickness"},
      {"material_modulus"}, {"update_data"}, {"response"},
      {"tribol_elem_thickness", "tribol_material_modulus"}, {"submesh_update_data"},
      {"pressure", "redecomp_gap"}, {"jacobian_update_data"}} \subseteq SUBSET Objects
  /\ \A F \in SUBSET {"velocity", "reference_coords"} : {"coords"} \cup F \in SUBSET Objects
  /\ SubmeshViews \cup PenaltyViews \in SUBSET Views
  /\ Views \in SUBSET Objects
BY DEF Objects, MeshObjects, PenaltyObjects, SubmeshObjects, JacobianObjects, SubmeshViews,
   PenaltyViews, Views, Viewed

LEMMA ViewsOfFields ==
  ASSUME NEW F \in SUBSET {"velocity", "reference_coords"}
  PROVE  ViewsOf(F) = {"view_x", "view_response"}
                        \cup (IF "velocity" \in F THEN {"view_velocity"} ELSE {})
                        \cup (IF "reference_coords" \in F THEN {"view_reference"} ELSE {})
<1>1. Views = {"view_x", "view_response", "view_velocity", "view_reference", "view_thickness",
               "view_modulus", "view_gap", "view_pressure"}
  BY DEF Views, Viewed
<1>2. \A v \in Views : /\ Viewed[v] = "velocity" <=> v = "view_velocity"
                       /\ Viewed[v] = "reference_coords" <=> v = "view_reference"
  BY <1>1 DEF Viewed
<1>3. (CHOOSE v \in Views : Viewed[v] = "velocity") = "view_velocity"
  BY <1>1, <1>2
<1>4. (CHOOSE v \in Views : Viewed[v] = "reference_coords") = "view_reference"
  BY <1>1, <1>2
<1> DEFINE C(f) == CHOOSE v \in Views : Viewed[v] = f
<1>5. C("velocity") = "view_velocity" /\ C("reference_coords") = "view_reference"
  BY <1>3, <1>4
<1> HIDE DEF C
<1>6. {C(f) : f \in F} = (IF "velocity" \in F THEN {"view_velocity"} ELSE {})
                           \cup (IF "reference_coords" \in F THEN {"view_reference"} ELSE {})
  BY <1>5
<1> QED BY <1>6 DEF ViewsOf, C

\* A nonempty set of numbers has a least.
LEMMA LeastIsMember == ASSUME NEW S \in SUBSET Nat, S # {} PROVE Least(S) \in S
<1>1. \E n \in S : \A m \in S : n <= m
  <2>1. PICK n \in S : \A m \in S : ~(m < n)
    <3>1. PICK k \in S : TRUE
      OBVIOUS
    <3>2. \E n \in S : \A m \in S : ~(<<m, n>> \in OpToRel(<, Nat))
      BY <3>1, NatLessThanWellFounded, WFMin, Zenon
    <3> QED BY <3>2 DEF OpToRel
  <2> QED BY <2>1
<1> QED BY <1>1 DEF Least

-----------------------------------------------------------------------------
(***************************************************************************)
(* Types.                                                                  *)
(***************************************************************************)
Types == TypeOK /\ GoodHeap(heap)

LEMMA LORFactorGood == ASSUME GoodHeap(heap), NEW factor PROVE GoodHeap(AfterLORFactor(factor))
<1> DEFINE lor == NewIf(Refines(factor), heap, {"lor_mesh"})
           submesh == NewIf(HasSubmesh /\ "lor_mesh" \in lor.objects, lor, {"submesh_lor_xfer"})
           reset == Free(submesh, {"submesh_update_data"})
<1>1. GoodHeap(lor)
  BY ObjectSets, NewIfGood
<1> HIDE DEF lor
<1>2. GoodHeap(submesh)
  BY <1>1, ObjectSets, NewIfGood
<1> HIDE DEF submesh
<1>3. GoodHeap(reset)
  BY <1>2, FreeGood
<1> HIDE DEF reset
<1>4. GoodHeap(Free(reset, JacobianObjects))
  BY <1>3, FreeGood
<1>5. GoodHeap(New(Free(reset, JacobianObjects), {"jacobian_data"}))
  BY <1>4, ObjectSets, NewGood
<1> QED BY <1>3, <1>5 DEF AfterLORFactor, lor, submesh, reset

LEMMA DecompositionGood ==
  ASSUME Types, NEW rebuilt
  PROVE  GoodHeap(AfterDecomposition(rebuilt))
<1> DEFINE mesh == NewIf(rebuilt, heap, {"update_data"})
           fields == New(mesh, {"coords"} \cup mesh_data.fields)
           response == NewIf(rebuilt, fields, {"response"})
           copied == NewIf(rebuilt /\ "elem_thickness" \in heap.objects, response,
                           {"tribol_elem_thickness", "tribol_material_modulus"})
<1>0. mesh_data.fields \in SUBSET {"velocity", "reference_coords"}
  BY DEF Types, TypeOK
<1>1. GoodHeap(mesh)
  BY ObjectSets, NewIfGood DEF Types
<1> HIDE DEF mesh
<1>2. GoodHeap(fields)
  BY <1>0, <1>1, ObjectSets, NewGood
<1> HIDE DEF fields
<1>3. GoodHeap(response)
  BY <1>2, ObjectSets, NewIfGood
<1> HIDE DEF response
<1>4. GoodHeap(copied)
  BY <1>3, ObjectSets, NewIfGood
<1>5. copied = UpdateMfemMeshData(rebuilt)
  BY DEF UpdateMfemMeshData, copied, response, fields, mesh
<1> HIDE DEF copied
<1>6. GoodHeap(Free(copied, Views))
  BY <1>4, FreeGood
<1>7. ViewsOf(mesh_data.fields) \in SUBSET Objects
  <2>1. ViewsOf(mesh_data.fields) \subseteq Views
    BY <1>0, ViewsOfFields DEF Views, Viewed
  <2> QED BY <2>1, ObjectSets
<1> DEFINE viewed == RegisterMeshes(copied)
           sub == NewIf(HasSubmesh, NewIf(RebuildsSubmesh(rebuilt), viewed, {"submesh_update_data"}),
                        {"pressure", "redecomp_gap"})
<1>8. GoodHeap(viewed)
  BY <1>6, <1>7, NewGood DEF RegisterMeshes
<1> HIDE DEF viewed
<1>9. GoodHeap(NewIf(RebuildsSubmesh(rebuilt), viewed, {"submesh_update_data"}))
  BY <1>8, ObjectSets, NewIfGood
<1>10. GoodHeap(sub)
  BY <1>9, ObjectSets, NewIfGood
<1>11. sub = UpdateMfemSubmeshData(viewed, rebuilt)
  BY DEF UpdateMfemSubmeshData, sub
<1> HIDE DEF sub
<1>12. GoodHeap(UpdateJacobianXfer(sub, rebuilt))
  BY <1>10, ObjectSets, NewIfGood DEF UpdateJacobianXfer
<1>13. SubmeshViews \cup PenaltyViews \in SUBSET Objects
  BY ObjectSets
<1>14. GoodHeap(New(UpdateJacobianXfer(sub, rebuilt), SubmeshViews \cup PenaltyViews))
  BY <1>12, <1>13, NewGood
<1> QED BY <1>5, <1>11, <1>14 DEF AfterDecomposition, viewed

LEMMA ProximityType ==
  ASSUME NEW p \in Nat, NEW factor \in Nat PROVE EffectiveProximity(p, factor) \in Nat
<1>1. p * factor \in Nat
  OBVIOUS
<1> QED BY <1>1 DEF EffectiveProximity

SchemeType ==
  [method : Methods, model : Models, kinematic : Kinematic, rate : Rates, location : Locations,
   proximity : Proximities]
MeshDataType ==
  [order : 1 .. 2, lor_factor : {0, 2} \cup Factors, x_last : 0 .. MaxX, made_at : 0 .. MaxX,
   trigger : Triggers, ghost : Nat, penalty : Penalties \cup {k_default}, scalars : SUBSET Scalars,
   fields : SUBSET {"velocity", "reference_coords"}]
FormulationType ==
  [location : Locations, use_penalty : BOOLEAN, k : Penalties \cup {k_default}, proximity : Nat]

LEMMA CreatedType ==
  ASSUME NEW s \in SchemeType, NEW d \in MeshDataType PROVE Created(s, d) \in FormulationType
<1>1. s.proximity \in Nat /\ d.lor_factor \in Nat
  <2>1. s.proximity \in Proximities /\ d.lor_factor \in {0, 2} \cup Factors
    BY DEF SchemeType, MeshDataType
  <2>2. {0, 2} \subseteq Nat
    BY SMT
  <2> QED BY <2>1, <2>2, MfemAssumption, Zenon
<1> QED BY <1>1, ProximityType DEF Created, SchemeType, MeshDataType, FormulationType

LEMMA InitTypes == Init => Types
<1> SUFFICES ASSUME Init PROVE Types
  OBVIOUS
<1>1. Least(Proximities) \in Proximities /\ Least(Triggers) \in Triggers
  BY MfemAssumption, LeastIsMember
<1>2. GoodHeap(heap)
  BY DEF Init, GoodHeap, EmptyHeap, Heaps
<1>3. scheme \in SchemeType
  BY <1>1 DEF Init, SchemeType, Methods, Models, Kinematic, Rates, Locations
<1>4. mesh_data \in MeshDataType
  <2>1. MaxX \in Nat
    BY MfemAssumption, Zenon
  <2>2. 0 \in 0 .. MaxX /\ 1 \in 1 .. 2 /\ 0 \in Nat
    BY <2>1, SMT
  <2> QED BY <1>1, <2>2, Zenon DEF Init, MeshDataType
<1>5. formulation \in FormulationType
  BY DEF Init, FormulationType, Locations
<1>6. x \in 0 .. MaxX
  BY MfemAssumption DEF Init
<1> QED BY <1>2, <1>3, <1>4, <1>5, <1>6
        DEF Init, Types, TypeOK, GoodHeap, SchemeType, MeshDataType, FormulationType

\* What is left to show of a step that keeps the types of the plain variables.
LEMMA TypesFrom ==
  ASSUME Types, GoodHeap(heap'), x' \in 0 .. MaxX, gap' \subseteq 0 .. MaxX, fresh' \in BOOLEAN,
         since' \subseteq Calls, scheme' \in SchemeType, mesh_data' \in MeshDataType,
         formulation' \in FormulationType, broken' \subseteq References \cup UncheckedReferences,
         status' \in {"none", "registered"} \cup Errors
  PROVE  Types'
BY DEF Types, TypeOK, GoodHeap, SchemeType, MeshDataType, FormulationType

LEMMA TypesNow ==
  ASSUME Types
  PROVE  /\ GoodHeap(heap) /\ x \in 0 .. MaxX /\ gap \subseteq 0 .. MaxX /\ fresh \in BOOLEAN
         /\ since \subseteq Calls /\ scheme \in SchemeType /\ mesh_data \in MeshDataType
         /\ formulation \in FormulationType
         /\ broken \subseteq References \cup UncheckedReferences
         /\ status \in {"none", "registered"} \cup Errors
BY DEF Types, TypeOK, SchemeType, MeshDataType, FormulationType

\* Calls by which objects are made anew with the formulation, or without.
LEMMA FormulationTypes ==
  ASSUME NEW h, GoodHeap(h), scheme' \in SchemeType, mesh_data' \in MeshDataType,
         formulation \in FormulationType, updateContactFormulation(h)
  PROVE  GoodHeap(heap') /\ formulation' \in FormulationType
<1>1. GoodHeap(heap')
  BY ObjectSets, NewIfGood DEF updateContactFormulation
<1>2. Created(scheme', mesh_data') \in FormulationType
  BY CreatedType
<1> QED BY <1>1, <1>2 DEF updateContactFormulation

LEMMA PenaltyRange == ASSUME NEW k \in Penalties PROVE k \in Penalties \cup {k_default}
OBVIOUS

LEMMA TypesRegister ==
  ASSUME Types, NEW s \in Schemes, registerMfemCouplingScheme(s) PROVE Types'
<1> USE TypesNow
<1> DEFINE lor == NewIf(s.order > 1, heap, {"lor_mesh"})
           submesh == NewIf(s.order > 1 /\ s.method # "COMMON_PLANE", lor, {"submesh_lor_xfer"})
<1>1. s \in [method : Methods, model : Models, order : 1 .. 2, location : Locations]
  BY MfemAssumption
<1>2. scheme' \in SchemeType
  BY <1>1 DEF registerMfemCouplingScheme, SchemeType
<1>3. (IF s.order > 1 THEN s.order ELSE 0) \in {0, 2} \cup Factors
  BY <1>1
<1>4. mesh_data' \in MeshDataType
  BY <1>1, <1>3 DEF registerMfemCouplingScheme, MeshDataType
<1>5. GoodHeap(lor)
  BY ObjectSets, NewIfGood
<1> HIDE DEF lor
<1>6. GoodHeap(submesh)
  BY <1>5, ObjectSets, NewIfGood
<1> HIDE DEF submesh
<1>7. GoodHeap(New(submesh, {"jacobian_data", "formulation"}))
  BY <1>6, ObjectSets, NewGood
<1>8. Created(scheme', mesh_data') \in FormulationType
  BY <1>2, <1>4, CreatedType
<1>9. GoodHeap(heap') /\ formulation' \in FormulationType
  BY <1>6, <1>7, <1>8 DEF registerMfemCouplingScheme, submesh, lor, KeepsFormulation
<1> QED BY <1>2, <1>4, <1>9, TypesFrom DEF registerMfemCouplingScheme

LEMMA TypesLORFactor ==
  ASSUME Types, NEW factor \in Factors, setMfemLORFactor(factor) PROVE Types'
<1> USE TypesNow
<1>1. mesh_data' \in MeshDataType
  BY DEF setMfemLORFactor, LORFactorSet, MeshDataType
<1>2. GoodHeap(heap') /\ formulation' \in FormulationType
  BY <1>1, LORFactorGood, FormulationTypes DEF setMfemLORFactor, LORFactorSet
<1> QED BY <1>1, <1>2, TypesFrom DEF setMfemLORFactor, LORFactorSet, Calls

LEMMA TypesProximity ==
  ASSUME Types, NEW p \in Proximities, setBinningProximityScale(p) PROVE Types'
<1> USE TypesNow
<1>1. scheme' \in SchemeType /\ mesh_data' \in MeshDataType
  BY DEF setBinningProximityScale, SchemeType
<1>2. GoodHeap(heap') /\ formulation' \in FormulationType
  BY <1>1, FormulationTypes DEF setBinningProximityScale
<1> QED BY <1>1, <1>2, TypesFrom DEF setBinningProximityScale

LEMMA TypesLocation ==
  ASSUME Types, NEW l \in Locations, setEnforcementLocation(l) PROVE Types'
<1> USE TypesNow
<1>1. scheme' \in SchemeType /\ mesh_data' \in MeshDataType
  BY DEF setEnforcementLocation, SchemeType
<1>2. GoodHeap(heap') /\ formulation' \in FormulationType
  BY <1>1, FormulationTypes DEF setEnforcementLocation
<1> QED BY <1>1, <1>2, TypesFrom DEF setEnforcementLocation

LEMMA TypesLagrange == ASSUME Types, setLagrangeMultiplierOptions PROVE Types'
<1> USE TypesNow
<1>1. GoodHeap(heap')
  BY ObjectSets, NewGood DEF setLagrangeMultiplierOptions, KeepsFormulation
<1> QED BY <1>1, TypesFrom DEF setLagrangeMultiplierOptions, KeepsFormulation, Calls

LEMMA TypesConstantPenalty ==
  ASSUME Types, NEW k \in Penalties, setMfemKinematicConstantPenalty(k) PROVE Types'
<1> USE TypesNow
<1>1. scheme' \in SchemeType /\ mesh_data' \in MeshDataType
  BY DEF setMfemKinematicConstantPenalty, ConstantPenaltySet, setPenaltyOptions, ClearAllPenaltyData,
         SchemeType, MeshDataType, Kinematic, Rates
<1>2. GoodHeap(heap') /\ formulation' \in FormulationType
  BY <1>1, FreeGood, FormulationTypes DEF setMfemKinematicConstantPenalty
<1> QED BY <1>1, <1>2, TypesFrom DEF setMfemKinematicConstantPenalty, ConstantPenaltySet

LEMMA TypesElementPenalty == ASSUME Types, setMfemKinematicElementPenalty PROVE Types'
<1> USE TypesNow
<1>1. scheme' \in SchemeType /\ mesh_data' \in MeshDataType
  BY DEF setMfemKinematicElementPenalty, setPenaltyOptions, ClearAllPenaltyData,
         SchemeType, MeshDataType, Kinematic, Rates
<1>2. GoodHeap(Free(heap, PenaltyObjects))
  BY FreeGood
<1>3. GoodHeap(heap')
  BY <1>2, ObjectSets, NewGood DEF setMfemKinematicElementPenalty, KeepsFormulation
<1> QED BY <1>1, <1>3, TypesFrom DEF setMfemKinematicElementPenalty, KeepsFormulation, Calls

LEMMA TypesRate ==
  ASSUME Types, NEW rate \in Rates, NEW scalar \in Scalars, setMfemRatePenalty(rate, scalar)
  PROVE  Types'
<1> USE TypesNow
<1>1. scheme' \in SchemeType /\ mesh_data' \in MeshDataType
  BY DEF setMfemRatePenalty, setPenaltyOptions, SchemeType, MeshDataType
<1> QED BY <1>1, TypesFrom DEF setMfemRatePenalty

LEMMA TypesField ==
  ASSUME Types, NEW f \in {"velocity", "reference_coords"}, registerMfemField(f) PROVE Types'
<1> USE TypesNow
<1>1. mesh_data' \in MeshDataType
  BY DEF registerMfemField, MeshDataType
<1>2. GoodHeap(heap')
  BY FreeGood DEF registerMfemField, KeepsFormulation
<1> QED BY <1>1, <1>2, TypesFrom DEF registerMfemField, KeepsFormulation

LEMMA TypesElementData ==
  ASSUME Types, NEW o \in {"elem_thickness", "material_modulus"}, updateMfemElementData(o)
  PROVE  Types'
<1> USE TypesNow
<1>1. GoodHeap(heap')
  BY ObjectSets, NewGood DEF updateMfemElementData, KeepsFormulation
<1> QED BY <1>1, TypesFrom DEF updateMfemElementData, KeepsFormulation

LEMMA TypesStop ==
  ASSUME Types, NEW e \in Errors, NEW R \in SUBSET (References \cup UncheckedReferences),
         StopAfter(e, R)
  PROVE  Types'
BY TypesNow, TypesFrom DEF StopAfter

\* What a call misses is among the references.
LEMMA MissedTypes ==
  ASSUME Types
  PROVE  /\ \A R : Dangling(heap, R) \subseteq References
         /\ \A rebuilt : MissedByDecomposition(rebuilt) \subseteq References \cup UncheckedReferences
<1>1. \A R : Dangling(heap, R) \subseteq References
  BY DEF Types, GoodHeap, Heaps, Dangling
<1> QED BY <1>1 DEF MissedByDecomposition

\* The errors of the calls.
LEMMA DecompositionErrors ==
  ASSUME NEW rebuilt, DecompositionError(rebuilt) # "" PROVE DecompositionError(rebuilt) \in Errors
BY DEF DecompositionError, Errors

LEMMA UpdateErrors == UpdateError # "" => UpdateError \in {"penalty required", "no Jacobian transfer"}
BY DEF UpdateError

LEMMA TypesDecomposition ==
  ASSUME Types, NEW force, updateMfemParallelDecomposition(force) PROVE Types'
<1> USE TypesNow
<1> DEFINE rebuilt == NeedsNewRedecomp(force)
<1>1. CASE DecompositionError(rebuilt) # ""
  BY <1>1, DecompositionErrors, MissedTypes, TypesStop DEF updateMfemParallelDecomposition
<1>2. CASE DecompositionError(rebuilt) = ""
  <2>1. GoodHeap(heap')
    BY <1>2, DecompositionGood DEF updateMfemParallelDecomposition, KeepsFormulation
  <2>2. mesh_data' \in MeshDataType
    <3>1. Triggers \subseteq Nat
      BY MfemAssumption
    <3> QED BY <1>2, <3>1 DEF updateMfemParallelDecomposition, Remembers, Made, MeshDataType
  <2>3. since' \subseteq Calls
    BY <1>2 DEF updateMfemParallelDecomposition
  <2>4. broken' \subseteq References \cup UncheckedReferences
    BY <1>2, MissedTypes DEF updateMfemParallelDecomposition
  <2> QED BY <1>2, <2>1, <2>2, <2>3, <2>4, TypesFrom
          DEF updateMfemParallelDecomposition, KeepsFormulation, ZeroGap
<1> QED BY <1>1, <1>2

LEMMA TypesUpdate == ASSUME Types, update PROVE Types'
<1> USE TypesNow
<1>1. CASE UpdateError # ""
  <2>1. UpdateError \in Errors
    BY <1>1, UpdateErrors DEF Errors
  <2> QED BY <1>1, <2>1, MissedTypes, TypesStop DEF update
<1>2. CASE UpdateError = ""
  <2>1. broken' \subseteq References \cup UncheckedReferences
    BY <1>2, MissedTypes DEF update
  <2> QED BY <1>2, <2>1, TypesFrom DEF update
<1> QED BY <1>1, <1>2

LEMMA TypesReads == ASSUME Types, NEW R, Reads(R) PROVE Types'
<1> USE TypesNow
<1>1. broken' \subseteq References \cup UncheckedReferences
  BY MissedTypes DEF Reads
<1> QED BY <1>1, TypesFrom DEF Reads

-----------------------------------------------------------------------------
(***************************************************************************)
(* The invariant.                                                          *)
(***************************************************************************)

\* Between any two calls: a grid function that was registered may be there, one that was not is not; the redecomposed
\* mesh never comes without its response, the copy of the thickness never without that of the modulus, and nothing of
\* a submesh without one; what is on the redecomposed mesh was made on the one in use, and what is on the transfer
\* to the submesh as well, if there is one; and the transfer to the LOR mesh of the submesh leads to it.
OfSubmesh == {"submesh_lor_xfer", "submesh_update_data", "jacobian_data", "pressure", "redecomp_gap"}

Consistent(h, submesh, fields) ==
  /\ h.objects \cap {"velocity", "reference_coords"} \subseteq fields
  /\ "update_data" \in h.objects => "response" \in h.objects
  /\ "tribol_elem_thickness" \in h.objects => "tribol_material_modulus" \in h.objects
  /\ "jacobian_update_data" \in h.objects => "jacobian_data" \in h.objects
  /\ ~submesh => h.objects \cap OfSubmesh = {}
  /\ \A r \in h.dangling : r[2] # "update_data"
  /\ \A r \in h.dangling : r[2] = "submesh_update_data" => "submesh_update_data" \notin h.objects
  /\ <<"submesh_lor_xfer", "lor_mesh">> \notin h.dangling

\* After a decomposition, and until a call that asks for another one.
InUse(h, submesh, fields) ==
  /\ "update_data" \in h.objects
  /\ submesh => "submesh_update_data" \in h.objects
  /\ \A v \in Views : v \in h.objects => <<v, Viewed[v]>> \in h.live
  /\ ViewsOf(fields) \cup (IF submesh THEN {"view_gap", "view_pressure"} ELSE {}) \subseteq h.objects
  /\ \A r \in h.dangling : r[2] # "coords"

\* The Jacobian transfer was made with the redecomposed mesh, and nothing it refers to was replaced since.
JacobianWithMesh(h) ==
  {"update_data", "jacobian_data"} \subseteq h.objects =>
    /\ "jacobian_update_data" \in h.objects
    /\ \A r \in h.dangling : r[1] # "jacobian_update_data"

\* What was made with the redecomposed mesh leads to the LOR mesh it was made from.
OfLORMesh == {"lor_mesh", "submesh_lor_xfer"}
LORKept(h) == \A r \in h.dangling : r[2] \in OfLORMesh => r \in ElementReferences

ReplacesJacobian == {"setMfemLORFactor", "setLagrangeMultiplierOptions"}
TriggerUnchanged == "setMfemRedecompTriggerDisplacement" \notin since

HeapInv ==
  /\ status = "none" => heap = EmptyHeap /\ since = {}
  /\ Consistent(heap, HasSubmesh, mesh_data.fields)
  /\ fresh => InUse(heap, HasSubmesh, mesh_data.fields)
  /\ since \cap ReplacesJacobian = {} => JacobianWithMesh(heap)
  /\ "setMfemLORFactor" \notin since => LORKept(heap)

\* Coordinates.
MotionInv ==
  /\ mesh_data.made_at = mesh_data.x_last
  /\ ("update_data" \in heap.objects /\ TriggerUnchanged) => mesh_data.ghost = mesh_data.trigger
  /\ (fresh /\ TriggerUnchanged) => Abs(x - mesh_data.x_last) <= mesh_data.trigger
  /\ GapOfCurrentCoordinates

\* A penalty by element that was in force when the mesh was made has its thickness copied there.
ThicknessCopied ==
  /\ scheme.kinematic = "element"
  /\ "update_data" \in heap.objects /\ "setMfemKinematicElementPenalty" \notin since
  => "tribol_elem_thickness" \in heap.objects

OptionsInv ==
  /\ FormulationCurrent
  /\ IsEnergy => "setLagrangeMultiplierOptions" \notin since
  /\ PenaltyDataInPlace
  /\ ThicknessCopied

IInv == Types /\ HeapInv /\ MotionInv /\ OptionsInv

-----------------------------------------------------------------------------
(***************************************************************************)
(* What the calls do to the objects.                                       *)
(***************************************************************************)

LEMMA NewIfParts ==
  ASSUME NEW h, NEW S, NEW cond
  PROVE  /\ NewIf(cond, h, S).objects = h.objects \cup (IF cond THEN S ELSE {})
         /\ \A r \in h.live : (r[1] \notin S /\ r[2] \notin S) => r \in NewIf(cond, h, S).live
         /\ \A r \in NewIf(cond, h, S).dangling :
               /\ r \in h.dangling \/ (cond /\ r \in h.live /\ r[2] \in S)
               /\ cond => r[1] \notin S
BY NewParts DEF NewIf

\* Objects that nothing on the redecomposed mesh refers to.
Apart == {"elem_thickness", "material_modulus", "formulation", "jacobian_data"}

LEMMA ApartObjects == Apart \in SUBSET Objects
BY DEF Apart, Objects, PenaltyObjects, JacobianObjects

LEMMA NothingRefersToApart ==
  ASSUME NEW r \in References, r[2] \in Apart PROVE r = <<"formulation", "jacobian_data">>
<1>1. CASE r \in ViewReferences
  <2>1. PICK v \in Views : r = <<v, Viewed[v]>>
    BY <1>1 DEF ViewReferences
  <2> QED BY <2>1 DEF Apart, Views, Viewed
<1>2. CASE r \notin ViewReferences
  BY <1>2 DEF References, RedecompReferences, FieldReferences, ElementReferences, LORReferences,
     SubmeshReferences, PressureReferences, JacobianReferences, FormulationReferences, Apart
<1> QED BY <1>1, <1>2

\* What refers to the objects that count is made on the mesh, the submesh or the Jacobian transfer.
LEMMA ApartNew ==
  ASSUME NEW h, GoodHeap(h), NEW submesh, NEW fields, NEW S \in SUBSET Apart,
         "jacobian_data" \in S => submesh
  PROVE  /\ Consistent(h, submesh, fields) => Consistent(New(h, S), submesh, fields)
         /\ InUse(h, submesh, fields) => InUse(New(h, S), submesh, fields)
         /\ (JacobianWithMesh(h) /\ "jacobian_data" \notin S) => JacobianWithMesh(New(h, S))
         /\ LORKept(h) => LORKept(New(h, S))
<1>1. New(h, S).objects = h.objects \cup S
  BY NewParts
<1>2. \A r \in New(h, S).dangling : r \in h.dangling \/ r = <<"formulation", "jacobian_data">>
  BY NewParts, NothingRefersToApart DEF GoodHeap, Heaps
<1>3. \A v \in Views : v \in New(h, S).objects => v \in h.objects
  BY <1>1 DEF Apart, Views, Viewed
<1>4. \A v \in Views : <<v, Viewed[v]>> \in h.live => <<v, Viewed[v]>> \in New(h, S).live
  BY NewParts DEF Apart, Views, Viewed
<1> HIDE DEF Views
<1>5. ASSUME Consistent(h, submesh, fields) PROVE Consistent(New(h, S), submesh, fields)
  BY <1>1, <1>2, <1>5 DEF Consistent, Apart, OfSubmesh
<1>6. ASSUME InUse(h, submesh, fields) PROVE InUse(New(h, S), submesh, fields)
  BY <1>1, <1>2, <1>3, <1>4, <1>6 DEF InUse
<1>7. ASSUME JacobianWithMesh(h), "jacobian_data" \notin S PROVE JacobianWithMesh(New(h, S))
  BY <1>1, <1>2, <1>7 DEF JacobianWithMesh, Apart
<1>8. ASSUME LORKept(h) PROVE LORKept(New(h, S))
  BY <1>2, <1>8 DEF LORKept, OfLORMesh
<1> QED BY <1>5, <1>6, <1>7, <1>8

LEMMA FreePenalty ==
  ASSUME NEW h, GoodHeap(h), NEW submesh, NEW fields
  PROVE  /\ Consistent(h, submesh, fields) => Consistent(Free(h, PenaltyObjects), submesh, fields)
         /\ JacobianWithMesh(h) => JacobianWithMesh(Free(h, PenaltyObjects))
         /\ LORKept(h) => LORKept(Free(h, PenaltyObjects))
<1>1. Free(h, PenaltyObjects).objects = h.objects \ PenaltyObjects
  BY FreeParts
<1>2. \A r \in Free(h, PenaltyObjects).dangling :
         r \in h.dangling \/ (r \in h.live /\ r[2] \in PenaltyObjects)
  BY FreeParts
<1>3. \A r \in References : r[2] \in PenaltyObjects => r[1] # "jacobian_update_data"
  BY ReferenceFacts DEF PenaltyObjects
<1>4. \A r \in h.live : r \in References
  BY DEF GoodHeap, Heaps
<1> QED BY <1>1, <1>2, <1>3, <1>4
        DEF Consistent, OfSubmesh, JacobianWithMesh, PenaltyObjects, LORKept, OfLORMesh

LEMMA FreeField ==
  ASSUME NEW h, GoodHeap(h), NEW submesh, NEW fields, NEW f \in {"velocity", "reference_coords"}
  PROVE  /\ Consistent(h, submesh, fields) => Consistent(Free(h, {f}), submesh, fields \cup {f})
         /\ JacobianWithMesh(h) => JacobianWithMesh(Free(h, {f}))
         /\ LORKept(h) => LORKept(Free(h, {f}))
<1>1. Free(h, {f}).objects = h.objects \ {f}
  BY FreeParts
<1>2. \A r \in Free(h, {f}).dangling : r \in h.dangling \/ (r \in h.live /\ r[2] = f)
  BY FreeParts
<1>3. \A r \in References : r[2] = f => r[1] # "jacobian_update_data"
  BY ReferenceFacts
<1>4. \A r \in h.live : r \in References
  BY DEF GoodHeap, Heaps
<1> QED BY <1>1, <1>2, <1>3, <1>4 DEF Consistent, OfSubmesh, JacobianWithMesh, LORKept, OfLORMesh

\* A call on the LOR mesh: the transfer to the submesh is gone, and what referred to it waits for the next one.
LEMMA LORFactorConsistent ==
  ASSUME GoodHeap(heap), NEW factor, NEW fields, Consistent(heap, HasSubmesh, fields)
  PROVE  Consistent(AfterLORFactor(factor), HasSubmesh, fields)
<1> DEFINE lor == NewIf(Refines(factor), heap, {"lor_mesh"})
           submesh == NewIf(HasSubmesh /\ "lor_mesh" \in lor.objects, lor, {"submesh_lor_xfer"})
           reset == Free(submesh, {"submesh_update_data"})
           final == IF "jacobian_data" \in heap.objects
                    THEN New(Free(reset, JacobianObjects), {"jacobian_data"}) ELSE reset
<1>1. final = AfterLORFactor(factor)
  BY DEF AfterLORFactor, final, reset, submesh, lor
<1>2. /\ lor.objects \subseteq heap.objects \cup {"lor_mesh"} /\ heap.objects \subseteq lor.objects
      /\ \A r \in lor.dangling : r \in heap.dangling \/ r[2] = "lor_mesh"
  BY NewParts DEF NewIf
<1> HIDE DEF lor
<1>3. /\ submesh.objects \subseteq lor.objects \cup {"submesh_lor_xfer"}
      /\ lor.objects \subseteq submesh.objects
      /\ \A r \in submesh.dangling : r \in lor.dangling \/ r[2] = "submesh_lor_xfer"
  BY NewParts DEF NewIf
<1> HIDE DEF submesh
<1>4. /\ reset.objects = submesh.objects \ {"submesh_update_data"}
      /\ \A r \in reset.dangling : r \in submesh.dangling \/ r[2] = "submesh_update_data"
  BY FreeParts
<1> HIDE DEF reset
<1>5. /\ final.objects \subseteq reset.objects
      /\ reset.objects \subseteq final.objects \cup {"jacobian_update_data"}
      /\ \A r \in final.dangling : r \in reset.dangling \/ r[2] \in JacobianObjects
  <2>1. CASE "jacobian_data" \in heap.objects
    <3> DEFINE freed == Free(reset, JacobianObjects)
    <3>1. /\ freed.objects = reset.objects \ JacobianObjects
          /\ \A r \in freed.dangling : r \in reset.dangling \/ r[2] \in JacobianObjects
      BY FreeParts
    <3> HIDE DEF freed
    <3>2. /\ New(freed, {"jacobian_data"}).objects = freed.objects \cup {"jacobian_data"}
          /\ \A r \in New(freed, {"jacobian_data"}).dangling :
                r \in freed.dangling \/ r[2] \in JacobianObjects
      BY NewParts DEF JacobianObjects
    <3>3. "jacobian_data" \in reset.objects
      BY <2>1, <1>2, <1>3, <1>4
    <3>4. final = New(freed, {"jacobian_data"})
      BY <2>1 DEF final, freed
    <3> QED BY <3>1, <3>2, <3>3, <3>4 DEF JacobianObjects
  <2>2. CASE "jacobian_data" \notin heap.objects
    BY <2>2
  <2> QED BY <2>1, <2>2
<1> HIDE DEF final
<1>6. final.objects \subseteq heap.objects \cup {"lor_mesh", "submesh_lor_xfer"}
  BY <1>2, <1>3, <1>4, <1>5
<1>7. heap.objects \subseteq final.objects \cup {"jacobian_update_data", "submesh_update_data"}
  BY <1>2, <1>3, <1>4, <1>5
<1>8. \A r \in final.dangling :
         r \in heap.dangling
         \/ r[2] \in {"lor_mesh", "submesh_lor_xfer", "submesh_update_data"} \cup JacobianObjects
  BY <1>2, <1>3, <1>4, <1>5, Zenon
<1>9. "submesh_update_data" \notin final.objects
  BY <1>4, <1>5
<1>10. "jacobian_update_data" \in final.objects => "jacobian_data" \in final.objects
  BY <1>6, <1>7 DEF Consistent
<1>11. <<"submesh_lor_xfer", "lor_mesh">> \notin final.dangling
  <2> SUFFICES <<"submesh_lor_xfer", "lor_mesh">> \notin submesh.dangling
    BY <1>4, <1>5 DEF JacobianObjects
  <2>1. CASE HasSubmesh /\ "lor_mesh" \in lor.objects
    <3>1. submesh = New(lor, {"submesh_lor_xfer"})
      BY <2>1 DEF submesh, NewIf
    <3>2. \A r \in submesh.dangling : r[1] # "submesh_lor_xfer"
      BY <3>1, NewParts
    <3> QED BY <3>2
  <2>2. CASE ~(HasSubmesh /\ "lor_mesh" \in lor.objects)
    <3>1. submesh = lor
      BY <2>2 DEF submesh, NewIf
    <3>2. CASE "lor_mesh" \in lor.objects
      <4>1. "submesh_lor_xfer" \notin heap.objects
        BY <2>2, <3>2 DEF Consistent, OfSubmesh
      <4>2. <<"submesh_lor_xfer", "lor_mesh">> \notin heap.live \cup heap.dangling
        BY <4>1 DEF GoodHeap
      <4> QED BY <3>1, <4>2, NewIfParts DEF lor
    <3>3. CASE "lor_mesh" \notin lor.objects
      <4>1. lor = heap
        BY <3>3, NewIfParts DEF lor, NewIf
      <4> QED BY <3>1, <4>1 DEF Consistent
    <3> QED BY <3>2, <3>3
  <2> QED BY <2>1, <2>2
<1>12. ~HasSubmesh => final.objects \cap OfSubmesh = {}
  <2> SUFFICES ASSUME ~HasSubmesh PROVE final.objects \cap OfSubmesh = {}
    OBVIOUS
  <2>1. submesh = lor
    BY DEF submesh, NewIf
  <2>2. final.objects \subseteq heap.objects \cup {"lor_mesh"}
    BY <1>2, <1>4, <1>5, <2>1
  <2> QED BY <2>2 DEF Consistent, OfSubmesh
<1>13. Consistent(final, HasSubmesh, fields)
  BY <1>6, <1>7, <1>8, <1>9, <1>10, <1>11, <1>12 DEF Consistent, JacobianObjects
<1> QED BY <1>1, <1>13

LEMMA ViewTargets ==
  /\ Views = {"view_x", "view_response", "view_velocity", "view_reference", "view_thickness",
              "view_modulus", "view_gap", "view_pressure"}
  /\ \A r \in References : r[2] \notin Views
  /\ \A r \in References : r[2] \in {"coords", "response", "velocity", "reference_coords",
        "tribol_elem_thickness", "tribol_material_modulus", "pressure", "redecomp_gap"} => r[1] \in Views
<1>1. Views = {"view_x", "view_response", "view_velocity", "view_reference", "view_thickness",
               "view_modulus", "view_gap", "view_pressure"}
  BY DEF Views, Viewed
<1>2. ASSUME NEW r \in ViewReferences PROVE r[1] \in Views /\ r[2] \notin Views
  <2>1. PICK v \in Views : r = <<v, Viewed[v]>>
    BY DEF ViewReferences
  <2>2. Viewed[v] \notin Views
    BY <1>1 DEF Viewed
  <2> QED BY <2>1, <2>2
<1>3. ASSUME NEW r \in References, r \notin ViewReferences
      PROVE  /\ r[2] \in {"lor_mesh", "update_data", "submesh_lor_xfer", "submesh_update_data",
                          "jacobian_data"}
  BY <1>3 DEF References, RedecompReferences, FieldReferences, ElementReferences, LORReferences,
     SubmeshReferences, PressureReferences, JacobianReferences, FormulationReferences
<1>4. \A r \in References : r[2] \notin Views
  BY <1>1, <1>2, <1>3
<1>5. \A r \in References : r[2] \in {"coords", "response", "velocity", "reference_coords",
        "tribol_elem_thickness", "tribol_material_modulus", "pressure", "redecomp_gap"} => r[1] \in Views
  BY <1>2, <1>3
<1> QED BY <1>1, <1>4, <1>5

\* What refers to the LOR mesh or to the transfer to it.
LEMMA LORTargets ==
  ASSUME NEW r \in References, r[2] \in OfLORMesh
  PROVE  \/ r[1] \in {"update_data", "submesh_update_data", "jacobian_update_data"}
         \/ r = <<"submesh_lor_xfer", "lor_mesh">> \/ r \in ElementReferences
<1>1. CASE r \in ViewReferences
  BY <1>1 DEF ViewReferences, Views, Viewed, OfLORMesh
<1>2. CASE r \notin ViewReferences
  BY <1>2 DEF References, RedecompReferences, FieldReferences, LORReferences, SubmeshReferences,
     PressureReferences, JacobianReferences, FormulationReferences, OfLORMesh
<1> QED BY <1>1, <1>2

\* The decomposition, object by object: what exists afterwards, which references lead nowhere, and that the views of
\* the Tribol meshes lead to what was made by the same call.
LEMMA DecompositionObjects ==
  ASSUME Types, NEW rebuilt, Consistent(heap, HasSubmesh, mesh_data.fields),
         ~rebuilt => "update_data" \in heap.objects,
         scheme.kinematic = "element" =>
           "tribol_elem_thickness" \in UpdateMfemMeshData(rebuilt).objects
  PROVE  LET made == AfterDecomposition(rebuilt) IN
         /\ Consistent(made, HasSubmesh, mesh_data.fields)
         /\ InUse(made, HasSubmesh, mesh_data.fields)
         /\ rebuilt \/ JacobianWithMesh(heap) => JacobianWithMesh(made)
         /\ rebuilt \/ LORKept(heap) => LORKept(made)
         /\ heap.objects \cup UpdateMfemMeshData(rebuilt).objects \subseteq made.objects \cup Views
         /\ <<"formulation", "jacobian_data">> \in heap.live =>
              <<"formulation", "jacobian_data">> \in made.live
<1> DEFINE F == mesh_data.fields
           mesh == NewIf(rebuilt, heap, {"update_data"})
           fields == NewIf(TRUE, mesh, {"coords"} \cup F)
           response == NewIf(rebuilt, fields, {"response"})
           copies == rebuilt /\ "elem_thickness" \in heap.objects
           copied == NewIf(copies, response, {"tribol_elem_thickness", "tribol_material_modulus"})
           freed == Free(copied, Views)
           viewed == NewIf(TRUE, freed, ViewsOf(F))
           transfer == NewIf(RebuildsSubmesh(rebuilt), viewed, {"submesh_update_data"})
           sub == NewIf(HasSubmesh, transfer, {"pressure", "redecomp_gap"})
           withJacobian == HasSubmesh /\ rebuilt /\ "jacobian_data" \in sub.objects
           jacobian == NewIf(withJacobian, sub, {"jacobian_update_data"})
           rest == SubmeshViews \cup PenaltyViews
           final == NewIf(TRUE, jacobian, rest)
           R(r) == r = <<"formulation", "jacobian_data">>
<1>1. final = AfterDecomposition(rebuilt) /\ copied = UpdateMfemMeshData(rebuilt)
  BY DEF AfterDecomposition, UpdateJacobianXfer, UpdateMfemSubmeshData, RegisterMeshes,
     UpdateMfemMeshData, NewIf, final, rest, jacobian, withJacobian, sub, transfer, viewed, freed,
     copied, copies, response, fields, mesh
<1>2. F \in SUBSET {"velocity", "reference_coords"}
  BY DEF Types, TypeOK
<1>3. ViewsOf(F) = {"view_x", "view_response"}
                     \cup (IF "velocity" \in F THEN {"view_velocity"} ELSE {})
                     \cup (IF "reference_coords" \in F THEN {"view_reference"} ELSE {})
  BY <1>2, ViewsOfFields
<1>4. \A r \in heap.live : r \in References /\ r[1] \in heap.objects
  BY DEF Types, GoodHeap, Heaps
<1>5. ASSUME NEW r \in References
      PROVE  /\ r[2] \notin Views /\ r[2] # "jacobian_update_data"
             /\ r[2] \in {"coords", "response", "velocity", "reference_coords", "tribol_elem_thickness", "tribol_material_modulus",
                          "pressure", "redecomp_gap"} => r[1] \in Views
             /\ r[2] = "update_data" =>
                  r[1] \in {"coords", "response", "velocity", "reference_coords", "submesh_update_data"}
             /\ r[2] = "submesh_update_data" => r[1] \in {"pressure", "redecomp_gap"}
  <2>1. r[2] # "jacobian_update_data"
    <3>1. CASE r \in ViewReferences
      BY <3>1 DEF ViewReferences, Views, Viewed
    <3>2. CASE r \notin ViewReferences
      BY <3>2 DEF References, RedecompReferences, FieldReferences, ElementReferences, LORReferences,
         SubmeshReferences, PressureReferences, JacobianReferences, FormulationReferences
    <3> QED BY <3>1, <3>2
  <2>2. r[2] \notin Views
    BY ViewTargets
  <2>3. r[2] \in {"coords", "response", "velocity", "reference_coords", "tribol_elem_thickness", "tribol_material_modulus",
                  "pressure", "redecomp_gap"} => r[1] \in Views
    BY ViewTargets, Zenon
  <2>4. /\ r[2] = "update_data" =>
             r[1] \in {"coords", "response", "velocity", "reference_coords", "submesh_update_data"}
        /\ r[2] = "submesh_update_data" => r[1] \in {"pressure", "redecomp_gap"}
    BY ReferenceFacts
  <2> QED BY <2>1, <2>2, <2>3, <2>4
<1>6. GoodHeap(heap)
  BY DEF Types

\* One step after the other.
<1>11. /\ mesh.objects = heap.objects \cup (IF rebuilt THEN {"update_data"} ELSE {})
       /\ \A r \in heap.live : R(r) => r \in mesh.live
       /\ \A r \in mesh.dangling :
             /\ r \in heap.dangling \/ (rebuilt /\ r \in heap.live /\ r[2] = "update_data")
             /\ rebuilt => r[1] # "update_data"
       /\ GoodHeap(mesh)
  BY <1>6, NewIfParts, NewIfGood, ObjectSets
<1> HIDE DEF mesh
<1>12. /\ fields.objects = mesh.objects \cup {"coords"} \cup F
       /\ \A r \in mesh.live : R(r) => r \in fields.live
       /\ \A r \in fields.dangling :
             /\ r \in mesh.dangling \/ r[2] \in {"coords"} \cup F
             /\ r[1] \notin {"coords"} \cup F
       /\ GoodHeap(fields)
  <2> DEFINE A == {"coords"} \cup F
  <2>1. A \in SUBSET Objects /\ \A r \in mesh.live : R(r) => r[1] \notin A /\ r[2] \notin A
    BY <1>2, ObjectSets
  <2>2. fields = NewIf(TRUE, mesh, A) /\ mesh.objects \cup A = mesh.objects \cup {"coords"} \cup F
    BY DEF fields
  <2> HIDE DEF A, fields, R
  <2>3. GoodHeap(fields)
    BY <1>11, <2>1, <2>2, NewIfGood
  <2>4. /\ fields.objects = mesh.objects \cup A
        /\ \A r \in mesh.live : R(r) => r \in fields.live
        /\ \A r \in fields.dangling :
              /\ r \in mesh.dangling \/ r[2] \in A
              /\ r[1] \notin A
    BY <2>1, <2>2, NewIfParts
  <2> QED BY <2>2, <2>3, <2>4 DEF A
<1> HIDE DEF fields
<1>13. /\ response.objects = fields.objects \cup (IF rebuilt THEN {"response"} ELSE {})
       /\ \A r \in fields.live : R(r) => r \in response.live
       /\ \A r \in response.dangling :
             /\ r \in fields.dangling \/ r[2] = "response"
             /\ rebuilt => r[1] # "response"
       /\ GoodHeap(response)
  BY <1>12, NewIfParts, NewIfGood, ObjectSets
<1> HIDE DEF response, copies
<1>14. /\ copied.objects = response.objects \cup (IF copies THEN {"tribol_elem_thickness", "tribol_material_modulus"} ELSE {})
       /\ \A r \in response.live : R(r) => r \in copied.live
       /\ \A r \in copied.dangling : r \in response.dangling \/ r[2] \in {"tribol_elem_thickness", "tribol_material_modulus"}
       /\ GoodHeap(copied)
  BY <1>13, NewIfParts, NewIfGood, ObjectSets
<1> HIDE DEF copied
<1>15. /\ freed.objects = copied.objects \ Views
       /\ \A r \in copied.live : R(r) => r \in freed.live
       /\ \A r \in freed.dangling :
             /\ r \in copied.dangling \/ (r \in copied.live /\ r[2] \in Views)
             /\ r[1] \notin Views
       /\ GoodHeap(freed)
  BY <1>14, FreeParts, FreeGood, ViewTargets
<1> HIDE DEF freed
<1>16. /\ viewed.objects = freed.objects \cup ViewsOf(F)
       /\ \A r \in freed.live : R(r) => r \in viewed.live
       /\ \A r \in viewed.dangling : r \in freed.dangling \/ (r \in freed.live /\ r[2] \in Views)
       /\ \A v \in ViewsOf(F) : Viewed[v] \in viewed.objects => <<v, Viewed[v]>> \in viewed.live
       /\ GoodHeap(viewed)
  <2>1. ViewsOf(F) \in SUBSET Views
    BY <1>3, ViewTargets
  <2>2. \A v \in ViewsOf(F) : <<v, Viewed[v]>> \in References
    BY <2>1 DEF References, ViewReferences
  <2>3. viewed = New(freed, ViewsOf(F))
    BY DEF NewIf, viewed
  <2> HIDE DEF viewed
  <2>4. ViewsOf(F) \in SUBSET Objects
    BY <2>1, ObjectSets
  <2>5. GoodHeap(viewed)
    BY <1>15, <2>3, <2>4, NewGood
  <2>6. viewed.objects = freed.objects \cup ViewsOf(F)
    BY <2>3, NewParts
  <2>7. \A v \in ViewsOf(F) : Viewed[v] \in viewed.objects => <<v, Viewed[v]>> \in viewed.live
    BY <2>2, <2>3, <2>6, NewParts
  <2>8. \A r \in freed.live : R(r) => r \in viewed.live
    BY <2>1, <2>3, NewParts, ViewTargets
  <2>9. \A r \in viewed.dangling : r \in freed.dangling \/ (r \in freed.live /\ r[2] \in Views)
    BY <2>1, <2>3, NewParts
  <2> QED BY <2>5, <2>6, <2>7, <2>8, <2>9
<1> HIDE DEF viewed
<1>17. /\ transfer.objects = viewed.objects
                               \cup (IF RebuildsSubmesh(rebuilt) THEN {"submesh_update_data"} ELSE {})
       /\ \A r \in viewed.live : r[1] \in Views /\ r[2] # "submesh_update_data" => r \in transfer.live
       /\ \A r \in viewed.live : R(r) => r \in transfer.live
       /\ \A r \in transfer.dangling :
             /\ r \in viewed.dangling \/ r[2] = "submesh_update_data"
             /\ RebuildsSubmesh(rebuilt) => r[1] # "submesh_update_data"
       /\ GoodHeap(transfer)
  BY <1>16, NewIfParts, NewIfGood, ObjectSets, ViewTargets
<1> HIDE DEF transfer
<1>18. /\ sub.objects = transfer.objects \cup (IF HasSubmesh THEN {"pressure", "redecomp_gap"} ELSE {})
       /\ \A r \in transfer.live :
             r[1] \in Views /\ r[2] \notin {"pressure", "redecomp_gap"} => r \in sub.live
       /\ \A r \in transfer.live : R(r) => r \in sub.live
       /\ \A r \in sub.dangling :
             /\ r \in transfer.dangling \/ (r \in transfer.live /\ r[2] \in {"pressure", "redecomp_gap"})
             /\ HasSubmesh => r[1] \notin {"pressure", "redecomp_gap"}
       /\ GoodHeap(sub)
  BY <1>17, NewIfParts, NewIfGood, ObjectSets, ViewTargets
<1> HIDE DEF sub, withJacobian
<1>19. /\ jacobian.objects = sub.objects \cup (IF withJacobian THEN {"jacobian_update_data"} ELSE {})
       /\ \A r \in sub.live : r[1] \in Views /\ r[2] # "jacobian_update_data" => r \in jacobian.live
       /\ \A r \in sub.live : R(r) => r \in jacobian.live
       /\ \A r \in jacobian.dangling :
             /\ r \in sub.dangling \/ (r \in sub.live /\ r[2] = "jacobian_update_data")
             /\ withJacobian => r[1] # "jacobian_update_data"
       /\ GoodHeap(jacobian)
  BY <1>18, NewIfParts, NewIfGood, ObjectSets, ViewTargets
<1> HIDE DEF jacobian
<1>20. rest \in SUBSET Views
  BY ViewTargets DEF SubmeshViews, PenaltyViews
<1> HIDE DEF rest
<1>21. /\ final.objects = jacobian.objects \cup rest
       /\ \A r \in jacobian.live : r[1] \notin rest /\ r[2] \notin Views => r \in final.live
       /\ \A r \in final.dangling : r \in jacobian.dangling \/ (r \in jacobian.live /\ r[2] \in Views)
       /\ \A v \in rest : Viewed[v] \in final.objects => <<v, Viewed[v]>> \in final.live
       /\ GoodHeap(final)
  <2>1. \A v \in rest : <<v, Viewed[v]>> \in References
    BY <1>20 DEF References, ViewReferences
  <2>2. final = New(jacobian, rest)
    BY DEF NewIf, final
  <2> HIDE DEF final
  <2>3. rest \in SUBSET Objects
    BY <1>20, ObjectSets
  <2>4. GoodHeap(final)
    BY <1>19, <2>2, <2>3, NewGood
  <2>5. final.objects = jacobian.objects \cup rest
    BY <2>2, NewParts
  <2>6. \A v \in rest : Viewed[v] \in final.objects => <<v, Viewed[v]>> \in final.live
    BY <2>1, <2>2, <2>5, NewParts
  <2>7. \A r \in jacobian.live : r[1] \notin rest /\ r[2] \notin Views => r \in final.live
    BY <1>20, <2>2, NewParts
  <2>8. \A r \in final.dangling : r \in jacobian.dangling \/ (r \in jacobian.live /\ r[2] \in Views)
    BY <1>20, <2>2, NewParts
  <2> QED BY <2>4, <2>5, <2>6, <2>7, <2>8
<1> HIDE DEF final

\* The objects.
<1>31. /\ {"update_data", "coords", "response"} \cup F \subseteq copied.objects
       /\ copied.objects \cap {"velocity", "reference_coords"} \subseteq F
       /\ "tribol_elem_thickness" \in copied.objects => "tribol_material_modulus" \in copied.objects
       /\ heap.objects \subseteq copied.objects
       /\ ~HasSubmesh => copied.objects \cap OfSubmesh = {}
       /\ "jacobian_data" \in copied.objects <=> "jacobian_data" \in heap.objects
       /\ "jacobian_update_data" \in copied.objects => "jacobian_data" \in heap.objects
  <2>1. rebuilt \/ {"update_data", "response"} \subseteq heap.objects
    BY DEF Consistent
  <2>2. {"update_data", "coords", "response"} \cup F \subseteq copied.objects
    BY <2>1, <1>11, <1>12, <1>13, <1>14
  <2>3. copied.objects \subseteq heap.objects \cup {"update_data", "coords", "response", "tribol_elem_thickness", "tribol_material_modulus"} \cup F
    BY <1>11, <1>12, <1>13, <1>14
  <2>4. heap.objects \subseteq copied.objects
    BY <1>11, <1>12, <1>13, <1>14
  <2>5. "tribol_elem_thickness" \in copied.objects => "tribol_material_modulus" \in copied.objects
    BY <1>2, <1>11, <1>12, <1>13, <1>14 DEF Consistent
  <2> QED BY <1>2, <2>2, <2>3, <2>4, <2>5 DEF Consistent, OfSubmesh
<1>32. /\ copied.objects \subseteq final.objects \cup Views
       /\ final.objects \subseteq copied.objects \cup Views \cup
            {"submesh_update_data", "pressure", "redecomp_gap", "jacobian_update_data"}
       /\ final.objects \cap Views = ViewsOf(F) \cup rest
       /\ "jacobian_update_data" \in final.objects => "jacobian_update_data" \in copied.objects \/ withJacobian
       /\ withJacobian => "jacobian_data" \in final.objects
  <2>1. {"submesh_update_data", "pressure", "redecomp_gap", "jacobian_update_data"} \cap Views = {}
    BY ViewTargets
  <2>2. ViewsOf(F) \subseteq Views
    BY <1>3, ViewTargets
  <2>3. withJacobian => "jacobian_data" \in final.objects
    BY <1>19, <1>21 DEF withJacobian
  <2> HIDE DEF Views
  <2> QED BY <1>15, <1>16, <1>17, <1>18, <1>19, <1>20, <1>21, <2>1, <2>2, <2>3
<1>33. /\ HasSubmesh => {"submesh_update_data", "pressure", "redecomp_gap"} \subseteq final.objects
       /\ withJacobian => "jacobian_update_data" \in final.objects
       /\ ~HasSubmesh => final.objects \cap OfSubmesh = {}
       /\ "jacobian_update_data" \in final.objects => "jacobian_data" \in final.objects
       /\ "jacobian_data" \in final.objects <=> "jacobian_data" \in heap.objects
       /\ "tribol_elem_thickness" \in final.objects => "tribol_material_modulus" \in final.objects
       /\ final.objects \cap {"velocity", "reference_coords"} \subseteq F
  <2>1. /\ "submesh_update_data" \in heap.objects => "submesh_update_data" \in viewed.objects
        /\ "jacobian_data" \in final.objects <=> "jacobian_data" \in copied.objects
        /\ "tribol_elem_thickness" \in final.objects <=> "tribol_elem_thickness" \in copied.objects
        /\ "tribol_material_modulus" \in final.objects <=> "tribol_material_modulus" \in copied.objects
    BY <1>31, <1>32, <1>15, <1>16, ViewTargets
  <2>2. HasSubmesh => {"submesh_update_data", "pressure", "redecomp_gap"} \subseteq final.objects
    BY <2>1, <1>17, <1>18, <1>19, <1>21 DEF RebuildsSubmesh
  <2>3. withJacobian => "jacobian_update_data" \in final.objects
    BY <1>19, <1>21
  <2>4. ~HasSubmesh => final.objects \cap OfSubmesh = {}
    <3> SUFFICES ASSUME ~HasSubmesh PROVE final.objects \cap OfSubmesh = {}
      OBVIOUS
    <3>1. ~RebuildsSubmesh(rebuilt) /\ ~withJacobian
      BY DEF RebuildsSubmesh, withJacobian
    <3>2. final.objects \subseteq copied.objects \cup Views
      BY <3>1, <1>3, <1>15, <1>16, <1>17, <1>18, <1>19, <1>20, <1>21, ViewTargets
    <3> QED BY <3>2, <1>31, ViewTargets DEF OfSubmesh
  <2>5. final.objects \cap {"velocity", "reference_coords"} \subseteq F
    BY <1>31, <1>32, ViewTargets
  <2>6. "jacobian_update_data" \in final.objects => "jacobian_data" \in final.objects
    BY <1>31, <1>32, <2>1
  <2> QED BY <1>31, <2>1, <2>2, <2>3, <2>4, <2>5, <2>6

\* The references that lead nowhere.
<1>41. \A r \in freed.dangling : /\ r \in heap.dangling \/ (rebuilt /\ r[2] = "update_data")
                                 /\ r \in References /\ r[1] \notin Views
                                 /\ rebuilt => r[1] # "update_data"
  <2> SUFFICES ASSUME NEW r \in freed.dangling
               PROVE  /\ r \in heap.dangling \/ (rebuilt /\ r[2] = "update_data")
                      /\ r \in References /\ r[1] \notin Views
                      /\ rebuilt => r[1] # "update_data"
    OBVIOUS
  <2>1. r \in References
    BY <1>15 DEF GoodHeap, Heaps
  <2>2. r[1] \notin Views /\ r[2] \notin Views
    BY <1>5, <1>15, <2>1
  <2>3. r \in copied.dangling
    BY <1>15, <2>2
  <2>4. r[2] \notin {"coords", "response", "velocity", "reference_coords", "tribol_elem_thickness", "tribol_material_modulus"}
    BY <1>5, <2>1, <2>2
  <2>5. r \in response.dangling
    BY <1>14, <2>3, <2>4
  <2>6. r \in fields.dangling
    BY <1>13, <2>4, <2>5
  <2>7. r \in mesh.dangling
    BY <1>2, <1>12, <2>4, <2>6
  <2> QED BY <1>11, <2>1, <2>2, <2>7
<1>42. \A r \in freed.dangling : r[2] = "update_data" => rebuilt /\ r[1] = "submesh_update_data"
  <2> SUFFICES ASSUME NEW r \in freed.dangling, r[2] = "update_data"
               PROVE  rebuilt /\ r[1] = "submesh_update_data"
    OBVIOUS
  <2>1. r \in References /\ r[1] \notin Views /\ rebuilt
    BY <1>41 DEF Consistent
  <2>2. r \in copied.dangling /\ r \in response.dangling /\ r \in fields.dangling
    BY <1>5, <1>13, <1>14, <1>15, <2>1
  <2>3. r[1] \notin {"coords", "response"} \cup F
    BY <1>12, <1>13, <2>1, <2>2
  <2>4. r[1] \in {"coords", "response", "velocity", "reference_coords", "submesh_update_data"}
    BY ReferenceFacts, <2>1
  <2>5. r[1] \in fields.objects
    BY <1>12, <2>2 DEF GoodHeap
  <2>6. r[1] \in {"velocity", "reference_coords"} => r[1] \in F
    BY <2>5, <1>11, <1>12 DEF Consistent
  <2> QED BY <2>1, <2>3, <2>4, <2>6
<1>43. \A r \in final.dangling :
         /\ r[2] \notin {"update_data", "submesh_update_data", "coords"}
         /\ r[1] = "jacobian_update_data" => r \in heap.dangling /\ ~withJacobian
         /\ r[2] \in OfLORMesh => r \in heap.dangling
         /\ rebuilt => r[1] \notin {"update_data", "submesh_update_data"}
  <2> SUFFICES ASSUME NEW r \in final.dangling
               PROVE  /\ r[2] \notin {"update_data", "submesh_update_data", "coords"}
                      /\ r[1] = "jacobian_update_data" => r \in heap.dangling /\ ~withJacobian
                      /\ r[2] \in OfLORMesh => r \in heap.dangling
                      /\ rebuilt => r[1] \notin {"update_data", "submesh_update_data"}
    OBVIOUS
  <2>1. r \in References
    BY <1>21 DEF GoodHeap, Heaps
  <2>2. r[2] \notin Views /\ r[2] # "jacobian_update_data"
    BY <1>5, <2>1
  <2>3. r \in jacobian.dangling
    BY <1>21, <2>2
  <2>4. r \in sub.dangling /\ (withJacobian => r[1] # "jacobian_update_data")
    BY <1>19, <2>2, <2>3
  <2>5. r[2] \in {"pressure", "redecomp_gap"} \/ r \in transfer.dangling
    BY <1>18, <2>4
  <2>6. CASE r \notin transfer.dangling
    <3>1. r[1] \in Views
      BY <1>5, <2>1, <2>5, <2>6
    <3> QED BY <2>5, <2>6, <3>1, ViewTargets DEF OfLORMesh
  <2>7. CASE r[2] = "submesh_update_data"
    <3>1. r[1] \in {"pressure", "redecomp_gap"} /\ r[1] \in sub.objects
      BY <1>5, <2>1, <2>4, <2>7, <1>18 DEF GoodHeap
    <3>2. ~HasSubmesh
      BY <3>1, <1>18, <2>4
    <3>3. r[1] \in final.objects
      BY <3>1, <1>19, <1>21
    <3> QED BY <3>1, <3>2, <3>3, <1>33 DEF OfSubmesh
  <2>8. CASE r \in transfer.dangling /\ r[2] # "submesh_update_data"
    <3>1. r \in viewed.dangling
      BY <1>17, <2>8
    <3>2. r \in freed.dangling
      BY <1>16, <2>2, <3>1
    <3>3. r[2] # "coords"
      BY <1>5, <1>41, <3>2
    <3>4. r[2] # "update_data"
      <4> SUFFICES ASSUME r[2] = "update_data" PROVE FALSE
        OBVIOUS
      <4>1. rebuilt /\ r[1] = "submesh_update_data"
        BY <1>42, <3>2
      <4>2. r[1] \in transfer.objects
        BY <1>17, <2>8 DEF GoodHeap
      <4>3. r[1] \in final.objects
        BY <4>2, <1>18, <1>19, <1>21
      <4>4. HasSubmesh
        BY <4>1, <4>3, <1>33 DEF OfSubmesh
      <4> QED BY <4>1, <4>4, <1>17, <2>8 DEF RebuildsSubmesh
    <3>5. rebuilt => r[1] # "submesh_update_data"
      <4> SUFFICES ASSUME rebuilt, r[1] = "submesh_update_data" PROVE FALSE
        OBVIOUS
      <4>1. r[1] \in final.objects
        BY <1>21 DEF GoodHeap
      <4>2. HasSubmesh
        BY <4>1, <1>33 DEF OfSubmesh
      <4> QED BY <4>2, <1>17, <2>8 DEF RebuildsSubmesh
    <3> QED BY <1>41, <2>4, <2>8, <3>2, <3>3, <3>4, <3>5 DEF OfLORMesh
  <2> QED BY <2>6, <2>7, <2>8

\* The views.
<1>51. ASSUME NEW v \in Views, v \in final.objects PROVE <<v, Viewed[v]>> \in final.live
  <2>1. v \in ViewsOf(F) \cup rest
    BY <1>32, <1>51
  <2>2. CASE v \in rest
    <3>1. Viewed[v] \in final.objects
      <4>1. CASE v \in SubmeshViews
        BY <4>1, <1>33 DEF SubmeshViews, Viewed
      <4>2. CASE v \in PenaltyViews
        <5>1. {"tribol_elem_thickness", "tribol_material_modulus"} \subseteq copied.objects
          BY <4>2, <1>1, <1>31 DEF PenaltyViews
        <5>2. {"tribol_elem_thickness", "tribol_material_modulus"} \subseteq final.objects
          BY <5>1, <1>32, ViewTargets
        <5> QED BY <4>2, <5>2 DEF PenaltyViews, Viewed
      <4> QED BY <2>2, <4>1, <4>2 DEF rest
    <3> QED BY <2>2, <3>1, <1>21
  <2>3. CASE v \notin rest
    <3>1. v \in ViewsOf(F)
      BY <2>1, <2>3
    <3>2. /\ Viewed[v] \in {"coords", "response"} \cup F
      BY <1>3, <3>1 DEF Viewed
    <3>3. Viewed[v] \in viewed.objects
      BY <1>2, <1>15, <1>16, <1>31, <3>2, ViewTargets
    <3>4. <<v, Viewed[v]>> \in viewed.live
      BY <1>16, <3>1, <3>3
    <3>5. Viewed[v] \notin {"submesh_update_data", "pressure", "redecomp_gap", "jacobian_update_data"}
      BY <1>2, <3>2
    <3>6. Viewed[v] \notin Views
      BY <1>2, <3>2, ViewTargets
    <3> QED BY <1>17, <1>18, <1>19, <1>21, <2>3, <3>4, <3>5, <3>6
  <2> QED BY <2>2, <2>3

\* Together.
<1>61. Consistent(final, HasSubmesh, F)
  <2>1. "response" \in final.objects
    BY <1>31, <1>32, ViewTargets
  <2>2. <<"submesh_lor_xfer", "lor_mesh">> \notin final.dangling
    BY <1>43 DEF Consistent, OfLORMesh
  <2> QED BY <2>1, <2>2, <1>33, <1>43 DEF Consistent
<1>62. InUse(final, HasSubmesh, F)
  <2>1. "update_data" \in final.objects
    BY <1>31, <1>32, ViewTargets
  <2>2. ViewsOf(F) \cup (IF HasSubmesh THEN {"view_gap", "view_pressure"} ELSE {}) \subseteq final.objects
    BY <1>32 DEF rest, SubmeshViews
  <2> QED BY <2>1, <2>2, <1>33, <1>43, <1>51 DEF InUse
<1>63. rebuilt \/ JacobianWithMesh(heap) => JacobianWithMesh(final)
  <2> SUFFICES ASSUME rebuilt \/ JacobianWithMesh(heap), "jacobian_data" \in heap.objects
               PROVE  /\ "jacobian_update_data" \in final.objects
                      /\ \A r \in final.dangling : r[1] # "jacobian_update_data"
    BY <1>33 DEF JacobianWithMesh
  <2>1. CASE rebuilt
    <3>1. HasSubmesh
      BY DEF Consistent, OfSubmesh
    <3>2. "jacobian_data" \in sub.objects
      BY <1>15, <1>16, <1>17, <1>18, <1>31, ViewTargets
    <3>3. withJacobian
      BY <2>1, <3>1, <3>2 DEF withJacobian
    <3> QED BY <3>3, <1>33, <1>43
  <2>2. CASE ~rebuilt
    <3>1. /\ "jacobian_update_data" \in heap.objects
          /\ \A r \in heap.dangling : r[1] # "jacobian_update_data"
      BY <2>2 DEF JacobianWithMesh
    <3>2. "jacobian_update_data" \in final.objects
      BY <3>1, <1>31, <1>32, ViewTargets
    <3> QED BY <3>1, <3>2, <1>43
  <2> QED BY <2>1, <2>2
<1>64. heap.objects \cup copied.objects \subseteq final.objects \cup Views
  BY <1>31, <1>32
<1>65. <<"formulation", "jacobian_data">> \in heap.live =>
         <<"formulation", "jacobian_data">> \in final.live
  <2>1. "formulation" \notin rest /\ "jacobian_data" \notin Views
    BY <1>20, ViewTargets
  <2> QED BY <2>1, <1>11, <1>12, <1>13, <1>14, <1>15, <1>16, <1>17, <1>18, <1>19, <1>21
<1>66. <<"submesh_lor_xfer", "lor_mesh">> \notin final.dangling
  BY <1>43 DEF Consistent, OfLORMesh
<1>67. rebuilt \/ LORKept(heap) => LORKept(final)
  <2> SUFFICES ASSUME rebuilt \/ LORKept(heap), NEW r \in final.dangling, r[2] \in OfLORMesh
               PROVE  r \in ElementReferences
    BY DEF LORKept
  <2>1. r \in heap.dangling
    BY <1>43
  <2>2. CASE rebuilt
    <3>1. r[1] # "jacobian_update_data"
      <4>1. "update_data" \in final.objects
        BY <1>62 DEF InUse
      <4>2. r[1] \in final.objects
        BY <1>21 DEF GoodHeap
      <4> QED BY <1>63, <2>2, <1>33, <4>1, <4>2 DEF JacobianWithMesh
    <3>2. r[1] \notin {"update_data", "submesh_update_data"}
      BY <1>43, <2>2
    <3>3. r # <<"submesh_lor_xfer", "lor_mesh">>
      BY <1>66
    <3> QED BY <3>1, <3>2, <3>3, <2>1, LORTargets DEF Types, GoodHeap, Heaps
  <2>3. CASE ~rebuilt
    BY <2>1, <2>3 DEF LORKept
  <2> QED BY <2>2, <2>3
<1> QED BY <1>1, <1>61, <1>62, <1>63, <1>64, <1>65, <1>67

-----------------------------------------------------------------------------
(***************************************************************************)
(* Every call keeps the invariant.                                         *)
(***************************************************************************)
Rest == HeapInv /\ MotionInv /\ OptionsInv

LEMMA InitRest == Init => Rest
<1> SUFFICES ASSUME Init PROVE Rest
  OBVIOUS
<1>1. HeapInv
  BY DEF Init, HeapInv, EmptyHeap, Consistent, JacobianWithMesh, LORKept
<1>2. MotionInv
  BY DEF Init, MotionInv, GapOfCurrentCoordinates, EmptyHeap
<1>3. OptionsInv
  BY DEF Init, OptionsInv, FormulationCurrent, PenaltyDataInPlace, ThicknessCopied, Registered, IsEnergy
<1> QED BY <1>1, <1>2, <1>3 DEF Rest

\* A formulation made anew is made from what is in force, on the Jacobian data there is.
LEMMA CreatedCurrent ==
  ASSUME NEW h, updateContactFormulation(h), scheme'.method = scheme.method,
         IsEnergy => "jacobian_data" \in h.objects
  PROVE  FormulationCurrent'
<1> SUFFICES ASSUME IsEnergy' PROVE FormulationCurrent'
  BY DEF FormulationCurrent
<1>1. IsEnergy
  BY DEF IsEnergy
<1>2. heap' = New(h, {"formulation"}) /\ formulation' = Created(scheme', mesh_data')
  BY <1>1 DEF updateContactFormulation, NewIf
<1>3. <<"formulation", "jacobian_data">> \in References
  BY DEF References, FormulationReferences
<1>4. <<"formulation", "jacobian_data">> \in heap'.live
  BY <1>1, <1>2, <1>3, NewParts
<1> QED BY <1>2, <1>4 DEF FormulationCurrent, Stale, Created, EffectiveProximity

LEMMA CreatedHeap ==
  ASSUME NEW h, GoodHeap(h), updateContactFormulation(h), NEW submesh, NEW fields
  PROVE  /\ Consistent(h, submesh, fields) => Consistent(heap', submesh, fields)
         /\ InUse(h, submesh, fields) => InUse(heap', submesh, fields)
         /\ JacobianWithMesh(h) => JacobianWithMesh(heap')
         /\ LORKept(h) => LORKept(heap')
         /\ h.objects \subseteq heap'.objects
         /\ "update_data" \in heap'.objects => "update_data" \in h.objects
<1>1. {"formulation"} \in SUBSET Apart
  BY DEF Apart
<1>2. heap' = h \/ heap' = New(h, {"formulation"})
  BY DEF updateContactFormulation, NewIf
<1>3. CASE heap' = h
  BY <1>3
<1>4. CASE heap' = New(h, {"formulation"})
  <2>1. /\ Consistent(h, submesh, fields) => Consistent(New(h, {"formulation"}), submesh, fields)
        /\ InUse(h, submesh, fields) => InUse(New(h, {"formulation"}), submesh, fields)
        /\ JacobianWithMesh(h) => JacobianWithMesh(New(h, {"formulation"}))
        /\ LORKept(h) => LORKept(New(h, {"formulation"}))
    BY <1>1, ApartNew
  <2>2. New(h, {"formulation"}).objects = h.objects \cup {"formulation"}
    BY NewParts
  <2> QED BY <1>4, <2>1, <2>2
<1> QED BY <1>2, <1>3, <1>4

\* The Jacobian data of an ENERGY_MORTAR scheme are always there.
LEMMA EnergyHasJacobian ==
  ASSUME Types, OptionsInv, Registered, IsEnergy
  PROVE  "jacobian_data" \in heap.objects /\ "formulation" \in heap.objects
<1>1. <<"formulation", "jacobian_data">> \in heap.live
  BY DEF OptionsInv, FormulationCurrent
<1> QED BY <1>1 DEF Types, GoodHeap

LEMMA RestRegister ==
  ASSUME Types, Rest, NEW s \in Schemes, registerMfemCouplingScheme(s) PROVE Rest'
<1> DEFINE lor == NewIf(s.order > 1, heap, {"lor_mesh"})
           submesh == NewIf(s.order > 1 /\ s.method # "COMMON_PLANE", lor, {"submesh_lor_xfer"})
           made == IF s.method = "ENERGY_MORTAR"
                   THEN New(submesh, {"jacobian_data", "formulation"}) ELSE submesh
<1>1. heap = EmptyHeap /\ since = {} /\ ~fresh
  BY DEF Rest, HeapInv, registerMfemCouplingScheme, InUse, EmptyHeap
<1>2. heap' = made /\ since' = {} /\ ~fresh' /\ status' = "registered"
  BY <1>1 DEF registerMfemCouplingScheme, KeepsFormulation
<1>3. lor.objects \subseteq {"lor_mesh"} /\ lor.dangling = {} /\ \A r \in lor.live : r[2] = "lor_mesh"
  BY <1>1, NewParts DEF NewIf, EmptyHeap
<1> HIDE DEF lor
<1>4. /\ submesh.objects \subseteq {"lor_mesh", "submesh_lor_xfer"} /\ submesh.dangling = {}
      /\ s.method = "COMMON_PLANE" => submesh.objects \subseteq {"lor_mesh"}
  BY <1>3, NewParts DEF NewIf
<1>5. s.method = "ENERGY_MORTAR" =>
        /\ heap' = New(submesh, {"jacobian_data", "formulation"})
        /\ formulation' = Created(scheme', mesh_data')
  BY <1>2 DEF registerMfemCouplingScheme
<1> HIDE DEF submesh
<1>6. /\ heap'.objects \subseteq {"lor_mesh", "submesh_lor_xfer", "jacobian_data", "formulation"}
      /\ \A r \in heap'.dangling : r[2] \in {"jacobian_data", "formulation"}
      /\ s.method # "ENERGY_MORTAR" => "jacobian_data" \notin heap'.objects
      /\ s.method = "COMMON_PLANE" => "submesh_lor_xfer" \notin heap'.objects
  BY <1>2, <1>4, NewParts
<1>7. scheme'.method = s.method /\ scheme'.kinematic = scheme.kinematic /\ scheme'.rate = scheme.rate
      /\ mesh_data'.penalty = mesh_data.penalty /\ mesh_data'.scalars = mesh_data.scalars
      /\ mesh_data'.made_at = mesh_data.made_at /\ mesh_data'.x_last = mesh_data.x_last
      /\ mesh_data'.fields = mesh_data.fields
  BY TypesNow DEF registerMfemCouplingScheme, SchemeType, MeshDataType
<1>8. Consistent(heap', HasSubmesh', mesh_data'.fields)
  BY <1>6, <1>7 DEF Consistent, HasSubmesh, OfSubmesh
<1>9. HeapInv'
  BY <1>2, <1>6, <1>8 DEF HeapInv, JacobianWithMesh, LORKept, OfLORMesh
<1>10. MotionInv'
  BY <1>2, <1>6, <1>7 DEF Rest, MotionInv, GapOfCurrentCoordinates
<1>11. FormulationCurrent'
  <2> SUFFICES ASSUME IsEnergy' PROVE FormulationCurrent'
    BY DEF FormulationCurrent
  <2>1. s.method = "ENERGY_MORTAR"
    BY <1>7 DEF IsEnergy
  <2>2. <<"formulation", "jacobian_data">> \in References
    BY DEF References, FormulationReferences
  <2>3. <<"formulation", "jacobian_data">> \in heap'.live
    BY <1>5, <2>1, <2>2, NewParts
  <2>4. formulation' = Created(scheme', mesh_data')
    BY <1>5, <2>1
  <2> QED BY <2>3, <2>4 DEF FormulationCurrent, Stale, Created, EffectiveProximity
<1>12. PenaltyDataInPlace'
  BY <1>1, <1>7 DEF Rest, OptionsInv, PenaltyDataInPlace, EmptyHeap
<1>13. ThicknessCopied'
  BY <1>6 DEF ThicknessCopied
<1> QED BY <1>2, <1>9, <1>10, <1>11, <1>12, <1>13 DEF Rest, OptionsInv

\* What a new factor leaves of the objects.
LEMMA LORFactorObjects ==
  ASSUME NEW factor
  PROVE  /\ heap.objects \subseteq
              AfterLORFactor(factor).objects \cup {"jacobian_update_data", "submesh_update_data"}
         /\ "update_data" \in AfterLORFactor(factor).objects => "update_data" \in heap.objects
<1> DEFINE lor == NewIf(Refines(factor), heap, {"lor_mesh"})
           submesh == NewIf(HasSubmesh /\ "lor_mesh" \in lor.objects, lor, {"submesh_lor_xfer"})
           reset == Free(submesh, {"submesh_update_data"})
           final == IF "jacobian_data" \in heap.objects
                    THEN New(Free(reset, JacobianObjects), {"jacobian_data"}) ELSE reset
<1>1. final = AfterLORFactor(factor)
  BY DEF AfterLORFactor, final, reset, submesh, lor
<1>2. lor.objects \subseteq heap.objects \cup {"lor_mesh"} /\ heap.objects \subseteq lor.objects
  BY NewParts DEF NewIf
<1> HIDE DEF lor
<1>3. submesh.objects \subseteq lor.objects \cup {"submesh_lor_xfer"} /\ lor.objects \subseteq submesh.objects
  BY NewParts DEF NewIf
<1> HIDE DEF submesh
<1>4. reset.objects = submesh.objects \ {"submesh_update_data"}
  BY FreeParts
<1> HIDE DEF reset
<1>5. final.objects = IF "jacobian_data" \in heap.objects
                      THEN (reset.objects \ JacobianObjects) \cup {"jacobian_data"} ELSE reset.objects
  <2> DEFINE freed == Free(reset, JacobianObjects)
  <2>1. freed.objects = reset.objects \ JacobianObjects
    BY FreeParts
  <2> HIDE DEF freed
  <2>2. New(freed, {"jacobian_data"}).objects = freed.objects \cup {"jacobian_data"}
    BY NewParts
  <2>3. final = IF "jacobian_data" \in heap.objects THEN New(freed, {"jacobian_data"}) ELSE reset
    BY DEF final, freed
  <2> HIDE DEF final
  <2> QED BY <2>1, <2>2, <2>3
<1> HIDE DEF final
<1> QED BY <1>1, <1>2, <1>3, <1>4, <1>5 DEF JacobianObjects

LEMMA RestLORFactor ==
  ASSUME Types, Rest, NEW factor \in Factors, setMfemLORFactor(factor) PROVE Rest'
<1> DEFINE after == AfterLORFactor(factor)
           md == mesh_data
<1>1. /\ md'.fields = md.fields /\ md'.penalty = md.penalty /\ md'.scalars = md.scalars
      /\ md'.made_at = md.made_at /\ md'.x_last = md.x_last /\ md'.trigger = md.trigger
      /\ md'.ghost = md.ghost
  BY TypesNow DEF setMfemLORFactor, LORFactorSet, MeshDataType
<1>2. /\ scheme' = scheme /\ gap' = gap /\ ~fresh' /\ "setMfemLORFactor" \in since' /\ status' = status
      /\ since' = since \cup {"setMfemLORFactor"} /\ broken' = broken /\ Registered
      /\ updateContactFormulation(after)
  BY DEF setMfemLORFactor, LORFactorSet
<1>3. GoodHeap(after) /\ Consistent(after, HasSubmesh, md.fields)
  BY LORFactorGood, LORFactorConsistent, TypesNow DEF Rest, HeapInv
<1>4. /\ heap.objects \subseteq after.objects \cup {"jacobian_update_data", "submesh_update_data"}
      /\ "update_data" \in after.objects => "update_data" \in heap.objects
  BY LORFactorObjects
<1> HIDE DEF after
<1>5. /\ after.objects \subseteq heap'.objects
      /\ "update_data" \in heap'.objects => "update_data" \in after.objects
      /\ Consistent(heap', HasSubmesh, md.fields)
  BY <1>2, <1>3, CreatedHeap
<1>6. HeapInv'
  BY <1>1, <1>2, <1>5 DEF HeapInv, HasSubmesh, Registered, ReplacesJacobian
<1>7. MotionInv'
  BY <1>1, <1>2, <1>4, <1>5 DEF Rest, MotionInv, GapOfCurrentCoordinates, TriggerUnchanged
<1>8. FormulationCurrent'
  BY <1>2, <1>4, EnergyHasJacobian, CreatedCurrent DEF Rest
<1>9. PenaltyDataInPlace'
  BY <1>1, <1>2, <1>4, <1>5 DEF Rest, OptionsInv, PenaltyDataInPlace
<1>10. ThicknessCopied'
  BY <1>1, <1>2, <1>4, <1>5 DEF Rest, OptionsInv, ThicknessCopied
<1> QED BY <1>2, <1>6, <1>7, <1>8, <1>9, <1>10 DEF Rest, OptionsInv, IsEnergy

\* An option of the scheme other than the penalty.
LEMMA RestOption ==
  ASSUME Types, Rest, Registered, scheme'.method = scheme.method,
         scheme'.kinematic = scheme.kinematic, scheme'.rate = scheme.rate,
         updateContactFormulation(heap),
         UNCHANGED <<x, mesh_data, gap, fresh, since, broken, status>>
  PROVE  Rest'
<1>1. /\ Consistent(heap', HasSubmesh, mesh_data.fields)
      /\ InUse(heap, HasSubmesh, mesh_data.fields) => InUse(heap', HasSubmesh, mesh_data.fields)
      /\ JacobianWithMesh(heap) => JacobianWithMesh(heap')
      /\ LORKept(heap) => LORKept(heap')
      /\ heap.objects \subseteq heap'.objects
      /\ "update_data" \in heap'.objects => "update_data" \in heap.objects
  BY CreatedHeap, TypesNow DEF Rest, HeapInv
<1>2. HasSubmesh' = HasSubmesh /\ IsEnergy' = IsEnergy
  BY DEF HasSubmesh, IsEnergy
<1>3. HeapInv'
  BY <1>1, <1>2 DEF Rest, HeapInv, Registered
<1>4. MotionInv'
  BY <1>1 DEF Rest, MotionInv, GapOfCurrentCoordinates, TriggerUnchanged
<1>5. FormulationCurrent'
  BY EnergyHasJacobian, CreatedCurrent DEF Rest
<1>6. PenaltyDataInPlace'
  BY <1>1 DEF Rest, OptionsInv, PenaltyDataInPlace
<1>7. ThicknessCopied'
  BY <1>1 DEF Rest, OptionsInv, ThicknessCopied
<1> QED BY <1>2, <1>3, <1>4, <1>5, <1>6, <1>7 DEF Rest, OptionsInv

LEMMA RestProximity ==
  ASSUME Types, Rest, NEW p \in Proximities, setBinningProximityScale(p) PROVE Rest'
<1>1. /\ scheme'.method = scheme.method /\ scheme'.kinematic = scheme.kinematic
      /\ scheme'.rate = scheme.rate
  BY TypesNow DEF setBinningProximityScale, SchemeType
<1>2. /\ mesh_data' = mesh_data /\ gap' = gap /\ fresh' = fresh /\ since' = since /\ broken' = broken
      /\ x' = x /\ status' = status /\ Registered /\ updateContactFormulation(heap)
  BY DEF setBinningProximityScale
<1> QED BY <1>1, <1>2, RestOption

LEMMA RestLocation ==
  ASSUME Types, Rest, NEW l \in Locations, setEnforcementLocation(l) PROVE Rest'
<1>1. /\ scheme'.method = scheme.method /\ scheme'.kinematic = scheme.kinematic
      /\ scheme'.rate = scheme.rate
  BY TypesNow DEF setEnforcementLocation, SchemeType
<1>2. /\ mesh_data' = mesh_data /\ gap' = gap /\ fresh' = fresh /\ since' = since /\ broken' = broken
      /\ x' = x /\ status' = status /\ Registered /\ updateContactFormulation(heap)
  BY DEF setEnforcementLocation
<1> QED BY <1>1, <1>2, RestOption

LEMMA RestLagrange == ASSUME Types, Rest, setLagrangeMultiplierOptions PROVE Rest'
<1>1. /\ HasSubmesh /\ Registered /\ heap' = New(heap, {"jacobian_data"}) /\ ~IsEnergy
      /\ formulation' = formulation /\ since' = since \cup {"setLagrangeMultiplierOptions"}
      /\ UNCHANGED <<x, scheme, mesh_data, gap, fresh, broken, status>>
  BY EnergyHasJacobian DEF setLagrangeMultiplierOptions, KeepsFormulation, Rest
<1>2. {"jacobian_data"} \in SUBSET Apart
  BY DEF Apart
<1>3. /\ Consistent(heap', HasSubmesh, mesh_data.fields)
      /\ InUse(heap, HasSubmesh, mesh_data.fields) => InUse(heap', HasSubmesh, mesh_data.fields)
      /\ LORKept(heap) => LORKept(heap')
  BY <1>1, <1>2, ApartNew, TypesNow DEF Rest, HeapInv
<1>4. heap'.objects = heap.objects \cup {"jacobian_data"}
  BY <1>1, NewParts
<1>5. HeapInv'
  BY <1>1, <1>3 DEF Rest, HeapInv, HasSubmesh, Registered, ReplacesJacobian
<1>6. MotionInv'
  BY <1>1, <1>4 DEF Rest, MotionInv, GapOfCurrentCoordinates, TriggerUnchanged
<1>7. OptionsInv'
  BY <1>1, <1>4 DEF Rest, OptionsInv, FormulationCurrent, IsEnergy, PenaltyDataInPlace,
     ThicknessCopied
<1> QED BY <1>1, <1>5, <1>6, <1>7 DEF Rest

LEMMA RestConstantPenalty ==
  ASSUME Types, Rest, NEW k \in Penalties, setMfemKinematicConstantPenalty(k) PROVE Rest'
<1> DEFINE freed == Free(heap, PenaltyObjects)
<1>1. /\ scheme'.method = scheme.method /\ scheme'.kinematic = "constant" /\ scheme'.rate = "none"
      /\ mesh_data'.penalty = k /\ mesh_data'.fields = mesh_data.fields
      /\ mesh_data'.made_at = mesh_data.made_at /\ mesh_data'.x_last = mesh_data.x_last
      /\ mesh_data'.trigger = mesh_data.trigger /\ mesh_data'.ghost = mesh_data.ghost
  BY TypesNow DEF setMfemKinematicConstantPenalty, ConstantPenaltySet, setPenaltyOptions,
     ClearAllPenaltyData, SchemeType, MeshDataType
<1>2. /\ Registered /\ ~fresh' /\ UNCHANGED <<x, gap, since, broken, status>>
      /\ updateContactFormulation(freed)
  BY DEF setMfemKinematicConstantPenalty, ConstantPenaltySet
<1>3. /\ GoodHeap(freed) /\ Consistent(freed, HasSubmesh, mesh_data.fields)
      /\ JacobianWithMesh(heap) => JacobianWithMesh(freed)
      /\ LORKept(heap) => LORKept(freed)
      /\ freed.objects = heap.objects \ PenaltyObjects
  BY FreePenalty, FreeGood, FreeParts, TypesNow DEF Rest, HeapInv
<1> HIDE DEF freed
<1>4. /\ Consistent(heap', HasSubmesh, mesh_data.fields)
      /\ JacobianWithMesh(freed) => JacobianWithMesh(heap')
      /\ LORKept(freed) => LORKept(heap')
      /\ "update_data" \in heap'.objects => "update_data" \in freed.objects
  BY <1>2, <1>3, CreatedHeap
<1>5. HasSubmesh' = HasSubmesh /\ IsEnergy' = IsEnergy
  BY <1>1 DEF HasSubmesh, IsEnergy
<1>6. HeapInv'
  BY <1>1, <1>2, <1>3, <1>4, <1>5 DEF Rest, HeapInv, Registered
<1>7. MotionInv'
  BY <1>1, <1>2, <1>3, <1>4 DEF Rest, MotionInv, GapOfCurrentCoordinates, TriggerUnchanged
<1>8. IsEnergy => "jacobian_data" \in freed.objects
  BY <1>2, <1>3, EnergyHasJacobian DEF Rest, PenaltyObjects
<1>9. FormulationCurrent'
  BY <1>1, <1>2, <1>8, CreatedCurrent
<1>10. PenaltyDataInPlace' /\ ThicknessCopied'
  BY <1>1 DEF PenaltyDataInPlace, ThicknessCopied
<1> QED BY <1>2, <1>5, <1>6, <1>7, <1>9, <1>10 DEF Rest, OptionsInv

LEMMA RestElementPenalty == ASSUME Types, Rest, setMfemKinematicElementPenalty PROVE Rest'
<1> DEFINE freed == Free(heap, PenaltyObjects)
           S == {"elem_thickness", "material_modulus"}
<1>1. /\ scheme'.method = scheme.method /\ scheme'.kinematic = "element" /\ scheme'.rate = "none"
      /\ scheme'.location = scheme.location /\ scheme'.proximity = scheme.proximity
      /\ mesh_data'.fields = mesh_data.fields /\ mesh_data'.lor_factor = mesh_data.lor_factor
      /\ mesh_data'.made_at = mesh_data.made_at /\ mesh_data'.x_last = mesh_data.x_last
      /\ mesh_data'.trigger = mesh_data.trigger /\ mesh_data'.ghost = mesh_data.ghost
  BY TypesNow DEF setMfemKinematicElementPenalty, setPenaltyOptions, ClearAllPenaltyData, SchemeType,
     MeshDataType
<1>2. /\ Registered /\ ~fresh' /\ UNCHANGED <<x, gap, broken, status, formulation>>
      /\ since' = since \cup {"setMfemKinematicElementPenalty"} /\ heap' = New(freed, S)
  BY DEF setMfemKinematicElementPenalty, KeepsFormulation
<1>3. /\ GoodHeap(freed) /\ Consistent(freed, HasSubmesh, mesh_data.fields)
      /\ JacobianWithMesh(heap) => JacobianWithMesh(freed)
      /\ LORKept(heap) => LORKept(freed)
      /\ freed.objects = heap.objects \ PenaltyObjects
  BY FreePenalty, FreeGood, FreeParts, TypesNow DEF Rest, HeapInv
<1>4. <<"formulation", "jacobian_data">> \in heap.live => <<"formulation", "jacobian_data">> \in freed.live
  BY FreeParts DEF PenaltyObjects
<1> HIDE DEF freed
<1>5. S \in SUBSET Apart /\ "jacobian_data" \notin S
  BY DEF Apart
<1>6. /\ Consistent(heap', HasSubmesh, mesh_data.fields)
      /\ JacobianWithMesh(freed) => JacobianWithMesh(heap')
      /\ LORKept(freed) => LORKept(heap')
  <2> HIDE DEF S
  <2> QED BY <1>2, <1>3, <1>5, ApartNew
<1>7. /\ heap'.objects = freed.objects \cup S
      /\ <<"formulation", "jacobian_data">> \in freed.live => <<"formulation", "jacobian_data">> \in heap'.live
  BY <1>2, NewParts
<1>8. HasSubmesh' = HasSubmesh /\ IsEnergy' = IsEnergy
  BY <1>1 DEF HasSubmesh, IsEnergy
<1>9. HeapInv'
  BY <1>1, <1>2, <1>3, <1>6, <1>8 DEF Rest, HeapInv, Registered, ReplacesJacobian
<1>10. MotionInv'
  BY <1>1, <1>2, <1>3, <1>7 DEF Rest, MotionInv, GapOfCurrentCoordinates, TriggerUnchanged
<1>11. FormulationCurrent'
  BY <1>1, <1>2, <1>4, <1>7, <1>8 DEF Rest, OptionsInv, FormulationCurrent, EffectiveProximity
<1>12. PenaltyDataInPlace' /\ ThicknessCopied'
  BY <1>1, <1>2, <1>7 DEF PenaltyDataInPlace, ThicknessCopied
<1> QED BY <1>2, <1>8, <1>9, <1>10, <1>11, <1>12 DEF Rest, OptionsInv

LEMMA RestRate ==
  ASSUME Types, Rest, NEW rate, NEW scalar, setMfemRatePenalty(rate, scalar),
         <<rate, scalar>> \in {<<"constant", "rate_constant">>, <<"percent", "rate_percent">>}
  PROVE  Rest'
<1>1. /\ scheme'.method = scheme.method /\ scheme'.kinematic = scheme.kinematic /\ scheme'.rate = rate
      /\ scheme'.location = scheme.location /\ scheme'.proximity = scheme.proximity
      /\ mesh_data'.fields = mesh_data.fields /\ mesh_data'.lor_factor = mesh_data.lor_factor
      /\ mesh_data'.made_at = mesh_data.made_at /\ mesh_data'.x_last = mesh_data.x_last
      /\ mesh_data'.trigger = mesh_data.trigger /\ mesh_data'.ghost = mesh_data.ghost
      /\ mesh_data'.penalty = mesh_data.penalty /\ scalar \in mesh_data'.scalars
  BY TypesNow DEF setMfemRatePenalty, setPenaltyOptions, SchemeType, MeshDataType
<1>2. Registered /\ ~fresh' /\ UNCHANGED <<x, heap, formulation, gap, since, broken, status>>
  BY DEF setMfemRatePenalty
<1>3. HasSubmesh' = HasSubmesh /\ IsEnergy' = IsEnergy
  BY <1>1 DEF HasSubmesh, IsEnergy
<1>4. HeapInv'
  BY <1>1, <1>2, <1>3 DEF Rest, HeapInv
<1>5. MotionInv'
  BY <1>1, <1>2 DEF Rest, MotionInv, GapOfCurrentCoordinates, TriggerUnchanged
<1>6. FormulationCurrent'
  BY <1>1, <1>2, <1>3 DEF Rest, OptionsInv, FormulationCurrent, Stale, Created, EffectiveProximity, Registered
<1>7. PenaltyDataInPlace' /\ ThicknessCopied'
  BY <1>1, <1>2 DEF Rest, OptionsInv, PenaltyDataInPlace, ThicknessCopied
<1> QED BY <1>2, <1>3, <1>4, <1>5, <1>6, <1>7 DEF Rest, OptionsInv

LEMMA RestViscous == ASSUME Types, Rest, setMfemViscousDampingCoeff PROVE Rest'
<1>1. /\ mesh_data'.fields = mesh_data.fields /\ mesh_data'.lor_factor = mesh_data.lor_factor
      /\ mesh_data'.made_at = mesh_data.made_at /\ mesh_data'.x_last = mesh_data.x_last
      /\ mesh_data'.trigger = mesh_data.trigger /\ mesh_data'.ghost = mesh_data.ghost
      /\ mesh_data'.penalty = mesh_data.penalty /\ mesh_data.scalars \subseteq mesh_data'.scalars
  BY TypesNow DEF setMfemViscousDampingCoeff, MeshDataType
<1>2. Registered /\ UNCHANGED <<x, scheme, heap, formulation, gap, fresh, since, broken, status>>
  BY DEF setMfemViscousDampingCoeff
<1>3. HasSubmesh' = HasSubmesh /\ IsEnergy' = IsEnergy
  BY <1>2 DEF HasSubmesh, IsEnergy
<1>4. HeapInv'
  BY <1>1, <1>2, <1>3 DEF Rest, HeapInv
<1>5. MotionInv'
  BY <1>1, <1>2 DEF Rest, MotionInv, GapOfCurrentCoordinates, TriggerUnchanged
<1>6. FormulationCurrent'
  BY <1>1, <1>2, <1>3 DEF Rest, OptionsInv, FormulationCurrent, Stale, Created, EffectiveProximity, Registered
<1>7. PenaltyDataInPlace' /\ ThicknessCopied'
  BY <1>1, <1>2 DEF Rest, OptionsInv, PenaltyDataInPlace, ThicknessCopied
<1> QED BY <1>2, <1>3, <1>4, <1>5, <1>6, <1>7 DEF Rest, OptionsInv

LEMMA RestTrigger ==
  ASSUME Types, Rest, NEW d \in Triggers, setMfemRedecompTriggerDisplacement(d) PROVE Rest'
<1>1. /\ mesh_data'.fields = mesh_data.fields /\ mesh_data'.lor_factor = mesh_data.lor_factor
      /\ mesh_data'.made_at = mesh_data.made_at /\ mesh_data'.x_last = mesh_data.x_last
      /\ mesh_data'.penalty = mesh_data.penalty /\ mesh_data'.scalars = mesh_data.scalars
  BY TypesNow DEF setMfemRedecompTriggerDisplacement, MeshDataType
<1>2. /\ Registered /\ UNCHANGED <<x, scheme, heap, formulation, gap, fresh, broken, status>>
      /\ since' = since \cup {"setMfemRedecompTriggerDisplacement"}
  BY DEF setMfemRedecompTriggerDisplacement
<1>3. HasSubmesh' = HasSubmesh /\ IsEnergy' = IsEnergy
  BY <1>2 DEF HasSubmesh, IsEnergy
<1>4. HeapInv'
  BY <1>1, <1>2, <1>3 DEF Rest, HeapInv, Registered, ReplacesJacobian
<1>5. MotionInv'
  BY <1>1, <1>2 DEF Rest, MotionInv, GapOfCurrentCoordinates, TriggerUnchanged
<1>6. FormulationCurrent'
  BY <1>1, <1>2, <1>3 DEF Rest, OptionsInv, FormulationCurrent, Stale, Created, EffectiveProximity, Registered
<1>7. PenaltyDataInPlace' /\ ThicknessCopied'
  BY <1>1, <1>2 DEF Rest, OptionsInv, PenaltyDataInPlace, ThicknessCopied
<1> QED BY <1>2, <1>3, <1>4, <1>5, <1>6, <1>7 DEF Rest, OptionsInv

LEMMA RestElementData ==
  ASSUME Types, Rest, NEW o \in {"elem_thickness", "material_modulus"}, updateMfemElementData(o)
  PROVE  Rest'
<1>1. /\ Registered /\ heap' = New(heap, {o})
      /\ UNCHANGED <<x, scheme, mesh_data, gap, fresh, since, broken, status, formulation>>
  BY DEF updateMfemElementData, KeepsFormulation
<1>2. {o} \in SUBSET Apart /\ "jacobian_data" \notin {o}
  BY DEF Apart
<1>3. /\ Consistent(heap', HasSubmesh, mesh_data.fields)
      /\ InUse(heap, HasSubmesh, mesh_data.fields) => InUse(heap', HasSubmesh, mesh_data.fields)
      /\ JacobianWithMesh(heap) => JacobianWithMesh(heap')
      /\ LORKept(heap) => LORKept(heap')
  BY <1>1, <1>2, ApartNew, TypesNow DEF Rest, HeapInv
<1>4. heap'.objects = heap.objects \cup {o}
  BY <1>1, NewParts
<1>5. <<"formulation", "jacobian_data">> \in heap.live => <<"formulation", "jacobian_data">> \in heap'.live
  BY <1>1, NewParts
<1>6. HeapInv'
  BY <1>1, <1>3 DEF Rest, HeapInv, HasSubmesh, Registered
<1>7. MotionInv'
  BY <1>1, <1>4 DEF Rest, MotionInv, GapOfCurrentCoordinates, TriggerUnchanged
<1>8. OptionsInv'
  BY <1>1, <1>4, <1>5 DEF Rest, OptionsInv, FormulationCurrent, Stale, IsEnergy,
     PenaltyDataInPlace, ThicknessCopied, Registered
<1> QED BY <1>1, <1>6, <1>7, <1>8 DEF Rest

LEMMA RestField ==
  ASSUME Types, Rest, NEW f \in {"velocity", "reference_coords"}, registerMfemField(f) PROVE Rest'
<1>1. /\ mesh_data'.fields = mesh_data.fields \cup {f} /\ mesh_data'.lor_factor = mesh_data.lor_factor
      /\ mesh_data'.made_at = mesh_data.made_at /\ mesh_data'.x_last = mesh_data.x_last
      /\ mesh_data'.trigger = mesh_data.trigger /\ mesh_data'.ghost = mesh_data.ghost
      /\ mesh_data'.penalty = mesh_data.penalty /\ mesh_data'.scalars = mesh_data.scalars
  BY TypesNow DEF registerMfemField, MeshDataType
<1>2. /\ Registered /\ ~fresh' /\ heap' = Free(heap, {f})
      /\ UNCHANGED <<x, scheme, formulation, gap, since, broken, status>>
  BY DEF registerMfemField, KeepsFormulation
<1>3. HasSubmesh' = HasSubmesh /\ IsEnergy' = IsEnergy
  BY <1>2 DEF HasSubmesh, IsEnergy
<1>4. /\ Consistent(heap', HasSubmesh, mesh_data.fields \cup {f})
      /\ JacobianWithMesh(heap) => JacobianWithMesh(heap')
      /\ LORKept(heap) => LORKept(heap')
  BY <1>2, FreeField, TypesNow DEF Rest, HeapInv
<1>5. heap'.objects = heap.objects \ {f}
  BY <1>2, FreeParts
<1>6. <<"formulation", "jacobian_data">> \in heap.live => <<"formulation", "jacobian_data">> \in heap'.live
  BY <1>2, FreeParts
<1>7. HeapInv'
  BY <1>1, <1>2, <1>3, <1>4 DEF Rest, HeapInv, Registered
<1>8. MotionInv'
  BY <1>1, <1>2, <1>5 DEF Rest, MotionInv, GapOfCurrentCoordinates, TriggerUnchanged
<1>9. FormulationCurrent'
  BY <1>1, <1>2, <1>3, <1>6 DEF Rest, OptionsInv, FormulationCurrent, Stale, Created, EffectiveProximity, Registered
<1>10. PenaltyDataInPlace' /\ ThicknessCopied'
  BY <1>1, <1>2, <1>5 DEF Rest, OptionsInv, PenaltyDataInPlace, ThicknessCopied
<1> QED BY <1>2, <1>3, <1>7, <1>8, <1>9, <1>10 DEF Rest, OptionsInv

LEMMA RestMove == ASSUME Types, Rest, Move PROVE Rest'
<1>1. /\ Registered /\ ~fresh'
      /\ UNCHANGED <<scheme, mesh_data, heap, formulation, gap, since, broken, status>>
  BY DEF Move
<1>2. HeapInv'
  BY <1>1 DEF Rest, HeapInv, HasSubmesh
<1>3. MotionInv'
  BY <1>1 DEF Rest, MotionInv, GapOfCurrentCoordinates, TriggerUnchanged
<1>4. OptionsInv'
  BY <1>1 DEF Rest, OptionsInv, FormulationCurrent, Stale, PenaltyDataInPlace, ThicknessCopied, IsEnergy,
     Registered
<1> QED BY <1>1, <1>2, <1>3, <1>4 DEF Rest

LEMMA RestStop == ASSUME Types, Rest, NEW e \in Errors, NEW R, StopAfter(e, R) PROVE Rest'
<1>1. /\ status' = e /\ e # "none" /\ e # "registered"
      /\ UNCHANGED <<x, scheme, mesh_data, heap, formulation, gap, fresh, since>>
  BY DEF StopAfter, Errors
<1>2. HeapInv'
  BY <1>1 DEF Rest, HeapInv, HasSubmesh
<1>3. MotionInv'
  BY <1>1 DEF Rest, MotionInv, GapOfCurrentCoordinates, TriggerUnchanged
<1>4. OptionsInv'
  BY <1>1 DEF Rest, OptionsInv, FormulationCurrent, Stale, PenaltyDataInPlace, ThicknessCopied, IsEnergy,
     Registered
<1> QED BY <1>1, <1>2, <1>3, <1>4 DEF Rest

\* What refers to the redecomposed mesh, to its transfer or to an array of a Tribol mesh never leads nowhere after
\* a decomposition.
LEMMA DanglingInUse ==
  ASSUME Types, Rest, fresh, NEW r \in heap.dangling
  PROVE  r[2] \notin {"update_data", "submesh_update_data", "coords"} /\ r \notin ViewReferences
<1>1. Consistent(heap, HasSubmesh, mesh_data.fields) /\ InUse(heap, HasSubmesh, mesh_data.fields)
  BY DEF Rest, HeapInv
<1>2. r \in References /\ r[1] \in heap.objects /\ r \notin heap.live
  BY DEF Types, GoodHeap, Heaps
<1>3. r[2] # "update_data" /\ r[2] # "coords"
  BY <1>1 DEF Consistent, InUse
<1>4. r[2] # "submesh_update_data"
  <2> SUFFICES ASSUME r[2] = "submesh_update_data" PROVE FALSE
    OBVIOUS
  <2>1. r[1] \in {"pressure", "redecomp_gap"}
    BY <1>2, ReferenceFacts
  <2> QED BY <1>1, <1>2, <2>1 DEF Consistent, OfSubmesh, InUse
<1>5. r \notin ViewReferences
  <2> SUFFICES ASSUME r \in ViewReferences PROVE FALSE
    OBVIOUS
  <2>1. PICK v \in Views : r = <<v, Viewed[v]>>
    BY DEF ViewReferences
  <2> QED BY <1>1, <1>2, <2>1 DEF InUse
<1> QED BY <1>3, <1>4, <1>5

LEMMA RestDecomposition ==
  ASSUME Types, Rest, NEW force, updateMfemParallelDecomposition(force) PROVE Rest'
<1> DEFINE rebuilt == NeedsNewRedecomp(force)
           made == AfterDecomposition(rebuilt)
           md == mesh_data
<1>1. CASE DecompositionError(rebuilt) # ""
  BY <1>1, DecompositionErrors, RestStop DEF updateMfemParallelDecomposition
<1>2. CASE DecompositionError(rebuilt) = ""
  <2>1. /\ Registered /\ Remembers(rebuilt) /\ heap' = made /\ formulation' = formulation
        /\ gap' = {} /\ fresh' = TRUE /\ since' = IF rebuilt THEN {} ELSE since
        /\ UNCHANGED <<x, scheme, status>>
    BY <1>2 DEF updateMfemParallelDecomposition, KeepsFormulation, ZeroGap
  <2>2. ~rebuilt => "update_data" \in heap.objects /\ Abs(x - md.x_last) <= md.trigger
    <3>1. ~rebuilt => "update_data" \in heap.objects /\ ~(Abs(x - md.x_last) > md.trigger)
      BY DEF NeedsNewRedecomp
    <3>2. Abs(x - md.x_last) \in Int /\ md.trigger \in Int
      <4>1. MaxX \in Nat /\ Triggers \subseteq Nat
        BY MfemAssumption
      <4>2. x \in 0 .. MaxX /\ md.x_last \in 0 .. MaxX /\ md.trigger \in Triggers
        BY DEF Types, TypeOK
      <4>3. x \in Int /\ md.x_last \in Int
        BY <4>1, <4>2
      <4>4. md.trigger \in Nat
        BY <4>1, <4>2, Zenon
      <4> HIDE DEF md
      <4>5. Abs(x - md.x_last) \in Int
        BY <4>3 DEF Abs
      <4> QED BY <4>4, <4>5
    <3> QED BY <3>1, <3>2
  <2>3. scheme.kinematic = "element" => "tribol_elem_thickness" \in UpdateMfemMeshData(rebuilt).objects
    BY <1>2 DEF DecompositionError, ThicknessIsNull
  <2>4. Consistent(heap, HasSubmesh, md.fields)
    BY DEF Rest, HeapInv
  <2>5. /\ Consistent(made, HasSubmesh, md.fields)
        /\ InUse(made, HasSubmesh, md.fields)
        /\ rebuilt \/ JacobianWithMesh(heap) => JacobianWithMesh(made)
        /\ rebuilt \/ LORKept(heap) => LORKept(made)
        /\ heap.objects \cup UpdateMfemMeshData(rebuilt).objects \subseteq made.objects \cup Views
        /\ <<"formulation", "jacobian_data">> \in heap.live => <<"formulation", "jacobian_data">> \in made.live
    BY <2>2, <2>3, <2>4, DecompositionObjects
  <2> HIDE DEF rebuilt, made
  <2>6. /\ md'.fields = md.fields /\ md'.lor_factor = md.lor_factor
        /\ md'.penalty = md.penalty /\ md'.scalars = md.scalars /\ md'.trigger = md.trigger
        /\ rebuilt => md'.made_at = x /\ md'.x_last = x /\ md'.ghost = md.trigger
        /\ ~rebuilt => md' = md
    BY <2>1, TypesNow DEF Remembers, Made, MeshDataType
  <2>7. HasSubmesh' = HasSubmesh /\ IsEnergy' = IsEnergy
    BY <2>1 DEF HasSubmesh, IsEnergy
  <2>8. HeapInv'
    <3>1. since' \cap ReplacesJacobian = {} => rebuilt \/ JacobianWithMesh(heap)
      BY <2>1 DEF Rest, HeapInv
    <3>2. "setMfemLORFactor" \notin since' => rebuilt \/ LORKept(heap)
      BY <2>1 DEF Rest, HeapInv
    <3> QED BY <2>1, <2>5, <2>6, <2>7, <3>1, <3>2 DEF HeapInv, Registered
  <2>9. MotionInv'
    <3>1. md'.made_at = md'.x_last
      BY <2>6 DEF Rest, MotionInv
    <3>2. TriggerUnchanged' => md'.ghost = md'.trigger
      BY <2>1, <2>2, <2>6 DEF Rest, MotionInv, TriggerUnchanged
    <3>3. Abs(x - md'.x_last) <= md'.trigger
      <4>1. CASE rebuilt
        <5>1. x \in Int /\ md.trigger \in Nat
          <6>1. MaxX \in Nat /\ Triggers \subseteq Nat
            BY MfemAssumption, Zenon
          <6>2. x \in 0 .. MaxX /\ md.trigger \in Triggers
            BY DEF Types, TypeOK
          <6>3. md.trigger \in Nat
            BY <6>1, <6>2, Zenon
          <6> QED BY <6>1, <6>2, <6>3
        <5> QED BY <4>1, <5>1, <2>6 DEF Abs
      <4>2. CASE ~rebuilt
        BY <4>2, <2>2, <2>6
      <4> QED BY <4>1, <4>2
    <3> QED BY <2>1, <3>1, <3>2, <3>3 DEF MotionInv, GapOfCurrentCoordinates
  <2>10. FormulationCurrent'
    BY <2>1, <2>5, <2>6, <2>7 DEF Rest, OptionsInv, FormulationCurrent, Stale, Created, EffectiveProximity, Registered
  <2>11. PenaltyDataInPlace'
    <3>1. "elem_thickness" \notin Views /\ "material_modulus" \notin Views
      BY ViewTargets
    <3> QED BY <2>1, <2>5, <2>6, <3>1 DEF Rest, OptionsInv, PenaltyDataInPlace
  <2>12. ThicknessCopied'
    BY <2>1, <2>3, <2>5, ViewTargets DEF ThicknessCopied
  <2>13. IsEnergy' => "setLagrangeMultiplierOptions" \notin since'
    BY <2>1, <2>7 DEF Rest, OptionsInv
  <2> QED BY <2>8, <2>9, <2>10, <2>11, <2>12, <2>13 DEF Rest, OptionsInv
<1> QED BY <1>1, <1>2

\* Following references changes nothing else.
LEMMA RestReads ==
  ASSUME Types, Rest, UNCHANGED <<x, scheme, mesh_data, heap, formulation, fresh, since, status>>,
         GapOfCurrentCoordinates'
  PROVE  Rest'
<1>1. HeapInv'
  BY DEF Rest, HeapInv, HasSubmesh
<1>2. MotionInv'
  BY DEF Rest, MotionInv, TriggerUnchanged
<1>3. OptionsInv'
  BY DEF Rest, OptionsInv, FormulationCurrent, Stale, PenaltyDataInPlace, ThicknessCopied, IsEnergy,
     Registered
<1> QED BY <1>1, <1>2, <1>3 DEF Rest

LEMMA RestUpdate == ASSUME Types, Rest, update PROVE Rest'
<1>1. CASE UpdateError # ""
  BY <1>1, UpdateErrors, RestStop DEF update, Errors
<1>2. CASE UpdateError = ""
  <2>1. /\ fresh /\ gap' = IF IsEnergy /\ formulation.location = "Nodal" THEN gap \cup {x} ELSE gap
        /\ UNCHANGED <<x, scheme, mesh_data, heap, formulation, fresh, since, status>>
    BY <1>2 DEF update
  <2>2. GapOfCurrentCoordinates'
    BY <2>1 DEF Rest, MotionInv, GapOfCurrentCoordinates
  <2> QED BY <2>1, <2>2, RestReads
<1> QED BY <1>1, <1>2

LEMMA RestResults == ASSUME Types, Rest, getMfemResponse \/ getMfemGap PROVE Rest'
<1>1. ASSUME NEW R, Reads(R) PROVE Rest'
  <2>1. GapOfCurrentCoordinates'
    BY <1>1 DEF Reads, Rest, MotionInv, GapOfCurrentCoordinates
  <2> QED BY <1>1, <2>1, RestReads DEF Reads
<1>2. ASSUME Stop("no submesh data") PROVE Rest'
  BY <1>2, RestStop DEF Stop, Errors
<1> QED BY <1>1, <1>2 DEF getMfemResponse, getMfemGap

-----------------------------------------------------------------------------
(***************************************************************************)
(* The results.                                                            *)
(***************************************************************************)
LEMMA TypesViscous == ASSUME Types, setMfemViscousDampingCoeff PROVE Types'
<1> USE TypesNow
<1>1. mesh_data' \in MeshDataType
  BY DEF setMfemViscousDampingCoeff, MeshDataType, Scalars
<1> QED BY <1>1, TypesFrom DEF setMfemViscousDampingCoeff

LEMMA TypesTrigger ==
  ASSUME Types, NEW d \in Triggers, setMfemRedecompTriggerDisplacement(d) PROVE Types'
<1> USE TypesNow
<1>1. mesh_data' \in MeshDataType
  BY DEF setMfemRedecompTriggerDisplacement, MeshDataType
<1> QED BY <1>1, TypesFrom DEF setMfemRedecompTriggerDisplacement, Calls

LEMMA TypesMove == ASSUME Types, Move PROVE Types'
<1> USE TypesNow
<1>1. x' \in 0 .. MaxX
  BY MfemAssumption DEF Move
<1> QED BY <1>1, TypesFrom DEF Move

LEMMA InvariantStep == IInv /\ [Next]_vars => IInv'
<1> SUFFICES ASSUME Types, Rest, [Next]_vars PROVE Types' /\ Rest'
  BY DEF IInv, Rest
<1> USE DEF Rates, Scalars
<1>1. ASSUME NEW s \in Schemes, registerMfemCouplingScheme(s) PROVE Types' /\ Rest'
  BY <1>1, TypesRegister, RestRegister
<1>2. CASE PenaltyNext
  <2>1. ASSUME NEW k \in Penalties, setMfemKinematicConstantPenalty(k) PROVE Types' /\ Rest'
    BY <2>1, TypesConstantPenalty, RestConstantPenalty
  <2>2. CASE setMfemKinematicElementPenalty
    BY <2>2, TypesElementPenalty, RestElementPenalty
  <2>3. CASE NeedsKinematic
    BY <2>3, TypesStop, RestStop DEF NeedsKinematic, Stop, Errors
  <2>4. CASE updateMfemElemThickness \/ updateMfemMaterialModulus
    BY <2>4, TypesElementData, RestElementData DEF updateMfemElemThickness, updateMfemMaterialModulus
  <2> QED BY <1>2, <2>1, <2>2, <2>3, <2>4 DEF PenaltyNext
<1>3. CASE VelocityNext
  <2>1. CASE setMfemRateConstantPenalty \/ setMfemRatePercentPenalty
    BY <2>1, TypesRate, RestRate DEF setMfemRateConstantPenalty, setMfemRatePercentPenalty
  <2>2. CASE setMfemViscousDampingCoeff
    BY <2>2, TypesViscous, RestViscous
  <2>3. CASE registerMfemVelocity
    BY <2>3, TypesField, RestField DEF registerMfemVelocity
  <2> QED BY <1>3, <2>1, <2>2, <2>3 DEF VelocityNext
<1>4. ASSUME NEW factor \in Factors, setMfemLORFactor(factor) PROVE Types' /\ Rest'
  BY <1>4, TypesLORFactor, RestLORFactor
<1>5. ASSUME NEW d \in Triggers, setMfemRedecompTriggerDisplacement(d) PROVE Types' /\ Rest'
  BY <1>5, TypesTrigger, RestTrigger
<1>6. ASSUME NEW p \in Proximities, setBinningProximityScale(p) PROVE Types' /\ Rest'
  BY <1>6, TypesProximity, RestProximity
<1>7. ASSUME NEW l \in Locations, setEnforcementLocation(l) PROVE Types' /\ Rest'
  BY <1>7, TypesLocation, RestLocation
<1>8. CASE setLagrangeMultiplierOptions
  BY <1>8, TypesLagrange, RestLagrange
<1>9. CASE registerMfemReferenceCoords
  BY <1>9, TypesField, RestField DEF registerMfemReferenceCoords
<1>10. CASE Move
  BY <1>10, TypesMove, RestMove
<1>11. ASSUME NEW force \in BOOLEAN, updateMfemParallelDecomposition(force) PROVE Types' /\ Rest'
  BY <1>11, TypesDecomposition, RestDecomposition
<1>12. CASE update
  BY <1>12, TypesUpdate, RestUpdate
<1>13. CASE getMfemResponse
  BY <1>13, TypesReads, RestResults DEF getMfemResponse
<1>14. CASE getMfemGap
  <2>1. Types'
    <3>1. CASE "submesh_update_data" \in heap.objects
      BY <1>14, <3>1, TypesReads DEF getMfemGap
    <3>2. CASE "submesh_update_data" \notin heap.objects
      BY <1>14, <3>2, TypesStop DEF getMfemGap, Stop, Errors
    <3> QED BY <3>1, <3>2
  <2> QED BY <1>14, <2>1, RestResults
<1>15. CASE UNCHANGED vars
  <2>1. Types'
    BY <1>15 DEF vars, Types, TypeOK, GoodHeap
  <2>2. HeapInv' /\ MotionInv'
    BY <1>15 DEF vars, Rest, HeapInv, HasSubmesh, MotionInv, TriggerUnchanged, GapOfCurrentCoordinates
  <2>3. OptionsInv'
    BY <1>15 DEF vars, Rest, OptionsInv, FormulationCurrent, Stale, PenaltyDataInPlace, ThicknessCopied,
       IsEnergy, Registered
  <2> QED BY <2>1, <2>2, <2>3 DEF Rest
<1> QED BY <1>1, <1>2, <1>3, <1>4, <1>5, <1>6, <1>7, <1>8, <1>9, <1>10, <1>11, <1>12, <1>13, <1>14,
           <1>15 DEF Next

\* The inductive invariant holds, whatever the host calls in whatever order.
THEOREM InterfaceHolds == Spec => []IInv
<1>1. Init => IInv
  BY InitTypes, InitRest DEF IInv, Rest
<1> QED BY <1>1, InvariantStep, PTL DEF Spec

\* After a decomposition the Tribol meshes point to arrays that exist and were made on the mesh in use
\* (updateMfemParallelDecomposition replaces each of them in a step of its own).
THEOREM ViewsNeverStale == Spec => []NothingStaleInUse
<1>1. IInv => NothingStaleInUse
  <2> SUFFICES ASSUME Types, Rest PROVE NothingStaleInUse
    BY DEF IInv, Rest
  <2>1. fresh => InUse(heap, HasSubmesh, mesh_data.fields)
    BY DEF Rest, HeapInv
  <2>2. fresh => \A r \in heap.dangling : r[2] \notin {"update_data", "submesh_update_data", "coords"}
    BY DanglingInUse
  <2> QED BY <2>1, <2>2 DEF NothingStaleInUse, InUse, SubmeshViews, Types
<1> QED BY <1>1, InterfaceHolds, PTL

\* The ghost layer of the mesh in use covers what the host moved since it was made: the comparison is with the
\* coordinates of that mesh, not with those of the last call.
THEOREM GhostLayerWideEnough == Spec => []GhostLayerCoversMotion
<1>1. IInv => GhostLayerCoversMotion
  BY DEF IInv, HeapInv, MotionInv, InUse, TriggerUnchanged, GhostLayerCoversMotion
<1> QED BY <1>1, InterfaceHolds, PTL

\* Location, proximity and Jacobian data of the formulation are those in force. Its penalty mode and stiffness are
\* too for every penalty but the one by element, whose call does not make the formulation anew.
THEOREM FormulationFollows == Spec => []FormulationCurrent
<1>1. IInv => FormulationCurrent
  BY DEF IInv, OptionsInv
<1> QED BY <1>1, InterfaceHolds, PTL

\* The Jacobian transfer is there after a decomposition and leads to what is in use, unless the LOR mesh or the
\* multiplier options were changed since the redecomposed mesh was made.
THEOREM JacobianFollows == Spec => []JacobianReady
<1>1. IInv => JacobianReady
  BY DEF IInv, HeapInv, InUse, JacobianWithMesh, ReplacesJacobian, JacobianReady
<1> QED BY <1>1, InterfaceHolds, PTL

\* The penalty options name data that the scheme has.
THEOREM PenaltyDataStay == Spec => []PenaltyDataInPlace
<1>1. IInv => PenaltyDataInPlace
  BY DEF IInv, OptionsInv
<1> QED BY <1>1, InterfaceHolds, PTL

\* The nodal gaps are those of the coordinates the host has now, however often update is called.
THEOREM GapsOfNow == Spec => []GapOfCurrentCoordinates
<1>1. IInv => GapOfCurrentCoordinates
  BY DEF IInv, MotionInv
<1> QED BY <1>1, InterfaceHolds, PTL

\* No other call stops the program for the two reasons of an update.
LEMMA OnlyUpdateStops ==
  ASSUME Next, status' \in {"no Jacobian transfer", "penalty required"}
  PROVE  update /\ UpdateError # "" /\ status' = UpdateError
<1> SUFFICES ASSUME ~update \/ UpdateError = "" \/ status' # UpdateError PROVE status' \notin {"no Jacobian transfer", "penalty required"}
  OBVIOUS
<1> USE DEF Registered
<1>1. ASSUME NEW e \in {"no kinematic penalty", "no submesh data"}, Stop(e)
      PROVE  status' \notin {"no Jacobian transfer", "penalty required"}
  BY <1>1 DEF Stop, StopAfter
<1>2. CASE PenaltyNext
  BY <1>1, <1>2 DEF PenaltyNext, NeedsKinematic, setMfemKinematicConstantPenalty, ConstantPenaltySet,
     setMfemKinematicElementPenalty, updateMfemElemThickness, updateMfemMaterialModulus,
     updateMfemElementData
<1>3. CASE VelocityNext
  BY <1>3 DEF VelocityNext, setMfemRateConstantPenalty, setMfemRatePercentPenalty, setMfemRatePenalty,
     setMfemViscousDampingCoeff, registerMfemVelocity, registerMfemField
<1>4. ASSUME NEW force, updateMfemParallelDecomposition(force)
      PROVE  status' \notin {"no Jacobian transfer", "penalty required"}
  <2> DEFINE e == DecompositionError(NeedsNewRedecomp(force))
  <2>1. status' = "registered" \/ status' = e
    BY <1>4 DEF updateMfemParallelDecomposition, StopAfter
  <2>2. e \notin {"no Jacobian transfer", "penalty required"}
    BY DEF DecompositionError
  <2> QED BY <2>1, <2>2
<1>5. CASE update
  <2>1. status' = "registered"
    BY <1>5 DEF update, StopAfter
  <2> QED BY <2>1
<1>6. CASE getMfemResponse \/ getMfemGap
  BY <1>1, <1>6 DEF getMfemResponse, getMfemGap, Reads
<1>7. CASE \/ \E s \in Schemes : registerMfemCouplingScheme(s)
           \/ \E factor \in Factors : setMfemLORFactor(factor)
           \/ \E d \in Triggers : setMfemRedecompTriggerDisplacement(d)
           \/ \E p \in Proximities : setBinningProximityScale(p)
           \/ \E l \in Locations : setEnforcementLocation(l)
           \/ setLagrangeMultiplierOptions \/ registerMfemReferenceCoords \/ Move
  BY <1>7 DEF registerMfemCouplingScheme, setMfemLORFactor, LORFactorSet,
     setMfemRedecompTriggerDisplacement, setBinningProximityScale, setEnforcementLocation,
     setLagrangeMultiplierOptions, registerMfemReferenceCoords, registerMfemField, Move
<1> QED BY <1>2, <1>3, <1>4, <1>5, <1>6, <1>7 DEF Next

\* An update stops the program for want of a penalty if the host set none, or set one by element that the formulation
\* does not know of; for want of a Jacobian transfer, after a setMfemLORFactor since the mesh was made.
THEOREM StopsForCause == Spec => UpdateStopsForCause
<1> DEFINE Cause == \/ status' = "penalty required" /\ scheme.kinematic = "none"
                    \/ status' = "penalty required" /\ scheme.kinematic = "element" /\ Stale
                    \/ status' = "no Jacobian transfer" /\ "setMfemLORFactor" \in since
           Stopped == fresh /\ status' \in {"no Jacobian transfer", "penalty required"} => Cause
<1>1. IInv /\ [Next]_vars => [Stopped]_vars
  <2> SUFFICES ASSUME IInv, Next, fresh, status' \in {"no Jacobian transfer", "penalty required"}
               PROVE  Cause
    OBVIOUS
  <2>1. update /\ UpdateError # "" /\ status' = UpdateError
    BY OnlyUpdateStops
  <2>2. Registered /\ IsEnergy
    <3>1. IsEnergy
      BY <2>1 DEF UpdateError
    <3> QED BY <2>1, <3>1 DEF update
  <2>3. CASE status' = "penalty required"
    <3>1. ~formulation.use_penalty
      BY <2>1, <2>3 DEF UpdateError
    <3>2. CASE scheme.kinematic = "none"
      BY <2>3, <3>2
    <3>3. CASE scheme.kinematic # "none"
      <4>1. Created(scheme, mesh_data).use_penalty
        BY <3>3 DEF Created
      <4>2. Stale
        BY <3>1, <4>1 DEF Stale
      <4>3. scheme.kinematic = "element"
        BY <2>2, <4>2 DEF IInv, OptionsInv, FormulationCurrent
      <4> QED BY <2>3, <4>2, <4>3
    <3> QED BY <3>2, <3>3
  <2>4. CASE status' = "no Jacobian transfer"
    <3>1. "jacobian_update_data" \notin heap.objects
      BY <2>1, <2>4 DEF UpdateError
    <3>2. "jacobian_data" \in heap.objects /\ "update_data" \in heap.objects
      BY <2>2, EnergyHasJacobian DEF IInv, HeapInv, InUse
    <3>3. since \cap ReplacesJacobian # {}
      BY <3>1, <3>2 DEF IInv, HeapInv, JacobianWithMesh
    <3>4. "setLagrangeMultiplierOptions" \notin since
      BY <2>2 DEF IInv, OptionsInv
    <3> QED BY <2>4, <3>3, <3>4 DEF ReplacesJacobian
  <2> QED BY <2>3, <2>4
<1> QED BY <1>1, InterfaceHolds, PTL DEF Spec, UpdateStopsForCause, Stopped, Cause

-----------------------------------------------------------------------------
(***************************************************************************)
(* What a call misses.                                                     *)
(***************************************************************************)
MissHasCause(r) ==
  \/ r[2] \in {"lor_mesh", "submesh_lor_xfer"} /\ "setMfemLORFactor" \in since
  \/ r \in ElementReferences
  \/ r \in UncheckedReferences /\ "setMfemKinematicElementPenalty" \in since

\* A reference to the LOR mesh, or to the transfer to it.
LEMMA LORMissHasCause ==
  ASSUME Rest, NEW r \in heap.dangling, r[2] \in OfLORMesh PROVE MissHasCause(r)
BY DEF Rest, HeapInv, LORKept, OfLORMesh, MissHasCause

LEMMA DecompositionMisses ==
  ASSUME Types, Rest, NEW force, NEW r \in MissedByDecomposition(NeedsNewRedecomp(force))
  PROVE  MissHasCause(r)
<1> DEFINE rebuilt == NeedsNewRedecomp(force)
<1>1. CASE r \in Dangling(heap, FollowedByMesh(rebuilt))
  <2>1. r \in heap.dangling /\ (r \in ElementReferences \/ r[2] \in OfLORMesh)
    BY <1>1 DEF Dangling, FollowedByMesh, RedecompReferences, OfLORMesh
  <2> QED BY <2>1, LORMissHasCause DEF MissHasCause
<1>2. CASE r \in UncheckedReferences /\ DecompositionError(rebuilt) = "null followed"
  <2>1. ThicknessIsNull(rebuilt)
    BY <1>2 DEF DecompositionError
  <2>2. /\ scheme.kinematic = "element" /\ "elem_thickness" \in heap.objects
        /\ "tribol_elem_thickness" \notin UpdateMfemMeshData(rebuilt).objects
    BY <2>1 DEF ThicknessIsNull, Rest, OptionsInv, PenaltyDataInPlace
  <2>3. ~rebuilt /\ "tribol_elem_thickness" \notin heap.objects
    <3> DEFINE mesh == NewIf(rebuilt, heap, {"update_data"})
               fields == New(mesh, {"coords"} \cup mesh_data.fields)
               response == NewIf(rebuilt, fields, {"response"})
               copied == NewIf(rebuilt, response, {"tribol_elem_thickness", "tribol_material_modulus"})
    <3>1. copied = UpdateMfemMeshData(rebuilt)
      BY <2>2 DEF UpdateMfemMeshData, NewIf
    <3>2. heap.objects \subseteq mesh.objects
      BY NewIfParts
    <3> HIDE DEF mesh
    <3>3. mesh.objects \subseteq fields.objects
      BY NewParts
    <3> HIDE DEF fields
    <3>4. fields.objects \subseteq response.objects
      BY NewIfParts
    <3> HIDE DEF response
    <3>5. response.objects \subseteq copied.objects /\ (rebuilt => "tribol_elem_thickness" \in copied.objects)
      BY NewIfParts
    <3> HIDE DEF copied
    <3> QED BY <2>2, <3>1, <3>2, <3>3, <3>4, <3>5
  <2>4. "update_data" \in heap.objects
    BY <2>3 DEF NeedsNewRedecomp
  <2>5. "setMfemKinematicElementPenalty" \in since
    BY <2>2, <2>3, <2>4 DEF Rest, OptionsInv, ThicknessCopied
  <2> QED BY <1>2, <2>5 DEF MissHasCause
<1> QED BY <1>1, <1>2 DEF MissedByDecomposition

\* After a decomposition an update goes through nothing that is gone, but for what setMfemLORFactor replaced.
LEMMA UpdateMisses ==
  ASSUME Types, Rest, fresh, Registered, NEW r \in Dangling(heap, FollowedByUpdate) PROVE MissHasCause(r)
<1>1. r \in heap.dangling /\ r \in FollowedByUpdate
  BY DEF Dangling
<1>2. r[2] \notin {"update_data", "submesh_update_data", "coords"} /\ r \notin ViewReferences
  BY <1>1, DanglingInUse
<1>3. IsEnergy /\ r \in MeshTransfer \cup PressureTransfer \cup JacobianReferences \cup FormulationReferences
  BY <1>1, <1>2 DEF FollowedByUpdate
<1>4. r # <<"formulation", "jacobian_data">>
  BY <1>1, <1>3 DEF Rest, OptionsInv, FormulationCurrent, Types, GoodHeap
<1>5. r[2] \in OfLORMesh
  BY <1>2, <1>3, <1>4 DEF MeshTransfer, PressureTransfer, JacobianReferences,
     FormulationReferences, RedecompReferences, SubmeshReferences, LORReferences, OfLORMesh
<1> QED BY <1>1, <1>5, LORMissHasCause

\* A result is read through the transfers that exist.
LEMMA ReadMisses ==
  ASSUME Types, Rest,
         NEW r, \/ r \in Dangling(heap, MeshTransfer)
                \/ r \in Dangling(heap, PressureTransfer) /\ "submesh_update_data" \in heap.objects
  PROVE  MissHasCause(r)
<1>1. r \in heap.dangling /\ r[2] \in OfLORMesh
  BY DEF Dangling, MeshTransfer, PressureTransfer, RedecompReferences, SubmeshReferences, LORReferences,
     OfLORMesh, Rest, HeapInv, Consistent
<1> QED BY <1>1, LORMissHasCause

\* What a call follows although it leads nowhere was left by setMfemLORFactor, is a thickness or a modulus on a LOR
\* mesh that is gone, or is the copy of the thickness that setMfemKinematicElementPenalty dropped.
THEOREM MissesHaveCause == Spec => MissesForCause
<1> DEFINE Missed == \A r \in broken' \ broken :
                       \/ r[2] \in {"lor_mesh", "submesh_lor_xfer"} /\ "setMfemLORFactor" \in since
                       \/ r \in ElementReferences
                       \/ r \in UncheckedReferences /\ "setMfemKinematicElementPenalty" \in since
<1>1. IInv /\ [Next]_vars => [Missed]_vars
  <2> SUFFICES ASSUME Types, Rest, Next, NEW r \in broken' \ broken PROVE MissHasCause(r)
    BY DEF IInv, Rest, MissHasCause
  <2>1. ASSUME NEW force, updateMfemParallelDecomposition(force) PROVE MissHasCause(r)
    <3>1. r \in MissedByDecomposition(NeedsNewRedecomp(force))
      BY <2>1 DEF updateMfemParallelDecomposition, StopAfter
    <3> QED BY <3>1, DecompositionMisses
  <2>2. CASE update
    <3>1. fresh /\ Registered /\ r \in Dangling(heap, FollowedByUpdate)
      BY <2>2 DEF update, StopAfter, FollowedBefore, FollowedByUpdate, Dangling
    <3> QED BY <3>1, UpdateMisses
  <2>3. CASE getMfemResponse \/ getMfemGap
    <3>1. \/ r \in Dangling(heap, MeshTransfer)
          \/ r \in Dangling(heap, PressureTransfer) /\ "submesh_update_data" \in heap.objects
      BY <2>3 DEF getMfemResponse, getMfemGap, Reads, Stop, StopAfter
    <3> QED BY <3>1, ReadMisses
  <2>4. CASE PenaltyNext \/ VelocityNext
    BY <2>4 DEF PenaltyNext, VelocityNext, NeedsKinematic, Stop, StopAfter,
       setMfemKinematicConstantPenalty, ConstantPenaltySet, setMfemKinematicElementPenalty,
       updateMfemElemThickness, updateMfemMaterialModulus, updateMfemElementData,
       setMfemRateConstantPenalty, setMfemRatePercentPenalty, setMfemRatePenalty,
       setMfemViscousDampingCoeff, registerMfemVelocity, registerMfemField
  <2>5. CASE \/ \E s \in Schemes : registerMfemCouplingScheme(s)
             \/ \E factor \in Factors : setMfemLORFactor(factor)
             \/ \E d \in Triggers : setMfemRedecompTriggerDisplacement(d)
             \/ \E p \in Proximities : setBinningProximityScale(p)
             \/ \E l \in Locations : setEnforcementLocation(l)
             \/ setLagrangeMultiplierOptions \/ registerMfemReferenceCoords \/ Move
    BY <2>5 DEF registerMfemCouplingScheme, setMfemLORFactor, LORFactorSet,
       setMfemRedecompTriggerDisplacement, setBinningProximityScale, setEnforcementLocation,
       setLagrangeMultiplierOptions, registerMfemReferenceCoords, registerMfemField, Move
  <2> QED BY <2>1, <2>2, <2>3, <2>4, <2>5 DEF Next
<1> QED BY <1>1, InterfaceHolds, PTL DEF Spec, MissesForCause, Missed
=============================================================================
