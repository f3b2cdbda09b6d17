--------------------------- MODULE RedecompTransfer ---------------------------
(***************************************************************************)
(* redecomp::RedecompTransfer on a built mesh: fields of the parent are    *)
(* brought to the ranks that compute, and the results brought back, node   *)
(* by node (TransferByNodes), element by element (TransferByElements) or   *)
(* by the quadrature points of elements.  A rank computes right values     *)
(* only where it has all elements; what it computes on ghosts is partial.  *)
(***************************************************************************)
EXTENDS RedecompMesh

CONSTANT VDim        \* components of a node

TransferAssumption == RedecompAssumption /\ VDim \in Nat

Methods == {"nodes", "elements", "quadrature"}

VARIABLES
  method,        \* the kind of field
  parentField,   \* parent rank -> where -> value
  field,         \* rank -> where -> value
  stage          \* "idle", "constructed", "filled", "serial", "computed" or "parallel"

transferVars == <<method, parentField, field, stage>>

-----------------------------------------------------------------------------
(* Places: <<dof, component>> of a nodal field, <<element, point>> of one that is stored   *)
(* by element. *)
Components == 1 .. VDim
ByComponent(dofs) == FlattenSeq([d \in Components |-> Map(dofs, LAMBDA n : <<n, d>>)])
ByDof(dofs) == FlatMap(dofs, LAMBDA n : [d \in Components |-> <<n, d>>])
Points(e, n) == [k \in 1 .. n |-> <<e, k>>]

\* Nodal fields know an element by its dofs, the others by its points.
PlacesOf(e, dofs, points) == IF method = "quadrature" THEN Points(e, points) ELSE ByComponent(dofs)
ParentElem(p, e) == PlacesOf(e, GetElementDofs(p, e), Len(Conn[e]))
RedecompElem(r, e) == PlacesOf(e, elements[r][e].verts, Len(elements[r][e].verts))

\* The same place in the parent mesh: values are compared by it.
ParentName(p, x) == IF method = "quadrature" THEN x ELSE <<GetGlobalTDofNumber(p, x[1]), x[2]>>
Name(r, x) ==
  IF method = "quadrature" THEN <<elements[r][x[1]].attribute, x[2]>> ELSE <<vertices[r][x[1]], x[2]>>

ParentPlaces(p) == UNION {ToSet(ParentElem(p, e)) : e \in {x \in Elems : home[x] = p}}
Places(r) == UNION {ToSet(RedecompElem(r, e)) : e \in DOMAIN elements[r]}

\* SetSubVector: the last value written stays.
SetSubVector(f, places, values) ==
  [x \in DOMAIN f |-> IF x \in ToSet(places) THEN values[LastAt(places, x)] ELSE f[x]]

\* The values received from all ranks are written rank by rank.
Written(f, places, values) == SetSubVector(f, FlattenSeq(places), FlattenSeq(values))

Value(state, name) == [state |-> state, of |-> name]
Owned(list) == Map(Ascending({k \in DOMAIN list : ~list[k].ghost}), LAMBDA k : list[k])

-----------------------------------------------------------------------------
(* TransferByNodes. *)
R2PNodeList(r, p) == NodeList(ReceivedElems(r, p), LAMBDA e : elements[r][e].verts)
NodesOut(p, r) == ByComponent(Dofs(P2RNodeList(p, r, FALSE)))

\* Mutant of NodesIn: the values are taken node by node.
TakenByDof(r, p) == ByDof(Dofs(R2PNodeList(r, p)))
NodesIn(r, p) == ByComponent(Dofs(R2PNodeList(r, p)))
NodesBack(r, p) == ByDof(Dofs(Owned(R2PNodeList(r, p))))
NodesHome(p, r) == ByDof(Dofs(Owned(P2RNodeList(p, r, FALSE))))

(* TransferByElements, and the transfer of quadrature values. *)
ElementsOut(p, r) == FlatMap(p2r[p][r], LAMBDA x : ParentElem(p, x.elem))
ElementsIn(r, p) == FlatMap(ReceivedElems(r, p), LAMBDA x : RedecompElem(r, x.elem))

\* Mutant of ElementsBack: ghosts are sent as well.
GhostsBack(r, p) == FlatMap(ReceivedElems(r, p), LAMBDA x : RedecompElem(r, x.elem))
ElementsBack(r, p) == FlatMap(Owned(ReceivedElems(r, p)), LAMBDA x : RedecompElem(r, x.elem))
ElementsHome(p, r) == FlatMap(Owned(p2r[p][r]), LAMBDA x : ParentElem(p, x.elem))

Read(f, places) == Map(places, LAMBDA x : f[x])

ToSerial(f, out(_, _), in(_, _)) ==
  LET received == Exchanged(LAMBDA p, r : Read(parentField[p], out(p, r)))
  IN [r \in Procs |-> Written(f[r], [p \in Procs |-> in(r, p)], received[r])]

ToParallel(f, back(_, _), homeward(_, _)) ==
  LET received == Exchanged(LAMBDA r, p : Read(field[r], back(r, p)))
  IN [p \in Procs |-> Written(f[p], [r \in Procs |-> homeward(p, r)], received[p])]

-----------------------------------------------------------------------------
TransferInit ==
  /\ method = "none"
  /\ parentField = Blank /\ field = Blank
  /\ stage = "idle"

\* The constructors: with spaces, by nodes; without, by elements, and for quadrature values.
Construct ==
  /\ Built /\ stage = "idle" /\ method' \in Methods /\ stage' = "constructed"
  /\ UNCHANGED <<parentField, field>>

\* The host fills a field of the parent, and makes room for one on the mesh.
NewFields ==
  /\ stage = "constructed" /\ stage' = "filled"
  /\ parentField' = [p \in Procs |-> [x \in ParentPlaces(p) |-> Value("given", ParentName(p, x))]]
  /\ field' = [r \in Procs |-> [x \in Places(r) |-> Value("none", Name(r, x))]]
  /\ UNCHANGED method

TransferToSerial ==
  /\ stage = "filled"
  /\ field' = IF method = "nodes" THEN ToSerial(field, NodesOut, NodesIn)
              ELSE ToSerial(field, ElementsOut, ElementsIn)
  /\ stage' = "serial"
  /\ UNCHANGED <<method, parentField>>

\* A rank has right results on the places of the elements it owns.
OwnedPlaces(r) ==
  UNION {ToSet(RedecompElem(r, e)) : e \in {x \in DOMAIN elements[r] : \A p \in Procs : ~IsGhost(r, p, x)}}

Compute ==
  /\ stage = "serial"
  /\ field' = [r \in Procs |-> [x \in Places(r) |->
       Value(IF x \in OwnedPlaces(r) THEN "result" ELSE "partial", Name(r, x))]]
  /\ stage' = "computed"
  /\ UNCHANGED <<method, parentField>>

TransferToParallel ==
  /\ stage = "computed"
  /\ parentField' = IF method = "nodes" THEN ToParallel(parentField, NodesBack, NodesHome)
                    ELSE ToParallel(parentField, ElementsBack, ElementsHome)
  /\ stage' = "parallel"
  /\ UNCHANGED <<method, field>>

Transfers == Construct \/ NewFields \/ TransferToSerial \/ Compute \/ TransferToParallel

\* A mesh is built, and then fields travel.
TransferNext == (BuildRedecomp /\ UNCHANGED transferVars) \/ (Transfers /\ UNCHANGED meshVars)
TransferSpec == MeshInit /\ TransferInit /\ [][TransferNext]_<<meshVars, transferVars>>

-----------------------------------------------------------------------------
\* Every place of a rank's mesh, also on ghosts and where several sources meet, has the
\* value of the same place of the parent.
SerialHasParentValues ==
  stage = "serial" => \A r \in Procs : \A x \in DOMAIN field[r] :
    field[r][x] = Value("given", Name(r, x))

\* Every copy of every place of the parent gets a result for that place, never the partial
\* value some rank computed on a ghost.
ParentHasResults ==
  stage = "parallel" => \A p \in Procs : \A x \in DOMAIN parentField[p] :
    parentField[p][x] = Value("result", ParentName(p, x))

\* Fields arrive complete, both ways.
FieldsArrive == SerialHasParentValues /\ ParentHasResults
=============================================================================
