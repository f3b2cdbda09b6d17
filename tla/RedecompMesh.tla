----------------------------- MODULE RedecompMesh -----------------------------
(***************************************************************************)
(* RedecompMesh::BuildRedecomp: the elements of a parallel parent mesh are *)
(* sent where the partitioner puts them, as owned or as ghost elements,    *)
(* and every rank makes one serial mesh of what it received.  Vertices     *)
(* that come from several ranks are one vertex if their global number is.  *)
(*                                                                         *)
(* Every exchange is one step of all ranks (module Exchange).  Rank r of   *)
(* the code is r + 1 here, and other indices are 1 more too.  A vertex is  *)
(* named by its global number, which also stands for its coordinates.      *)
(***************************************************************************)
EXTENDS Integers, Sequences, SequencesExt, FiniteSetsExt

CONSTANTS
  P,             \* ranks
  Conn,          \* elements of the parent -> sequence of their vertices
  Assignments    \* where elements are: the rank in the parent, the owner, the ghosts

Elems == DOMAIN Conn
Procs == 1 .. P

RedecompAssumption ==
  /\ P \in Nat \ {0} /\ Elems \subseteq Nat /\ IsFiniteSet(Elems)
  /\ \A e \in Elems : Conn[e] \in Seq(Nat) /\ Conn[e] # <<>>
  /\ \A x \in Assignments :
       /\ x.home \in [Elems -> Procs] /\ x.own \in [Elems -> Procs]
       /\ \A e \in Elems : x.ghosts[e] \subseteq Procs \ {x.own[e]}

VARIABLES
  home,          \* element -> its rank in the parent
  parentVerts,   \* parent rank -> its vertices, by local number
  p2r,           \* p2r_elems_: parent rank -> rank -> what it sends: [elem, ghost]
  done,          \* the last step of BuildRedecomp that is done
  vertIds,       \* vert_idx_map: rank -> global numbers, by local number
  r2pVerts,      \* rank -> source -> local numbers of the vertices received
  vertices,      \* rank -> local number -> coordinates
  elements,      \* rank -> sequence of elements: their vertices and attribute
  offsets,       \* r2p_elem_offsets_
  ghostElems     \* r2p_ghost_elems_: rank -> source -> local numbers

meshVars == <<home, parentVerts, p2r, done, vertIds, r2pVerts, vertices, elements, offsets, ghostElems>>

-----------------------------------------------------------------------------
(* Sequences.  (TLC evaluates a concatenation once, a function wherever it is applied.) *)
Sorted(S, Before(_, _)) ==
  [k \in 1 .. Cardinality(S) |->
     CHOOSE x \in S : Cardinality({y \in S : Before(y, x)}) = k - 1] \o <<>>
Ascending(S) == Sorted(S, <)
FirstAt(s, x) == Min({k \in DOMAIN s : s[k] = x})
LastAt(s, x) == Max({k \in DOMAIN s : s[k] = x})
Map(s, Op(_)) == [k \in DOMAIN s |-> Op(s[k])] \o <<>>
FlatMap(s, Op(_)) == FlattenSeq(Map(s, Op))
Distinct(s) == Map(Ascending({k \in DOMAIN s : FirstAt(s, s[k]) = k}), LAMBDA k : s[k])
Prefix(s, k) ==
  LET upTo[i \in 0 .. Len(s)] == IF i = 0 THEN 0 ELSE upTo[i - 1] + s[i]
  IN upTo[k]

(* What all ranks receive when each sends build(from, to). *)
Exchanged(build(_, _)) ==
  [to \in Procs |-> [from \in Procs |-> build(from, to)] \o <<>>] \o <<>>

-----------------------------------------------------------------------------
(* The parent on rank p. *)
GetElementDofs(p, e) == Map(Conn[e], LAMBDA v : FirstAt(parentVerts[p], v))
GetGlobalTDofNumber(p, dof) == parentVerts[p][dof]

\* The nodes of a list of elements, in the order they are met; a node is a ghost as long as
\* only ghost elements have it.
NodeList(els, dofs(_)) ==
  LET met == FlatMap(els, LAMBDA x : Map(dofs(x.elem), LAMBDA d : [dof |-> d, ghost |-> x.ghost]))
      idx == Distinct(Map(met, LAMBDA m : m.dof))
  IN Map(idx, LAMBDA d : [dof |-> d,
       ghost |-> \A k \in DOMAIN met : met[k].dof = d => met[k].ghost])

P2RNodeList(p, r, global) ==
  NodeList(p2r[p][r], LAMBDA e : Map(GetElementDofs(p, e),
                        LAMBDA d : IF global THEN GetGlobalTDofNumber(p, d) ELSE d))

Dofs(nodes) == Map(nodes, LAMBDA n : n.dof)

-----------------------------------------------------------------------------
\* The partitioner: an element goes to one rank, and as a ghost to others; each rank lists
\* its elements in order.
P2RElementList(x) ==
  [p \in Procs |-> [r \in Procs |->
     LET sent == Ascending({e \in Elems : x.home[e] = p /\ (x.own[e] = r \/ r \in x.ghosts[e])})
     IN Map(sent, LAMBDA e : [elem |-> e, ghost |-> x.own[e] # r])]]

NoArrays == [r \in Procs |-> [s \in Procs |-> <<>>]]
Blank == [r \in Procs |-> <<>>]

MeshInit ==
  /\ \E x \in Assignments : home = x.home /\ p2r = P2RElementList(x)
  /\ parentVerts = [p \in Procs |->
       Ascending(UNION {ToSet(Conn[e]) : e \in {x \in Elems : home[x] = p}})]
  /\ done = "nothing"
  /\ vertIds = Blank /\ r2pVerts = NoArrays
  /\ vertices = Blank /\ elements = Blank
  /\ offsets = Blank
  /\ ghostElems = NoArrays

\* Global vertex numbers are received and numbered in the order they come ...
NumberVertices ==
  LET received == Exchanged(LAMBDA p, r : Dofs(P2RNodeList(p, r, TRUE)))
  IN /\ done = "nothing" /\ done' = "numbers"
     /\ vertIds' = [r \in Procs |-> Distinct(FlattenSeq(received[r]))]
     /\ r2pVerts' = [r \in Procs |-> Map(received[r],
          LAMBDA list : Map(list, LAMBDA v : FirstAt(vertIds'[r], v)))]
     /\ UNCHANGED <<home, parentVerts, p2r, vertices, elements, offsets, ghostElems>>

PutVertices(coords) ==
  /\ done = "numbers" /\ done' = "vertices"
  /\ vertices' = [r \in Procs |->
       LET places == FlattenSeq(r2pVerts[r])
           values == FlattenSeq(coords[r])
       IN [v \in DOMAIN vertIds[r] |-> values[LastAt(places, v)]]]
  /\ UNCHANGED <<home, parentVerts, p2r, vertIds, r2pVerts, elements, offsets, ghostElems>>

\* Mutant of SendVertices: coordinates in the order of the local vertices.
SendsSorted ==
  PutVertices(Exchanged(LAMBDA p, r : Map(Ascending(ToSet(Dofs(P2RNodeList(p, r, FALSE)))),
                                          LAMBDA d : parentVerts[p][d])))

\* ... their coordinates follow, in the order of the local list, and are put down source by
\* source ...
SendVertices ==
  PutVertices(Exchanged(LAMBDA p, r : Map(Dofs(P2RNodeList(p, r, FALSE)), LAMBDA d : parentVerts[p][d])))

\* ... then types, connectivities and attributes.
CreateElements ==
  LET conns == Exchanged(LAMBDA p, r : Map(p2r[p][r], LAMBDA x :
                 [verts |-> Map(GetElementDofs(p, x.elem), LAMBDA d : GetGlobalTDofNumber(p, d)),
                  attribute |-> x.elem]))
  IN /\ done = "vertices" /\ done' = "elements"
     /\ elements' = [r \in Procs |-> Map(FlattenSeq(conns[r]), LAMBDA el :
          [el EXCEPT !.verts = Map(@, LAMBDA v : FirstAt(vertIds[r], v))])]
     /\ UNCHANGED <<home, parentVerts, p2r, vertIds, r2pVerts, vertices, offsets, ghostElems>>

FillOffsets ==
  LET sizes == Exchanged(LAMBDA p, r : Len(p2r[p][r]))
  IN /\ done = "elements" /\ done' = "offsets"
     /\ offsets' = [r \in Procs |-> [k \in 1 .. P + 1 |-> Prefix(sizes[r], k - 1)]]
     /\ UNCHANGED <<home, parentVerts, p2r, vertIds, r2pVerts, vertices, elements, ghostElems>>

GhostsAt(list) == Ascending({k \in DOMAIN list : list[k].ghost})

\* Mutant of FillGhosts: the numbers stay those of the source.
WithoutOffset ==
  /\ done = "offsets" /\ done' = "built"
  /\ ghostElems' = Exchanged(LAMBDA p, r : GhostsAt(p2r[p][r]))
  /\ UNCHANGED <<home, parentVerts, p2r, vertIds, r2pVerts, vertices, elements, offsets>>

FillGhosts ==
  /\ done = "offsets" /\ done' = "built"
  /\ ghostElems' = Exchanged(LAMBDA p, r : Map(GhostsAt(p2r[p][r]), LAMBDA k : k + offsets[r][p]))
  /\ UNCHANGED <<home, parentVerts, p2r, vertIds, r2pVerts, vertices, elements, offsets>>

BuildRedecomp == NumberVertices \/ SendVertices \/ CreateElements \/ FillOffsets \/ FillGhosts
Built == done = "built"

MeshSpec == MeshInit /\ [][BuildRedecomp]_meshVars

-----------------------------------------------------------------------------
(* What a built mesh offers. *)
ElemsFrom(r, p) == offsets[r][p] + 1 .. offsets[r][p + 1]
IsGhost(r, p, e) == e \in ToSet(ghostElems[r][p])
ReceivedElems(r, p) == Map(Ascending(ElemsFrom(r, p)), LAMBDA e : [elem |-> e, ghost |-> IsGhost(r, p, e)])

\* The mesh of a rank has the elements that were sent to it and nothing else, with the
\* vertices of the parent: two elements share a vertex here if and only if they do there,
\* whatever ranks they came from.
SameMesh ==
  Built => \A r \in Procs : \A k, l \in DOMAIN elements[r] :
    LET a == elements[r][k]
        b == elements[r][l]
    IN /\ Map(a.verts, LAMBDA v : vertices[r][v]) = Conn[a.attribute]
       /\ \A i \in DOMAIN a.verts, j \in DOMAIN b.verts :
            (a.verts[i] = b.verts[j]) = (Conn[a.attribute][i] = Conn[b.attribute][j])

\* Offsets and ghost lists lead from an element of a rank to the place in the list of the
\* parent rank it came from, and tell owned elements from ghosts as the partitioner did.
LeadsToParent ==
  Built => \A r, p \in Procs :
    /\ Cardinality(ElemsFrom(r, p)) = Len(p2r[p][r])
    /\ \A e \in ElemsFrom(r, p) :
         LET sent == p2r[p][r][e - offsets[r][p]]
         IN elements[r][e].attribute = sent.elem /\ IsGhost(r, p, e) = sent.ghost

\* Built meshes and what leads back from them belong to the parent mesh.
MeshesMatchParent == SameMesh /\ LeadsToParent
=============================================================================
