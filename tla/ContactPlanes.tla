--------------------------- MODULE ContactPlanes ---------------------------
(***************************************************************************)
(* The check of one pair of faces or edges (CheckInterfacePair of          *)
(* geom/CompGeom.hpp): do they overlap, where, and is it the whole overlap *)
(* or only the part in which one has gone through the other.               *)
(*                                                                         *)
(* Everything is seen from the contact plane, along its normal, which is   *)
(* that of face 2 or halfway between those of the two faces.  A vertex     *)
(* projected onto the plane is its two local coordinates; what else there  *)
(* is to know of two planar faces is how far face 1 is over face 2, which  *)
(* is a linear function of these coordinates: the gap.  The common plane   *)
(* halves the angle of the faces, so that face 1 is half the gap over it   *)
(* and face 2 half the gap under it.  Face 2 is counter-clockwise seen     *)
(* this way, face 1, which looks at it, is clockwise.                      *)
(***************************************************************************)
EXTENDS Polygons

CONSTANTS
  Faces1, Faces2,    \* the polygons in the plane
  Edges1, Edges2,    \* in two dimensions: pairs of coordinates along the line
  Gaps,              \* records of the gap at the origin and its slopes
  MaxInterpen        \* auto_contact_pen_frac times the thickness, in the units of gaps

VARIABLES
  f1, f2,    \* the faces, or edges
  gap,       \* the gap between their planes
  auto,      \* auto_contact_check
  plane      \* what the check found

Unchecked == [method |-> "none"]

G(p) == gap.at0 + gap.dx * p[1] + gap.dy * p[2]

\* The default overlap_area_frac lets every area pass but none at all.
BelowAreaTol(area) == area = 0

NoPlane(method, err) == [method |-> method, err |-> err, full |-> TRUE, poly |-> <<>>, gap |-> <<0, 1>>]
NoFaceGeomException == "NO_FACE_GEOM_EXCEPTION"

-----------------------------------------------------------------------------
(* The common plane in three dimensions. *)

(* The points where the edges of face P meet the plane of the other                     *)
(* face: at most two are looked for, and one that was just found is not counted again.  *)
EdgeMeets(P, i) == MeetsPlane(G(P[i]), G(Succ(P, i)))
MeetingPoint(P, i) == LinePlaneIntersection(P[i], Succ(P, i), G(P[i]), G(Succ(P, i)))

WithNewPoint(found, x) == IF Len(found) = 1 => ~Near(found[1], x) THEN Append(found, x) ELSE found
Intersections(P) ==
  FoldLeft(LAMBDA found, i :
             IF Len(found) < 2 /\ EdgeMeets(P, i) THEN WithNewPoint(found, MeetingPoint(P, i)) ELSE found,
           <<>>, [i \in Indices(P) |-> i])

OtherSide(P) == SelectSeq(P, LAMBDA p : G(p) < 0)

(* What computeOverlap3D keeps of the points: two slots for each face, of which those of *)
(* face 2 are the last.  A slot nothing was found for holds what the last edge left      *)
(* there: the one point once more, or the origin of the coordinates.                     *)
Slots(P) ==
  LET rest == IF EdgeMeets(P, Len(P)) THEN MeetingPoint(P, Len(P)) ELSE <<0, 0>>
  IN SubSeq(Intersections(P) \o <<rest, rest>>, 1, 2)
xInter == Slots(f1) \o Slots(f2)

ReadFromTheFirst == SubSeq(xInter, 1, Len(Intersections(f2))) \o OtherSide(f2)
\* Face 2 is read from behind the points found for face 1.
ClippedFace1 == SubSeq(xInter, 1, Len(Intersections(f1))) \o OtherSide(f1)
FromSlots(k, n) == SubSeq(xInter, k + 1, k + n)
ClippedFace2 == FromSlots(Len(Intersections(f1)), Len(Intersections(f2))) \o OtherSide(f2)

Inside(found, Q) == Cardinality({i \in Indices(found) : Point2DInFace(found[i], Q)})
InsideBoth == <<Inside(Intersections(f1), f2), Inside(Intersections(f2), f1)>>

OnlyOneOrTwoInside == InsideBoth \in {<<2, 0>>, <<0, 2>>, <<2, 2>>, <<2, 1>>, <<1, 2>>}

(* One face goes through the other, going by how many of the points are inside it. *)
Interpenetrates ==
  /\ IsConvex(f1) /\ IsConvex(f2)
  /\ InsideBoth \in {<<1, 1>>, <<2, 0>>, <<0, 2>>, <<2, 2>>, <<2, 1>>, <<1, 2>>}

AsVertices(P) == [i \in Indices(P) |-> Vertex(P[i], "A", i, 0)]
Ordered(P) == IF Len(P) < 3 THEN P ELSE Points(PolyReorderConvex(AsVertices(P)))

\* Clipped faces come in no order, whole ones in opposite ones.
LargeEnough(inter) ==
  IF inter.err = NoFaceGeomException /\ BelowAreaTol(Area2DPolygon(Points(inter.poly))) THEN Invalid("NO_OVERLAP")
  ELSE inter
projectPointsAndComputeOverlap(P, Q, full) ==
  LargeEnough(Intersection2DPolygon(IF full THEN P ELSE Ordered(P), IF full THEN ElemReverse(Q) ELSE Ordered(Q), FALSE))

(* The gap at the area centroid of the overlap: the areas of the triangles to its first *)
(* vertex, times the gap at their averages, over the area.                              *)
PolyAreaCentroidGap(P) ==
  LET part(i) == Cross(Minus(P[i], P[1]), Minus(P[i + 1], P[1])) * (G(P[1]) + G(P[i]) + G(P[i + 1]))
  IN <<FoldLeft(LAMBDA s, i : s + part(i), 0, [i \in 1 .. Len(P) - 2 |-> i + 1]),
       3 * SignedArea2(P)>>

ExceedsMaxAutoInterpen(g) == auto /\ g[1] < -MaxInterpen * g[2]

WithGap(poly, g, full) ==
  IF full /\ ExceedsMaxAutoInterpen(g) THEN NoPlane("COMMON_PLANE", "EXCEEDS_AUTO_CONTACT_LENGTH_SCALE")
  ELSE [method |-> "COMMON_PLANE", err |-> NoFaceGeomException, full |-> full, poly |-> poly, gap |-> g]

OverPolygon(poly, full) == WithGap(poly, PolyAreaCentroidGap(poly), full)
CommonPlaneOf(overlap, full) ==
  IF overlap.err # NoFaceGeomException THEN NoPlane("COMMON_PLANE", overlap.err)
  ELSE OverPolygon(PolyReorderWithNormal(Points(overlap.poly)), full)

\* An overlap of the clipped faces too small to matter gives way to that of the whole faces.
Clipped == IF Interpenetrates THEN projectPointsAndComputeOverlap(ClippedFace1, ClippedFace2, FALSE)
           ELSE Invalid("NO_OVERLAP")
ClippedOrWhole(part) ==
  IF part.err = "NO_OVERLAP" THEN CommonPlaneOf(projectPointsAndComputeOverlap(f1, f2, TRUE), TRUE)
  ELSE CommonPlaneOf(part, FALSE)
CommonPlane3D == ClippedOrWhole(Clipped)

-----------------------------------------------------------------------------
(* The common plane in two dimensions: an edge has two vertices, on the line of the plane. *)

OnPlane(P) == [i \in Indices(P) |-> P[i][1]]

\* Heights over the plane are half the gap, so that all lengths are doubled here.
EdgesCross ==
  LET over(p) == <<2 * p[1], G(p)>>
      under(p) == <<2 * p[1], -G(p)>>
  IN SegmentIntersection2D(over(f1[1]), over(f1[2]), under(f2[1]), under(f2[2]), AnyEnd)

Middle(seg) == <<G(<<seg[1], 0>>) + G(<<seg[2], 0>>), 2>>

EdgePlane(seg, full) ==
  IF BelowAreaTol(Abs(seg[2] - seg[1])) THEN NoPlane("COMMON_PLANE", "NO_OVERLAP")
  ELSE WithGap(seg, Middle(seg), full)

\* From where the edges cross to the nearer one of the vertices behind it.
NearerTo(x, p1, p2) == IF Abs(x - p1) <= Abs(x - p2) THEN p1 ELSE p2
CutEdgePlane(x, behind1, behind2) ==
  IF Len(behind1) > 1 \/ Len(behind2) > 1 THEN NoPlane("COMMON_PLANE", "DEGENERATE_OVERLAP")
  ELSE EdgePlane(<<NearerTo(x, behind1[1][1], behind2[1][1]), x>>, FALSE)
WholeEdgePlane(whole) ==
  IF whole.err # NoFaceGeomException THEN NoPlane("COMMON_PLANE", whole.err) ELSE EdgePlane(whole.seg, TRUE)

CutOrWholeEdge(cross) ==
  IF cross.hit THEN CutEdgePlane(cross.at[1] \div 2, OtherSide(f1), OtherSide(f2))
  ELSE WholeEdgePlane(CheckSegOverlap(OnPlane(f1), OnPlane(f2)))
CommonPlane2D == CutOrWholeEdge(EdgesCross)

-----------------------------------------------------------------------------
(* The mortar planes: that of face 2, whose vertices are where they are. *)

MortarPlaneOf(whole) ==
  IF whole.err # NoFaceGeomException THEN NoPlane("SINGLE_MORTAR", whole.err)
  ELSE [NoPlane("SINGLE_MORTAR", NoFaceGeomException) EXCEPT !.poly = PolyReorderWithNormal(Points(whole.poly))]
MortarPlane3D == MortarPlaneOf(projectPointsAndComputeOverlap(f1, f2, TRUE))

(* The way from one vertex average to the other may be a tenth longer than its part along *)
(* the normal; all lengths are times the number of vertices of either face.               *)
Aligned ==
  LET n1 == Len(f1)
      n2 == Len(f2)
      s1 == VertexAvgCentroid(f1)
      aside == Minus(Times(n1, VertexAvgCentroid(f2)), Times(n2, s1))
      along == n2 * (n1 * gap.at0 + gap.dx * s1[1] + gap.dy * s1[2])
  IN 100 * Dist2(aside, <<0, 0>>) <= 21 * along * along

AlignedMortarPlane3D ==
  IF Aligned THEN [NoPlane("ALIGNED_MORTAR", NoFaceGeomException) EXCEPT !.poly = f2]
  ELSE NoPlane("ALIGNED_MORTAR", "NO_OVERLAP")

-----------------------------------------------------------------------------
PairInit ==
  /\ \/ f1 \in Faces1 /\ f2 \in Faces2
     \/ f1 \in Edges1 /\ f2 \in Edges2
  /\ gap \in Gaps
  /\ auto \in BOOLEAN
  /\ plane = Unchecked

checkFacePair ==
  /\ Len(f1) > 2
  /\ plane = Unchecked
  /\ plane' \in {CommonPlane3D, MortarPlane3D, AlignedMortarPlane3D}
  /\ UNCHANGED <<f1, f2, gap, auto>>

checkEdgePair ==
  /\ Len(f1) = 2
  /\ plane = Unchecked
  /\ plane' = CommonPlane2D
  /\ UNCHANGED <<f1, f2, gap, auto>>

-----------------------------------------------------------------------------
(* What an overlap is, without constructing one. *)

Found == plane # Unchecked /\ plane.err = NoFaceGeomException
Within(p, P) == \/ \A i \in Indices(P) : Cross(Minus(Succ(P, i), P[i]), Minus(p, P[i])) >= 0
                \/ \A i \in Indices(P) : Cross(Minus(Succ(P, i), P[i]), Minus(p, P[i])) <= 0
OnEdgeOf(p, q, P) == \E i \in Indices(P) :
  LET l == Minus(Succ(P, i), P[i]) IN Cross(l, Minus(p, P[i])) = 0 /\ Cross(l, Minus(q, P[i])) = 0
Separated(P, Q) ==
  \E i \in Indices(P) :
    LET l == Minus(Succ(P, i), P[i])
        side(p) == Cross(l, Minus(p, P[i]))
    IN \/ (\A j \in Indices(P) : side(P[j]) >= 0) /\ (\A j \in Indices(Q) : side(Q[j]) <= 0)
       \/ (\A j \in Indices(P) : side(P[j]) <= 0) /\ (\A j \in Indices(Q) : side(Q[j]) >= 0)

ConvexPair == Len(f1) > 2 /\ IsConvex(f1) /\ IsConvex(f2)

\* No vertex of a face lies in the plane of the other.
Transversal == \A i \in Indices(f1) : \A j \in Indices(f2) : G(f1[i]) # 0 /\ G(f2[j]) # 0

(* The overlap of two convex faces is their intersection, or the part of it where one  *)
(* has gone through the other, counter-clockwise around the normal without doubled     *)
(* vertices; faces said to have none have no area in common.                           *)
OverlapOfFaces ==
  ConvexPair /\ (plane.method = "SINGLE_MORTAR" \/ (plane.method = "COMMON_PLANE" /\ Transversal)) =>
    /\ Found => \A i \in Indices(plane.poly) :
         LET p == plane.poly[i]
             q == Succ(plane.poly, i)
         IN /\ Within(p, f1) /\ Within(p, f2)
            /\ ~plane.full => G(p) <= 0
            /\ Cross(Minus(q, p), Minus(Succ(plane.poly, (i % Len(plane.poly)) + 1), q)) > 0
            /\ \/ OnEdgeOf(p, q, f1)
               \/ OnEdgeOf(p, q, f2)
               \/ ~plane.full /\ G(p) = 0 /\ G(q) = 0
    /\ plane.err = "NO_OVERLAP" => Separated(f1, f2) \/ Separated(f2, f1)
    /\ plane.err \in {NoFaceGeomException, "NO_OVERLAP", "EXCEEDS_AUTO_CONTACT_LENGTH_SCALE"}

(* The overlap of two edges is that of their projections, cut where they cross.        *)
OverlapOfEdges ==
  Len(f1) = 2 /\ plane # Unchecked =>
    LET lo1 == IF f1[1][1] < f1[2][1] THEN f1[1][1] ELSE f1[2][1]
        hi1 == f1[1][1] + f1[2][1] - lo1
        lo2 == IF f2[1][1] < f2[2][1] THEN f2[1][1] ELSE f2[2][1]
        hi2 == f2[1][1] + f2[2][1] - lo2
        lo == IF lo1 < lo2 THEN lo2 ELSE lo1
        hi == IF hi1 < hi2 THEN hi1 ELSE hi2
    IN /\ Found /\ plane.full => {plane.poly[1], plane.poly[2]} = {lo, hi} /\ lo < hi
       /\ Found /\ ~plane.full =>
            /\ \A k \in 1 .. 2 : plane.poly[k] \in lo .. hi /\ G(<<plane.poly[k], 0>>) <= 0
            /\ \A x \in {lo, hi} : G(<<x, 0>>) < 0 => x \in {plane.poly[1], plane.poly[2]}
       /\ plane.err = "NO_OVERLAP" => lo >= hi
       /\ plane.err # "DEGENERATE_OVERLAP"

(* Whatever two faces or two edges have in common, the check finds, and no more.        *)
(* (GeomUtilities.hpp:1071-1300 and 2289-2444, CompGeom.hpp:2045-2330)                  *)
OverlapIsIntersection == OverlapOfFaces /\ OverlapOfEdges

BothSides(V) == (\E i \in Indices(V) : G(V[i].at) < 0) /\ (\E i \in Indices(V) : G(V[i].at) > 0)

(* The part where one face has gone through the other is taken whenever the faces are  *)
(* on both sides of each other within their overlap, and the gap there is negative; a  *)
(* pair that stays has no gap deeper than auto contact lets it unless it is cut.       *)
CrossingIsInterpen ==
  plane.method = "COMMON_PLANE" /\ Found =>
    /\ ~plane.full => plane.gap[1] < 0
    /\ plane.full /\ auto => plane.gap[1] >= -MaxInterpen * plane.gap[2]
    /\ ConvexPair /\ Transversal /\ BothSides(projectPointsAndComputeOverlap(f1, f2, TRUE).poly) => ~plane.full

\* The contact plane is where the faces meet, the whole overlap or the part it should be.
PlaneFitsFaces == OverlapIsIntersection /\ CrossingIsInterpen
=============================================================================
