------------------------------ MODULE Polygons ------------------------------
(***************************************************************************)
(* The plane geometry of geom/GeomUtilities.hpp.  Points are pairs of      *)
(* integers, so fine that the points where edges cross are among them: the *)
(* arithmetic is exact, and two points are the same for the code if they   *)
(* are nearer than LenTol.  A polygon is the sequence of its vertices, in  *)
(* either orientation.                                                     *)
(***************************************************************************)
EXTENDS Integers, Sequences, SequencesExt

CONSTANT LenTol   \* physicalLengthTol: nearer than this is coincident

ASSUME LenTolAssumption == LenTol \in Nat \ {0}

Cross(u, v) == u[1] * v[2] - u[2] * v[1]
Minus(p, q) == <<p[1] - q[1], p[2] - q[2]>>
Near(p, q) == LET d == Minus(p, q) IN d[1] * d[1] + d[2] * d[2] < LenTol * LenTol

Succ(P, i) == P[(i % Len(P)) + 1]   \* the vertex after the i-th
Pred(P, i) == P[((i + Len(P) - 2) % Len(P)) + 1]
Indices(P) == 1 .. Len(P)

Times(n, p) == <<n * p[1], n * p[2]>>
VertexSum(P) == FoldLeft(LAMBDA s, p : <<s[1] + p[1], s[2] + p[2]>>, <<0, 0>>, P)

\* VertexAvgCentroid, times the number of vertices.
VertexAvgCentroid(P) == VertexSum(P)

\* Counter-clockwise: the vertex average is left of every edge.
CheckPolyOrientation(P) ==
  \A i \in Indices(P) :
    Cross(Minus(Succ(P, i), P[i]), Minus(VertexAvgCentroid(P), Times(Len(P), P[i]))) >= 0

(* The barycentric coordinates u and v of p, times the determinant; the dot products of *)
(* the code are the squares of these cross products.  A triangle without area divides   *)
(* by zero and holds nothing.                                                           *)
Barycentric(u, v, det) == \/ det > 0 /\ u >= 0 /\ v >= 0 /\ u + v <= det
                          \/ det < 0 /\ u <= 0 /\ v <= 0 /\ u + v >= det
Point2DInTri(p, a, b, c) ==
  Barycentric(Cross(Minus(p, a), Minus(c, a)), Cross(Minus(b, a), Minus(p, a)), Cross(Minus(b, a), Minus(c, a)))

\* In one of the triangles that the edges make with the vertex average.
Point2DInFace(p, P) ==
  IF Len(P) = 3 THEN Point2DInTri(p, P[1], P[2], P[3])
  ELSE \E i \in Indices(P) :
         Point2DInTri(Times(Len(P), p), Times(Len(P), P[i]), Times(Len(P), Succ(P, i)), VertexAvgCentroid(P))

\* Twice the area.
SignedArea2(P) == FoldLeft(LAMBDA s, i : s + Cross(P[i], Succ(P, i)), 0, [i \in Indices(P) |-> i])
Abs(n) == IF n < 0 THEN -n ELSE n
Area2DPolygon(P) == Abs(SignedArea2(P))

\* Not all turns of a polygon with four or more vertices go one way.
IsConvex(P) ==
  LET Turn(i) == Cross(Minus(Succ(P, i), P[i]), Minus(P[((i + 1) % Len(P)) + 1], Succ(P, i)))
  IN Len(P) < 4 \/ (\A i \in Indices(P) : Turn(i) >= 0) \/ (\A i \in Indices(P) : Turn(i) <= 0)

ElemReverse(P) == <<P[1]>> \o Reverse(Tail(P))

-----------------------------------------------------------------------------
(* Where two segments cross. *)

NoCrossing == [hit |-> FALSE, dup |-> FALSE, at |-> <<0, 0>>]
Dist2(p, q) == LET d == Minus(p, q) IN d[1] * d[1] + d[2] * d[2]

\* The first of the nearest.
Nearest(p, ends) ==
  CHOOSE i \in Indices(ends) : \A j \in Indices(ends) :
    Dist2(p, ends[i]) <= Dist2(p, ends[j]) /\ (j < i => Dist2(p, ends[i]) # Dist2(p, ends[j]))

\* A crossing next to an end that is a vertex of the overlap already is that vertex.
CrossingOrEnd(at, ends, near, interior) ==
  IF Near(at, ends[near]) /\ interior[near]
  THEN [hit |-> FALSE, dup |-> TRUE, at |-> ends[near]]
  ELSE [hit |-> TRUE, dup |-> FALSE, at |-> at]

(* The parameters of the crossing along both segments are quotients, from 0 to 1 if it *)
(* lies on them; parallel segments have none.                                          *)
Share(t, det) == (det > 0 /\ 0 <= t /\ t <= det) \/ (det < 0 /\ det <= t /\ t <= 0)
Along(a, b, t, det) == [k \in 1 .. 2 |-> a[k] + ((b[k] - a[k]) * Abs(t)) \div Abs(det)]
SolvedIntersection(ends, tA, tB, det, interior) ==
  IF Share(tA, det) /\ Share(tB, det)
  THEN LET at == Along(ends[1], ends[2], tA, det)
       IN CrossingOrEnd(at, ends, Nearest(at, ends), interior)
  ELSE NoCrossing

SegmentIntersection2D(a1, b1, a2, b2, interior) ==
  SolvedIntersection(<<a1, b1, a2, b2>>, Cross(Minus(a1, a2), Minus(b2, a2)), Cross(Minus(a1, a2), Minus(b1, a1)),
                     Cross(Minus(b2, a2), Minus(b1, a1)), interior)

\* interior = nullptr: an end counts whatever it is.
AnyEnd == <<TRUE, TRUE, TRUE, TRUE>>

(* Where the segment from p to q meets a plane over which its ends have the heights hp *)
(* and hq, if it does; a segment parallel to the plane does not.                       *)
MeetsPlane(hp, hq) == hp # hq /\ ((hp <= 0 /\ hq >= 0) \/ (hp >= 0 /\ hq <= 0))
LinePlaneIntersection(p, q, hp, hq) ==
  <<p[1] + ((q[1] - p[1]) * hp) \div (hp - hq), p[2] + ((q[2] - p[2]) * hp) \div (hp - hq)>>

-----------------------------------------------------------------------------
(* The intersection of two polygons.  A vertex of it knows where it is, what made it   *)
(* and which vertex or edge of A and of B that was; 0 is the index -1 of the code.     *)

Vertex(at, type, a, b) == [at |-> at, type |-> type, a |-> a, b |-> b]
Points(V) == [i \in Indices(V) |-> V[i].at]

(* The order of atan2 from -pi to pi, and of the radius on one ray. *)
Sector(v) == IF v[2] < 0 THEN 1
             ELSE IF v[2] > 0 THEN 3
             ELSE IF v[1] >= 0 THEN 2 ELSE 4
AngleLess(u, v) == \/ Sector(u) < Sector(v)
                   \/ /\ Sector(u) = Sector(v)
                      /\ \/ Cross(u, v) > 0
                         \/ Cross(u, v) = 0 /\ Dist2(u, <<0, 0>>) < Dist2(v, <<0, 0>>)

\* Vertices sorted by the angle around their average.
SortedAround(V, c) ==
  SortSeq(V, LAMBDA v, w : AngleLess(Minus(Times(Len(V), v.at), c), Minus(Times(Len(V), w.at), c)))
PolyReorderConvex(V) == SortedAround(V, VertexAvgCentroid(Points(V)))

(* An edge shorter than the tolerance gives its second vertex the index of its first.  *)
(* What made a vertex is looked up at the new index of its place in the result, not of *)
(* the vertex that is kept there.                                                      *)
NewIndex(V, i) == IF Near(Pred(V, i).at, V[i].at) THEN ((i + Len(V) - 2) % Len(V)) + 1 ELSE i
WithOwnIndex(V) == SelectSeq([i \in Indices(V) |-> i], LAMBDA i : NewIndex(V, i) = i)
KeptAt(V, kept) == [k \in Indices(kept) |-> [V[NewIndex(V, k)] EXCEPT !.at = V[kept[k]].at]]
CheckPolySegs(V) == KeptAt(V, WithOwnIndex(V))

\* Only the first of several vertices at one place stays.
DistinctVertices(V) ==
  FoldLeft(LAMBDA kept, v : IF \E i \in Indices(kept) : Near(kept[i].at, v.at) THEN kept
                            ELSE Append(kept, v),
           <<>>, V)

InteriorVertices(P, Q) == {i \in Indices(P) : Point2DInFace(P[i], Q)}

\* A vertex of B that is where an interior vertex of A is does not count again.
WithoutCoincident(inA, inB, A, B) == {j \in inB : \A i \in inA : ~Near(A[i], B[j])}

\* Edge i of A and edge j of B, for all i and for each of them all j.
EdgePairs(A, B) == [k \in 1 .. Len(A) * Len(B) |-> <<((k - 1) \div Len(B)) + 1, ((k - 1) % Len(B)) + 1>>]
Ends(P, i, in) == <<i \in in, (i % Len(P)) + 1 \in in>>
WithCrossing(found, cross, ij) ==
  IF cross.hit THEN Append(found, Vertex(cross.at, "EdgeEdge", ij[1], ij[2])) ELSE found
EdgeCrossings(A, B, inA, inB) ==
  FoldLeft(LAMBDA found, ij :
             WithCrossing(found,
                          SegmentIntersection2D(A[ij[1]], Succ(A, ij[1]), B[ij[2]], Succ(B, ij[2]),
                                                Ends(A, ij[1], inA) \o Ends(B, ij[2], inB)),
                          ij),
           <<>>, EdgePairs(A, B))

VerticesOfA(A, in) == FoldLeft(LAMBDA V, i : IF i \in in THEN Append(V, Vertex(A[i], "A", i, 0)) ELSE V,
                               <<>>, [i \in Indices(A) |-> i])
VerticesOfB(B, in) == FoldLeft(LAMBDA V, i : IF i \in in THEN Append(V, Vertex(B[i], "B", 0, i)) ELSE V,
                               <<>>, [i \in Indices(B) |-> i])

Overlap(V) == IF Len(V) < 3 THEN [err |-> "NO_OVERLAP", poly |-> <<>>]
              ELSE [err |-> "NO_FACE_GEOM_EXCEPTION", poly |-> V]
Invalid(err) == [err |-> err, poly |-> <<>>]

ReducedPolygon(V) == IF Len(V) < 3 THEN Overlap(<<>>) ELSE Overlap(CheckPolySegs(PolyReorderConvex(V)))
IntersectionOf(A, B, inA, allInB, inB) ==
  IF inA = Indices(A) THEN Overlap(VerticesOfA(A, inA))
  ELSE IF allInB = Indices(B) THEN Overlap(VerticesOfB(B, allInB))
  ELSE ReducedPolygon(DistinctVertices(EdgeCrossings(A, B, inA, inB) \o VerticesOfA(A, inA) \o VerticesOfB(B, inB)))

Intersection2DPolygon(A, B, orientCheck) ==
  IF Len(A) < 3 \/ Len(B) < 3 THEN Invalid("INVALID_FACE_INPUT")
  ELSE IF orientCheck /\ ~(CheckPolyOrientation(A) /\ CheckPolyOrientation(B))
  THEN Invalid("FACE_ORIENTATION")
  ELSE LET inA == InteriorVertices(A, B)
           inB == InteriorVertices(B, A)
       IN IntersectionOf(A, B, inA, inB, WithoutCoincident(inA, inB, A, B))

\* Turned if its first three vertices turn away from the normal, which points at the reader.
PolyReorderWithNormal(P) ==
  IF Cross(Minus(P[2], P[1]), Minus(P[3], P[1])) < 0 THEN ElemReverse(P) ELSE P

-----------------------------------------------------------------------------
(* The overlap of two segments of one line, given by coordinates along it.  The length *)
(* is that of the points returned.                                                     *)

EndsTowards(s, t) == {i \in 1 .. 2 : (t[i] - s[1]) * (s[2] - s[1]) >= 0}

\* The ends of segment t that lie on s, seen from the first end of s.
EndsOn(s, t) == {i \in 1 .. 2 : (t[i] - s[1]) * (s[2] - s[1]) >= 0 /\ Abs(t[i] - s[1]) <= Abs(s[2] - s[1])}

CheckSegOverlap(s, t) ==
  LET inS == EndsOn(s, t)
      inT == EndsOn(t, s)
      last(in) == IF 2 \in in THEN 2 ELSE 1
  IN IF inS = 1 .. 2 THEN [err |-> "NO_FACE_GEOM_EXCEPTION", seg |-> t]
     ELSE IF inT = 1 .. 2 THEN [err |-> "NO_FACE_GEOM_EXCEPTION", seg |-> s]
     ELSE IF inS = {} \/ inT = {} THEN [err |-> "NO_OVERLAP", seg |-> <<0, 0>>]
     ELSE [err |-> "NO_FACE_GEOM_EXCEPTION", seg |-> <<s[last(inT)], t[last(inS)]>>]
=============================================================================
