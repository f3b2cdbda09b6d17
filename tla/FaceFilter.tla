------------------------------ MODULE FaceFilter ------------------------------
(***************************************************************************)
(* A pair on its way through the search: geomFilter of                     *)
(* search/InterfacePairFinder.hpp keeps or drops it, and only one that is  *)
(* kept is checked for a contact plane.  The filter measures the overlap   *)
(* in a way of its own, by the areas under the edges.                      *)
(***************************************************************************)
EXTENDS ContactPlanes

CONSTANTS
  ProximityScales,   \* binning_proximity_scale
  Grain              \* a divisor of all centroids, to keep the squares small

VARIABLES
  shared,      \* the faces have a node in common
  conforming,  \* the mode is SURFACE_TO_SURFACE_CONFORMING
  scale,
  filtered     \* "no", "kept" or "dropped"

filterVars == <<f1, f2, gap, auto, plane, shared, conforming, scale, filtered>>

-----------------------------------------------------------------------------
(* PolyInterYCentroid: the areas between the axis and the lower one of two edges, *)
(* with the sign of the product of their directions, doubled.                     *)

Lower(a, b) == IF a < b THEN a ELSE b
Higher(a, b) == IF a < b THEN b ELSE a
HeightAt(p, q, x) == p[2] + ((x - p[1]) * (q[2] - p[2])) \div (q[1] - p[1])

\* Where the lines through two edges cross; they are not parallel.
CrossAt(p, q, r, s) ==
  LET a == Minus(q, p)
      b == Minus(s, r)
  IN ((r[2] - p[2]) * a[1] * b[1] + a[2] * b[1] * p[1] - b[2] * a[1] * r[1])
     \div (a[2] * b[1] - b[2] * a[1])

UncutStrip(p, q, r, s, xl, xr) ==
  (xr - xl) * (Lower(HeightAt(p, q, xl), HeightAt(r, s, xl)) + Lower(HeightAt(p, q, xr), HeightAt(r, s, xr)))

Strip(p, q, r, s, xl, xr) ==
  LET parallel == Cross(Minus(q, p), Minus(s, r)) = 0
      xm == CrossAt(p, q, r, s)
  IN IF parallel \/ xm <= xl \/ xm >= xr THEN UncutStrip(p, q, r, s, xl, xr)
     ELSE UncutStrip(p, q, r, s, xl, xm) + UncutStrip(p, q, r, s, xm, xr)

EdgeStrip(p, q, r, s) ==
  LET xl == Higher(Lower(p[1], q[1]), Lower(r[1], s[1]))
      xr == Lower(Higher(p[1], q[1]), Higher(r[1], s[1]))
      direction == (q[1] - p[1]) * (s[1] - r[1])
  IN IF direction = 0 \/ xl >= xr THEN 0
     ELSE IF direction > 0 THEN Strip(p, q, r, s, xl, xr) ELSE -Strip(p, q, r, s, xl, xr)

Lowest(P, k) == LET i == CHOOSE i \in Indices(P) : \A j \in Indices(P) : P[i][k] <= P[j][k] IN P[i][k]
Highest(P, k) == LET i == CHOOSE i \in Indices(P) : \A j \in Indices(P) : P[i][k] >= P[j][k] IN P[i][k]
BoxesApart(P, Q) == \E k \in 1 .. 2 : Lowest(P, k) > Highest(Q, k) \/ Lowest(Q, k) > Highest(P, k)

PolyInterArea2(P, Q) ==
  LET origin == <<Lower(Lowest(P, 1), Lowest(Q, 1)), Lower(Lowest(P, 2), Lowest(Q, 2))>>
      At(R, i) == Minus(R[i], origin)
      pairs == [k \in 1 .. Len(P) * Len(Q) |-> <<((k - 1) \div Len(Q)) + 1, ((k - 1) % Len(Q)) + 1>>]
  IN IF BoxesApart(P, Q) THEN 0
     ELSE FoldLeft(LAMBDA area, ij : area + EdgeStrip(At(P, ij[1]), Minus(Succ(P, ij[1]), origin),
                                                      At(Q, ij[2]), Minus(Succ(Q, ij[2]), origin)),
                   0, pairs)

CheckPolyOverlap(P, Q) == PolyInterArea2(P, ElemReverse(Q))

\* The fuzz is too small to matter.
IsPointInEdge(e, p) == Lower(e[1][1], e[2][1]) <= p[1] /\ p[1] <= Higher(e[1][1], e[2][1])

IsOverlappingOnPlane ==
  IF Len(f1) > 2 THEN CheckPolyOverlap(f1, f2) > 0
  ELSE \E i \in 1 .. 2 : IsPointInEdge(f2, f1[i]) \/ IsPointInEdge(f1, f2[i])

\* Of the methods, ENERGY_MORTAR alone is not pruned; the others differ in the plane they project to.
pruneMethodFacePair == ~IsOverlappingOnPlane

-----------------------------------------------------------------------------
(* The other checks.  Lengths are in space: a vertex of face 1 is half the gap over the *)
(* common plane, one of face 2 half the gap under it; all lengths here are doubled.     *)

NormalsOppose == gap.dx * gap.dx + gap.dy * gap.dy <= 4

Place(P, up) == [i \in Indices(P) |-> <<2 * P[i][1], 2 * P[i][2], up * G(P[i])>>]
Square(v) == v[1] * v[1] + v[2] * v[2] + v[3] * v[3]
Fine(v) == <<v[1] \div Grain, v[2] \div Grain, v[3] \div Grain>>
Centroid(V) ==
  LET sum == FoldLeft(LAMBDA s, p : <<s[1] + p[1], s[2] + p[2], s[3] + p[3]>>, <<0, 0, 0>>, V)
  IN <<sum[1] \div Len(V), sum[2] \div Len(V), sum[3] \div Len(V)>>
Away(u, v) == Square(Fine(<<u[1] - v[1], u[2] - v[2], u[3] - v[3]>>))

\* The square of the distance from the vertex average to the farthest vertex.
FaceRadius2(V) ==
  LET c == Centroid(V)
      i == CHOOSE i \in Indices(V) : \A j \in Indices(V) : Away(V[j], c) <= Away(V[i], c)
  IN Away(V[i], c)

WithinOneRadius == Away(Centroid(Place(f1, 1)), Centroid(Place(f2, -1))) <= FaceRadius2(Place(f1, 1))

(* The distance of the centroids is at most the sum of the radii, times the scale, and a *)
(* twentieth of it for conforming faces: d <= k (r1 + r2), without the roots.            *)
WithinReach ==
  LET V1 == Place(f1, 1)
      V2 == Place(f2, -1)
      num == IF conforming THEN scale ELSE 20 * scale
      d2 == (400 * Away(Centroid(V1), Centroid(V2))) \div (num * num)
      r1 == FaceRadius2(V1)
      r2 == FaceRadius2(V2)
      rest == d2 - r1 - r2
  IN rest <= 0 \/ (rest <= r1 + r2 /\ rest * rest <= 4 * r1 * r2)

geomFilter ==
  /\ filtered = "no"
  /\ filtered' = IF ~(auto /\ shared) /\ NormalsOppose /\ WithinReach /\ ~pruneMethodFacePair
                 THEN "kept" ELSE "dropped"
  /\ UNCHANGED <<f1, f2, gap, auto, plane, shared, conforming, scale>>

CheckKept ==
  /\ filtered = "kept"
  /\ checkFacePair \/ checkEdgePair
  /\ UNCHANGED <<shared, conforming, scale, filtered>>

FilterInit ==
  /\ PairInit
  /\ shared \in BOOLEAN
  /\ shared => \E i \in Indices(f1) : \E j \in Indices(f2) : f1[i] = f2[j] /\ G(f1[i]) = 0
  /\ conforming \in BOOLEAN
  /\ scale \in ProximityScales
  /\ filtered = "no"

FilterNext == geomFilter \/ CheckKept
FilterSpec == FilterInit /\ [][FilterNext]_filterVars

-----------------------------------------------------------------------------
(* The two ways to measure an overlap agree: that of the filter, and the polygon that    *)
(* the check constructs.                                                                 *)
AreaOf(whole) == IF whole.err = NoFaceGeomException THEN Area2DPolygon(Points(whole.poly)) ELSE 0
MeasuresOverlap ==
  filtered # "no" /\ ConvexPair =>
    CheckPolyOverlap(f1, f2) = AreaOf(Intersection2DPolygon(f1, ElemReverse(f2), FALSE))

(* Faces that go through one another are not dropped for their distance: only for a      *)
(* node they share in auto contact, for normals that do not oppose, or if they are meant *)
(* to conform.                                                                           *)
KeepsCrossing ==
  filtered = "dropped" /\ ConvexPair /\ Transversal /\ Interpenetrates =>
    (auto /\ shared) \/ conforming \/ ~NormalsOppose
      \/ projectPointsAndComputeOverlap(ClippedFace1, ClippedFace2, FALSE).err = "NO_OVERLAP"

(* What the check has to see passes the filter. (InterfacePairFinder.hpp:30-154)         *)
FilterAgreesWithCheck == MeasuresOverlap /\ KeepsCrossing
=============================================================================
