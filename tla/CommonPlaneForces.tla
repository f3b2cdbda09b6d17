-------------------------- MODULE CommonPlaneForces --------------------------
(***************************************************************************)
(* The common-plane method with penalty enforcement (physics/              *)
(* CommonPlane.cpp) and its time step vote (mesh/CouplingScheme.cpp):      *)
(* three parallel loops over the contact planes of one update.  Planes     *)
(* share the arrays of nodal forces and the vote, added to and minimised   *)
(* by atomics; all else a plane writes is its own, so that a plane is one  *)
(* step of a loop, and the planes of a loop come in any order.             *)
(* Shape functions come multiplied by Unity; velocities at a point are     *)
(* left so, and times are the shorter by that.                             *)
(***************************************************************************)
EXTENDS Vectors, FiniteSetsExt

CONSTANTS
  Planes,        \* contact planes: [face1, face2: the nodes; on1, on2: shape functions at the overlap centroid;
                 \*                  side1, side2: the elements; normal1, normal2: unit face normals; area]
  Normal,        \* plane -> unit overlap normal, along the normal of face 2
  Schemes,       \* [tied, kinematic, rate, viscous, vote, residualGap]
  Gaps,          \* functions: plane -> its gap along the normal
  Motions,       \* functions: node -> velocity
  Thicknesses,   \* functions: element -> thickness
  FaceRadius,    \* element -> radius
  GapTolRatio, BinningProximityScale,
  PenaltyScale, PenaltyStiffness, MatMod,
  RatePenalty, RatePercent, ViscousCoeff,
  PenFrac, TimestepScale, HostDt, LargeDt

VARIABLES
  scheme, gapOf, velocity, thickness,   \* the input of this update
  inContact, velGap, pressure,          \* of each plane
  force,                                \* node -> response
  loop, pending,                        \* the loop that runs, and its planes that have not
  dt, dtTemp

planeVars == <<scheme, gapOf, velocity, thickness, inContact, velGap, pressure, force, loop, pending, dt, dtTemp>>
inputVars == <<scheme, gapOf, velocity, thickness>>

PlaneNodes == UNION {Range(p.face1) \cup Range(p.face2) : p \in Planes}
Larger(a, b) == IF a < b THEN b ELSE a
Least(a, b) == IF a < b THEN a ELSE b

\* The velocity at a point of a face, by its shape functions.
GalerkinEval(v, face, phi) == Sum3([a \in DOMAIN face |-> Scaled3(phi[a], v[face[a]])])

\* What the code checks of penalty data (MeshData.cpp:43-160) and computes of a plane: unit normals, shape
\* functions of an overlap inside both faces, which add up to the same.  It checks no viscous coefficient, and
\* one that is negative drives what it ought to damp.  Stiffness and time are in units small enough not to vanish:
\* nothing moves as far as it may in less than one unit of time.
Sides == UNION {{p.side1, p.side2} : p \in Planes}

PlaneAssumption ==
  /\ IsFiniteSet(Planes)
  /\ \A p \in Planes :
       /\ IsFiniteSet(DOMAIN p.face1) /\ p.on1 \in [DOMAIN p.face1 -> Nat]
       /\ IsFiniteSet(DOMAIN p.face2) /\ p.on2 \in [DOMAIN p.face2 -> Nat]
       /\ SumFunction(p.on1) = SumFunction(p.on2)
       /\ p.area \in Nat
       /\ \A d \in 1 .. 3 : Normal[p][d] \in Int /\ p.normal1[d] \in Int /\ p.normal2[d] \in Int
       /\ Norm2(Normal[p]) = 1
  /\ Schemes \subseteq [tied : BOOLEAN, kinematic : {"constant", "element"}, rate : {"none", "constant", "percent"},
                        viscous : BOOLEAN, vote : BOOLEAN, residualGap : Int]
  /\ \A gap \in Gaps : \A p \in Planes : gap[p] \in Int
  /\ \A v \in Motions : \A n \in PlaneNodes : \A d \in 1 .. 3 : v[n][d] \in Int
  /\ {GapTolRatio, BinningProximityScale} \subseteq Nat /\ PenaltyScale \in Nat \ {0}
  /\ \A e \in Sides :
       /\ {FaceRadius[e], RatePenalty[e], RatePercent[e], ViscousCoeff[e]} \subseteq Nat
       /\ PenaltyStiffness[e] \in Nat \ {0} /\ MatMod[e] \in Nat
       /\ \A t \in Thicknesses : e \in DOMAIN t /\ t[e] \in Int /\ t[e] <= MatMod[e]
  /\ {PenFrac, TimestepScale, HostDt, LargeDt} \subseteq Nat \ {0}
  /\ \A p \in Planes : \A t \in Thicknesses : \A v \in Motions :
       LET s1 == dotProd(GalerkinEval(v, p.face1, p.on1), Normal[p])
           s2 == dotProd(GalerkinEval(v, p.face2, p.on2), Normal[p])
       IN /\ t[p.side1] > 0 => -s1 <= TimestepScale * (PenFrac * t[p.side1])
          /\ t[p.side2] > 0 => s2 <= TimestepScale * (PenFrac * t[p.side2])

ASSUME PlaneAssumption

-----------------------------------------------------------------------------
(* ApplyNormal<COMMON_PLANE, PENALTY> *)

MaxRadius(p) == Larger(FaceRadius[p.side1], FaceRadius[p.side2])
OtherSideOfZero(p) ==
  IF scheme.tied THEN BinningProximityScale * MaxRadius(p) ELSE scheme.residualGap + GapTolRatio * MaxRadius(p)
getGapTol(p) ==
  IF scheme.tied THEN BinningProximityScale * MaxRadius(p) ELSE scheme.residualGap - GapTolRatio * MaxRadius(p)

ComputePenaltyStiffnessPerArea(k1, k2) == (k1 * k2) \div (k1 + k2)

\* The tiny length is too small to matter.
Stiffness(p) ==
  LET spring(side) == PenaltyScale * (IF scheme.kinematic = "constant" THEN PenaltyStiffness[side]
                                                                        ELSE MatMod[side] \div thickness[side])
  IN ComputePenaltyStiffnessPerArea(spring(p.side1), spring(p.side2))

\* At the overlap centroid.
VelocityOn(face, phi) == GalerkinEval(velocity, face, phi)
OtherWayRound(p) == Apart(VelocityOn(p.face2, p.on2), VelocityOn(p.face1, p.on1))
VelocityGap(p) == Apart(VelocityOn(p.face1, p.on1), VelocityOn(p.face2, p.on2))

RateStiffness(p) ==
  CASE scheme.rate = "none" -> 0
    [] scheme.rate = "constant" -> (RatePenalty[p.side1] + RatePenalty[p.side2]) \div 2
    [] scheme.rate = "percent" -> (Stiffness(p) * (RatePercent[p.side1] + RatePercent[p.side2])) \div 2

\* Only a gap that is closing adds a pressure.
OpeningToo(p, v) == v * RateStiffness(p)
ComputeGapRatePressure(p, v) == IF v <= 0 THEN v * RateStiffness(p) ELSE 0

kinematicPressure(p) == (gapOf[p] - scheme.residualGap) * Stiffness(p)

\* force[0] on face 1 is against the vector, on face 2 along it.
BothAlong(f, p, vec) ==
  [n \in PlaneNodes |->
     Plus3(f[n], Plus3(Sum3([a \in {b \in DOMAIN p.face1 : p.face1[b] = n} |-> Scaled3(p.on1[a], vec)]),
                       Sum3([a \in {b \in DOMAIN p.face2 : p.face2[b] = n} |-> Scaled3(p.on2[a], vec)])))]
WithForces(f, p, vec) ==
  [n \in PlaneNodes |->
     Plus3(f[n], Plus3(Sum3([a \in {b \in DOMAIN p.face1 : p.face1[b] = n} |-> Scaled3(-p.on1[a], vec)]),
                       Sum3([a \in {b \in DOMAIN p.face2 : p.face2[b] = n} |-> Scaled3(p.on2[a], vec)])))]

NextPlane(p, name) == loop = name /\ p \in pending /\ pending' = pending \ {p}

OutOfReach(p) ==
  /\ NextPlane(p, "normal") /\ gapOf[p] > getGapTol(p)
  /\ inContact' = [inContact EXCEPT ![p] = FALSE]
  /\ UNCHANGED <<inputVars, velGap, pressure, force, loop, dt, dtTemp>>

ApplyNormal(p) ==
  LET v == dotProd(VelocityGap(p), Normal[p])
      rate == IF scheme.rate = "none" THEN 0 ELSE ComputeGapRatePressure(p, v)
  IN /\ NextPlane(p, "normal") /\ gapOf[p] <= getGapTol(p)
     /\ velGap' = IF scheme.rate = "none" THEN velGap ELSE [velGap EXCEPT ![p] = v]
     /\ pressure' = [pressure EXCEPT ![p] = kinematicPressure(p)]
     /\ force' = WithForces(force, p, Scaled3((kinematicPressure(p) + rate) * p.area, Normal[p]))
     /\ UNCHANGED <<inputVars, inContact, loop, dt, dtTemp>>

-----------------------------------------------------------------------------
(* ApplyTangential<COMMON_PLANE, PENALTY, VISCOUS_TANGENTIAL>: of the planes in contact alone. *)

WholeGap(p) == VelocityGap(p)
Tangential(p) == Apart(VelocityGap(p), Scaled3(dotProd(VelocityGap(p), Normal[p]), Normal[p]))

ApplyTangential(p) ==
  LET visc == (ViscousCoeff[p.side1] + ViscousCoeff[p.side2]) \div 2 IN
  /\ NextPlane(p, "tangential")
  /\ force' = IF inContact[p] THEN WithForces(force, p, Scaled3(visc, Tangential(p))) ELSE force
  /\ UNCHANGED <<inputVars, inContact, velGap, pressure, loop, dt, dtTemp>>

-----------------------------------------------------------------------------
(* computeCommonPlaneTimeStep: of every plane, in contact or not. *)

MaxDelta(side) == PenFrac * thickness[side]

\* A tiny velocity is added to avoid a division by zero.
DtOf(delta, v) ==
  CASE v = 0 -> LargeDt
    [] v > 0 -> (TimestepScale * delta) \div v
    [] v < 0 -> -((TimestepScale * delta) \div (-v))

\* The gap vector lies along the overlap normal.
GapVector(p) == Scaled3(gapOf[p], Normal[p])

\* The faces move on, one towards the other.
Nears1(p) == dotProd(VelocityOn(p.face1, p.on1), Normal[p]) < 0
Nears2(p) == dotProd(VelocityOn(p.face2, p.on2), Normal[p]) >= 0

\* Check 1: the overlap there is exceeds what each thickness allows.
ExceedsNow1(p) == inContact[p] /\ Nears1(p) /\ MaxDelta(p.side1) - dotProd(GapVector(p), p.normal1) < 0
ExceedsNow2(p) == inContact[p] /\ Nears2(p) /\ MaxDelta(p.side2) + dotProd(GapVector(p), p.normal2) < 0

\* Check 2: so does the overlap after a step of the host's dt.
Projected(p) == Plus3(GapVector(p), Scaled3(dt, VelocityGap(p)))
ExceedsThen1(p) == Nears1(p) /\ (ExceedsNow1(p) \/ -dotProd(Projected(p), p.normal2) > Larger(0, MaxDelta(p.side1)))
ExceedsThen2(p) == Nears2(p) /\ (ExceedsNow2(p) \/ dotProd(Projected(p), p.normal1) > Larger(0, MaxDelta(p.side2)))

Dt1(p, exceeds) ==
  IF exceeds THEN DtOf(MaxDelta(p.side1), dotProd(VelocityOn(p.face1, p.on1), p.normal1)) ELSE LargeDt
Dt2(p, exceeds) ==
  IF exceeds THEN DtOf(MaxDelta(p.side2), dotProd(VelocityOn(p.face2, p.on2), p.normal2)) ELSE LargeDt

\* Negative ones are left out.
LastOne(old, dts) == LET positive == {d \in dts : d > 0} IN IF positive = {} THEN old ELSE Least(LargeDt, Min(positive))
atomicMin(old, dts) == Min({old, LargeDt} \cup {d \in dts : d > 0})

VoteCheck1(p) == IF inContact[p] THEN {Dt1(p, ExceedsNow1(p)), Dt2(p, ExceedsNow2(p))} ELSE {}
VoteCheck2(p) == {Dt1(p, ExceedsThen1(p)), Dt2(p, ExceedsThen2(p))}

Vote(p) ==
  /\ NextPlane(p, "vote")
  /\ dtTemp' = <<atomicMin(dtTemp[1], VoteCheck1(p)), atomicMin(dtTemp[2], VoteCheck2(p))>>
  /\ UNCHANGED <<inputVars, inContact, velGap, pressure, force, loop, dt>>

-----------------------------------------------------------------------------
(* An update, of meshes whose penalty data were found valid: with a penalty by element no thickness *)
(* is negative, and the error the normal loop keeps for one is not met.                             *)

PlaneInit ==
  /\ scheme \in Schemes /\ gapOf \in Gaps /\ velocity \in Motions /\ thickness \in Thicknesses
  /\ scheme.kinematic = "element" => \A e \in DOMAIN thickness : thickness[e] > 0
  /\ inContact = [p \in Planes |-> TRUE]
  /\ velGap = [p \in Planes |-> 0] /\ pressure = [p \in Planes |-> 0]
  /\ force = [n \in PlaneNodes |-> Zero3]
  /\ loop = "normal" /\ pending = Planes
  /\ dt = HostDt /\ dtTemp = <<HostDt, HostDt>>

\* A loop is over before the next one starts.
EndNormal ==
  /\ loop = "normal" /\ pending = {}
  /\ loop' = IF scheme.viscous THEN "tangential" ELSE IF scheme.vote THEN "vote" ELSE "over"
  /\ pending' = Planes
  /\ UNCHANGED <<inputVars, inContact, velGap, pressure, force, dt, dtTemp>>

EndTangential ==
  /\ loop = "tangential" /\ pending = {}
  /\ loop' = IF scheme.vote THEN "vote" ELSE "over"
  /\ pending' = Planes
  /\ UNCHANGED <<inputVars, inContact, velGap, pressure, force, dt, dtTemp>>

EndVote ==
  /\ loop = "vote" /\ pending = {}
  /\ dt' = Min({dtTemp[1], dtTemp[2]}) /\ loop' = "over"
  /\ UNCHANGED <<inputVars, inContact, velGap, pressure, force, pending, dtTemp>>

PlaneNext ==
  \/ \E p \in Planes : OutOfReach(p) \/ ApplyNormal(p) \/ ApplyTangential(p) \/ Vote(p)
  \/ EndNormal \/ EndTangential \/ EndVote

PlaneSpec == PlaneInit /\ [][PlaneNext]_planeVars

-----------------------------------------------------------------------------
(* What an update gives the host. *)

Over == loop = "over"

\* The force on a node is that of springs and dampers between the faces, and they balance.
\* (CommonPlane.cpp:320-352 and 505-545)
PlaneForcesBalance == Over => Sum3(force) = Zero3

\* Faces that are not tied push each other apart or do nothing at all, whatever the residual gap, the gap
\* tolerance and the rate penalty: no node of face 1 is pulled against the normal its planes agree on.
\* (CouplingScheme.hpp:1011-1063, CommonPlane.cpp:100-117 and 144-158)
PenaltyNeverPulls ==
  Over /\ ~scheme.tied =>
    \A p \in Planes : \A n \in Range(p.face1) \ UNION {Range(r.face2) : r \in Planes} :
      (\A q \in Planes : n \in Range(q.face1) => Normal[q] = Normal[p]) => dotProd(force[n], Normal[p]) >= 0

\* Rate and viscous terms take energy out: less the springs, the forces do no work at the velocities they
\* were computed from.  (CommonPlane.cpp:20-117 and 388-570)
ShapeAt(p, n) ==
  SumFunctionOnSet(p.on2, {a \in DOMAIN p.face2 : p.face2[a] = n})
  - SumFunctionOnSet(p.on1, {a \in DOMAIN p.face1 : p.face1[a] = n})
SpringForce(n) ==
  Sum3([p \in {q \in Planes : inContact[q]} |-> Scaled3(pressure[p] * p.area * ShapeAt(p, n), Normal[p])])

DampingDissipates ==
  Over => SumFunction([n \in PlaneNodes |-> dotProd(Apart(force[n], SpringForce(n)), velocity[n])]) <= 0

\* A vote gives the host a step, no longer than its own, after which no overlap is deeper than it is now, nor
\* than one of its elements allows, or by no more than both allow: of planes whose faces are parallel.
\* (CouplingScheme.cpp:1347-1348 and 1464-1709)
OverlapAfter(p, t) == -(gapOf[p] + t * dotProd(VelocityGap(p), Normal[p]))
Parallel(p) == p.normal2 = Normal[p] /\ p.normal1 = Scaled3(-1, Normal[p])

VoteLimitsGrowth ==
  Over /\ scheme.vote =>
    /\ dt \in 1 .. HostDt
    /\ \A p \in {q \in Planes : Parallel(q) /\ thickness[q.side1] > 0 /\ thickness[q.side2] > 0} :
         \/ OverlapAfter(p, dt) <= Max({OverlapAfter(p, 0), MaxDelta(p.side1), MaxDelta(p.side2)})
         \/ OverlapAfter(p, dt) - OverlapAfter(p, 0) <= TimestepScale * (MaxDelta(p.side1) + MaxDelta(p.side2))
=============================================================================
