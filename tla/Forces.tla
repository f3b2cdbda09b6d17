------------------------------- MODULE Forces -------------------------------
(***************************************************************************)
(* The physics of the methods that compute forces: updates of a mortar     *)
(* method, or one update of the common-plane method.                       *)
(***************************************************************************)
EXTENDS MortarForces, CommonPlaneForces

VARIABLE part

AnyInit ==
  \/ /\ part = "mortar" /\ MortarInit
     /\ scheme = <<>> /\ gapOf = <<>> /\ velocity = <<>> /\ thickness = <<>> /\ inContact = <<>> /\ velGap = <<>>
     /\ pressure = <<>> /\ force = <<>> /\ loop = "none" /\ pending = {} /\ dt = 0 /\ dtTemp = <<0, 0>>
  \/ /\ part = "plane" /\ PlaneInit
     /\ method = "none" /\ evalMode = "none" /\ sparseMode = "none" /\ pairs = <<>> /\ atPair = 1 /\ mortarStep = "none"
     /\ status = 0 /\ nodeGap = <<>> /\ response = <<>> /\ smat = <<>> /\ blocks = <<>> /\ updates = 0

AnyNext ==
  \/ part = "mortar" /\ MortarNext /\ UNCHANGED <<part, planeVars>>
  \/ part = "plane" /\ PlaneNext /\ UNCHANGED <<part, mortarVars>>

AnySpec == AnyInit /\ [][AnyNext]_<<part, mortarVars, planeVars>>

\* In every method but the one with Enzyme, the forces of an update on all nodes of both meshes add up to
\* nothing.  (Mortar.cpp:360-402, AlignedMortar.cpp:294-313, CommonPlane.cpp:320-352 and 505-545)
ForcesBalance == MortarForcesBalance /\ PlaneForcesBalance
=============================================================================
