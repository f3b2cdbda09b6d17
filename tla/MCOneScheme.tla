---------------------------- MODULE MCOneScheme ----------------------------
(***************************************************************************)
(* One scheme on two meshes, under three hosts: of rate penalties, of      *)
(* stiffness by element, and of mortar methods.  The constants of the      *)
(* module are those of the first.                                          *)
(***************************************************************************)
EXTENDS MCTribol

VARIABLE host

Element == INSTANCE Tribol WITH
  MeshInputs <- ElementMeshes, SchemeInputs <- ElementSchemes, Args <- ElementCalls, Reach <- 2
Mortar == INSTANCE Tribol WITH
  MeshInputs <- MortarMeshes, SchemeInputs <- MortarSchemes, Args <- MortarCalls

AnyInit == Init /\ host \in {"penalty", "element", "mortar"}

AnyNext ==
  /\ UNCHANGED host
  /\ \/ host = "penalty" /\ Next
     \/ host = "element" /\ Element!Next
     \/ host = "mortar" /\ Mortar!Next

AnySpec == AnyInit /\ [][AnyNext]_<<vars, host>>
=============================================================================
