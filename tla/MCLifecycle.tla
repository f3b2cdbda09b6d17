----------------------------- MODULE MCLifecycle -----------------------------
(***************************************************************************)
(* Meshes that change, and schemes that meet: one scheme on meshes that    *)
(* move, shrink and grow; two that share meshes registered in one memory   *)
(* space or another; two that vote on the time step of one mesh in contact *)
(* with itself; or two that compute mortar weights and may be skipped or   *)
(* abort.  The constants of the module are those of the first.             *)
(***************************************************************************)
EXTENDS MCTribol

VARIABLE host

TwoSchemes == {"cs1", "cs2"}

Memory == INSTANCE Tribol WITH
  SchemeIds <- TwoSchemes, MeshInputs <- ModeMeshes, SchemeInputs <- ModeSchemes,
  Args <- ModeCalls, MovingMeshes <- {}, Positions <- {0}, Reach <- 1

Votes == INSTANCE Tribol WITH
  UseUmpire <- FALSE, UseOpenMP <- FALSE, UseCuda <- FALSE, MeshIds <- {"a"}, SchemeIds <- TwoSchemes,
  SchemeInputs <- VotesSchemes, Args <- VotesCalls, MovingMeshes <- {}, Positions <- {0}, Reach <- 1, MaxDt <- 2

Weights == INSTANCE Tribol WITH
  UseUmpire <- FALSE, UseOpenMP <- FALSE, UseCuda <- FALSE, UseEnzyme <- TRUE, SchemeIds <- TwoSchemes,
  MeshInputs <- MortarMeshes, SchemeInputs <- WeightsSchemes, Uninitialised <- EitherStorage, Args <- WeightsCalls,
  MovingMeshes <- {}, Positions <- {0}, Reach <- 1

AnyInit == \/ host = "moves" /\ Init
           \/ host = "memory" /\ Memory!Init
           \/ host = "votes" /\ Votes!Init
           \/ host = "weights" /\ Weights!Init

AnyNext ==
  /\ UNCHANGED host
  /\ \/ host = "moves" /\ Next
     \/ host = "memory" /\ Memory!Next
     \/ host = "votes" /\ Votes!Next
     \/ host = "weights" /\ Weights!Next

AnySpec == AnyInit /\ [][AnyNext]_<<vars, host>>
=============================================================================
