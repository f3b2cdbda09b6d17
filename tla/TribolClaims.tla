---------------------------- MODULE TribolClaims ----------------------------
(***************************************************************************)
(* What comments, assertions and documentation of the code say of          *)
(* tribol::update and what module Tribol, written from the code, does not  *)
(* keep.  Each is checked by a run of its own that finds it violated; the  *)
(* README tells the scenario.                                              *)
(***************************************************************************)
EXTENDS Tribol

\* interface/tribol.hpp: "a non-zero return code indicates an error".  When the loop
\* of update is over, a scheme whose physics failed shows in the return code.
ReturnCodeReportsFailure == pc = "loop" /\ todo = {} /\ failed # {} => rc = 1

\* interface/tribol.cpp, update: binning "is guarded against null meshes" and apply has
\* "appropriate guards against zero element meshes".  Whatever was registered since the
\* pairs were found, apply checks pairs of elements that exist.
CheckedPairsInRange == pc = "apply" => PairsInRange(cur)

\* mesh/CouplingScheme.cpp, the text for NULL_REFERENCE_COORDS: the user must register
\* reference coordinates "for one or both meshes per registered ContactMethod".  A valid
\* Enzyme mortar scheme has them on a nonmortar mesh with elements.
EnzymeHasReferenceCoords ==
  InScheme /\ scheme[cur].enzyme /\ scheme[cur].method = "SINGLE_MORTAR" =>
    LET M == SideOf(scheme[cur], 2) IN IsNull(M) \/ "refPosition" \in M.has
=============================================================================
