--------------------------- MODULE MCPhaseMarkers ---------------------------
(* Instances of PhaseMarkers for TLC, with the capacities of the code. *)
EXTENDS PhaseMarkers
=============================================================================
