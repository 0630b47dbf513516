----------------------------- MODULE MCMapStage -----------------------------
(* Instances of MapStage for TLC. *)
EXTENDS MapStage

CONSTANTS a, b

OneSegment == <<<<a, b, a, a>>>>
=============================================================================
