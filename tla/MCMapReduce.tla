---------------------------- MODULE MCMapReduce -----------------------------
(* Instances of MapReduce for TLC. *)
EXTENDS MapReduce

CONSTANTS a, b

TwoSegments == <<<<a, b, a>>, <<a>>>>
=============================================================================
