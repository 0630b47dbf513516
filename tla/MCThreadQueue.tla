---------------------------- MODULE MCThreadQueue ---------------------------
(* Instances of ThreadQueue for TLC: the configurations give the constants
   their values. *)
EXTENDS ThreadQueue
=============================================================================
