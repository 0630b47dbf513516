--------------------------- MODULE MCTestPrograms ---------------------------
(* Instances of TestPrograms for TLC. *)
EXTENDS TestPrograms

OneTicket == [t \in Threads |-> 1]
=============================================================================
