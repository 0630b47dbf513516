----------------------------- MODULE MCThreads ------------------------------
(* Instances of Threads for TLC. *)
EXTENDS Threads

(* The first thread has two tickets, the second none, the others one. *)
Tickets == [t \in Threads |-> IF t = 1 THEN 2 ELSE IF t = 2 THEN 0 ELSE 1]
=============================================================================
