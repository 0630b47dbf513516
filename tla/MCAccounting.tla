---------------------------- MODULE MCAccounting ----------------------------
(* Instances of Accounting for TLC. *)
EXTENDS Accounting

OneTicket == [t \in Threads |-> 1]
=============================================================================
