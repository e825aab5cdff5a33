------------------------------ MODULE MCRouting ------------------------------
(* Every graph of four nodes with links of two costs, and two changes of it. *)
(* Self has a lower and higher numbers around it, for the ties.              *)
EXTENDS Routing
=============================================================================
