------------------------------ MODULE MCMemory ------------------------------
(* Instances of PosMemory for TLC. *)
EXTENDS PosMemory
=============================================================================
