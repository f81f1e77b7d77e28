--------------------------- MODULE MCTaskTable ---------------------------
(* Instances of PosTaskTable for TLC. *)
EXTENDS PosTaskTable
=============================================================================
