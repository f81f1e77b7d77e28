-------------------------------- MODULE MCTimer --------------------------------
(* Instances of PosTimer for TLC: the constants are plain values. *)
EXTENDS PosTimer
=============================================================================
