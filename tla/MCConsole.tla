------------------------------ MODULE MCConsole ------------------------------
(* Instances of PosConsole for TLC. *)
EXTENDS PosConsole

Texts3 == <<2, 1, 2>>
Texts4 == <<1, 2, 1, 1>>
EmptyText == <<1, 0>>
=============================================================================
