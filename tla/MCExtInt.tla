------------------------------ MODULE MCExtInt ------------------------------
(* Instances of PosExtInt for TLC. *)
EXTENDS PosExtInt

\* Two lines of one handler, on two ports, and one of another handler.
TwoHandlers == (0 :> "A") @@ (1 :> "B") @@ (4 :> "A")
WithPortF == (0 :> "F")
=============================================================================
