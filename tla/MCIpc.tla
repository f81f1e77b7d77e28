-------------------------------- MODULE MCIpc --------------------------------
(* Instances of PosIpc for TLC. *)
EXTENDS PosIpc

None == [t \in Task |-> {}]
InitOne == [s \in Sem |-> 1]

\* Two tasks that write to each other (examples/stm32f030x4/ping).
PrioHigh2 == <<"NORMAL", "HIGH">>
Ping == <<{2}, {1}>>
FirstSleeps == [t \in Task |-> IF t = 1 THEN Times ELSE {}]
=============================================================================
