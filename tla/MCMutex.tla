-------------------------------- MODULE MCMutex --------------------------------
(* Instances of PosMutex for TLC. *)
EXTENDS PosMutex

None == [t \in Task |-> {}]
InitZero == [s \in Sem |-> 0]
Prio3 == <<"NORMAL", "LOW", "NORMAL">>
Prio2 == <<"NORMAL", "NORMAL">>
=============================================================================
