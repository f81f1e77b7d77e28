-------------------------------- MODULE MCKernel --------------------------------
(* Instances of PosKernel for TLC: programs of two or three tasks. *)
EXTENDS PosKernel

None == [t \in Task |-> {}]
InitZero == [s \in Sem |-> 0]

\* Tasks below HIGH; three that wait for, signal and sleep through each other.
PrioBelow == [t \in Task |-> IF t = 2 THEN "LOW" ELSE "NORMAL"]
Waits3 == <<{"a"}, {"a", "b"}, {"b"}>>
Signals3 == <<{"a", "b"}, {"a"}, {"b"}>>
Sleeps3 == <<Times, {}, Times>>

\* Three tasks that do nothing but sleep.
AllSleep == [t \in Task |-> Times]

\* The same as the first with two HIGH tasks.
PrioHigh3 == <<"NORMAL", "HIGH", "HIGH">>

\* A pair of tasks, the second HIGH: the shape of the repository's examples.
Prio2 == <<"NORMAL", "HIGH">>
Waits2 == <<{"a"}, {"a", "b"}>>
Signals2 == <<{"a", "b"}, {"a"}>>
Sleeps2 == <<Times, Times>>

\* The first task never blocks; the second waits with a timeout for what the
\* first and an interrupt signal; the third waits, sleeps and may finish.
TimedSecond == [t \in Task |-> IF t = 2 THEN {"a"} ELSE {}]
WaitsThird == [t \in Task |-> IF t = 3 THEN {"b"} ELSE {}]
SleepsThird == [t \in Task |-> IF t = 3 THEN Times ELSE {}]
SignalsFirst == [t \in Task |-> IF t = 1 THEN {"a", "b"} ELSE {}]
=============================================================================
