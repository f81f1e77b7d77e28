------------------------------ MODULE SemaphoreSpec ------------------------------
(*****************************************************************************)
(* What a PepperOS semaphore promises to the tasks that use it: a number of  *)
(* units that are free, or a line of tasks that sleep until they are given   *)
(* one, served in the order they came.  Nothing else wakes a sleeping task.  *)
(* PosKernel implements it for programs that do not wait with a timeout.     *)
(*****************************************************************************)
EXTENDS Naturals, Sequences

CONSTANTS Task, Sem, Free0

VARIABLES
    free,       \* units nobody holds
    line,       \* the tasks that wait, first come first
    asleep      \* the tasks that may not run

abstractVars == <<free, line, asleep>>

Init ==
    /\ free = Free0
    /\ line = [s \in Sem |-> <<>>]
    /\ asleep = {}

Take(s) ==
    /\ free[s] > 0
    /\ free' = [free EXCEPT ![s] = @ - 1]
    /\ UNCHANGED <<line, asleep>>

Join(t, s) ==
    /\ free[s] = 0
    /\ t \notin asleep
    /\ line' = [line EXCEPT ![s] = Append(@, t)]
    /\ asleep' = asleep \cup {t}
    /\ UNCHANGED free

Give(s) ==
    \/ /\ line[s] = <<>>
       /\ free' = [free EXCEPT ![s] = @ + 1]
       /\ UNCHANGED <<line, asleep>>
    \/ /\ line[s] # <<>>
       /\ line' = [line EXCEPT ![s] = Tail(@)]
       /\ asleep' = asleep \ {Head(line[s])}
       /\ UNCHANGED free

Next == \E s \in Sem : Take(s) \/ Give(s) \/ \E t \in Task : Join(t, s)

Spec == Init /\ [][Next]_abstractVars
=============================================================================
