------------------------------- MODULE MailboxSpec -------------------------------
(*****************************************************************************)
(* What the mailboxes of PepperOS promise to the tasks: a message that was   *)
(* accepted is handed over once, in the order of the sends, and a receiver   *)
(* that comes back from its wait finds one.  A receiver may sleep although   *)
(* there is mail, while a sender is still on its way to wake it.             *)
(* PosIpc implements it for programs that do not wait with a timeout.        *)
(*****************************************************************************)
EXTENDS Naturals, Sequences

CONSTANTS
    Task,
    Startup,    \* the message every task finds in its mailbox
    Limit       \* messages a mailbox holds

VARIABLES
    mail,       \* the messages of each mailbox
    asleep,     \* the receivers that sleep
    promised,   \* those who need not sleep any more: there is a message
    letter      \* the message a receiver is about to be handed, if any

mailVars == <<mail, asleep, promised, letter>>

Init ==
    /\ mail = [t \in Task |-> <<Startup>>]
    /\ asleep = {}
    /\ promised = {}
    /\ letter = [t \in Task |-> <<>>]

(* Somebody sends; a full mailbox accepts nothing.                           *)
Post(t, src) ==
    /\ Len(mail[t]) < Limit
    /\ mail' = [mail EXCEPT ![t] = Append(@, src)]
    /\ UNCHANGED <<asleep, promised, letter>>

Sleep(t) ==
    /\ t \notin asleep \cup promised
    /\ asleep' = asleep \cup {t}
    /\ UNCHANGED <<mail, promised, letter>>

(* Only a message lets a receiver through, at once or out of its sleep.      *)
Admit(t) ==
    /\ t \notin promised
    /\ mail[t] # <<>>
    /\ promised' = promised \cup {t}
    /\ asleep' = asleep \ {t}
    /\ UNCHANGED <<mail, letter>>

Read(t) ==
    /\ t \in promised
    /\ letter' = [letter EXCEPT ![t] = <<Head(mail[t])>>]
    /\ UNCHANGED <<mail, asleep, promised>>

(* What was read is still the oldest message, and is handed over only once.  *)
HandOver(t) ==
    /\ t \in promised
    /\ letter[t] = <<Head(mail[t])>>
    /\ mail' = [mail EXCEPT ![t] = Tail(@)]
    /\ letter' = [letter EXCEPT ![t] = <<>>]
    /\ promised' = promised \ {t}
    /\ UNCHANGED asleep

Next ==
    \E t \in Task :
        \/ \E src \in Task : Post(t, src)
        \/ Sleep(t)
        \/ Admit(t)
        \/ Read(t)
        \/ HandOver(t)

Spec == Init /\ [][Next]_mailVars
=============================================================================
