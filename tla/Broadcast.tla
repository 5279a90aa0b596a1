----------------------------- MODULE Broadcast -----------------------------
(***************************************************************************)
(* What the queue of dependencies/SeqLockQueue promises, without slots and *)
(* versions.  One thread sends messages, numbered from 1.  Every reader    *)
(* takes them for itself, in order and none twice.  The queue remembers    *)
(* the last Length messages.  A reader that falls behind by more loses     *)
(* whole rounds of Length messages, and learns nothing of it.              *)
(***************************************************************************)
EXTENDS Integers

CONSTANTS Readers, Length

VARIABLES
    sent,    \* the number of messages sent
    newest,  \* the newest message each reader has taken, 0 before the first
    reply    \* what each reader was told last: a message, or 0 for none

InitBroadcast ==
    /\ sent = 0
    /\ newest = [r \in Readers |-> 0]
    /\ reply = [r \in Readers |-> 0]

Send == sent' = sent + 1 /\ UNCHANGED <<newest, reply>>

Take(r) ==
    \E m \in (newest[r] + 1)..sent :
        /\ sent - m < Length
        /\ (m - newest[r] - 1) % Length = 0
        /\ newest' = [newest EXCEPT ![r] = m]
        /\ reply' = [reply EXCEPT ![r] = m]
        /\ UNCHANGED sent

\* A reader is told that there is nothing only if it has the last message.
FindNothing(r) ==
    /\ newest[r] = sent
    /\ reply' = [reply EXCEPT ![r] = 0]
    /\ UNCHANGED <<sent, newest>>

NextBroadcast == Send \/ \E r \in Readers : Take(r) \/ FindNothing(r)

SpecBroadcast ==
    InitBroadcast /\ [][NextBroadcast]_<<sent, newest, reply>>
=============================================================================
