---------------------------- MODULE MessageSource ----------------------------
(***************************************************************************)
(* What a socket and its FIXSocketHandler are to the loop that reads them: *)
(* the calls answer the messages of a stream one after the other, each by  *)
(* a message or by nothing, and end_of_buffer is set in the call that      *)
(* answers the last of them, not earlier and not later.  SocketHandler     *)
(* implements it; the producer of Pipeline reads from nothing more.        *)
(***************************************************************************)
EXTENDS Naturals, Sequences

VARIABLES
    verdicts,        \* for each message: may it be answered (TRUE), refused?
    noise,           \* does the stream end in bytes that are no message?
    reading,         \* is a call under way?
    answers,         \* was there a message in the answer, for each call
    end_of_buffer

source == <<verdicts, noise, reading, answers, end_of_buffer>>

Init == ~reading /\ answers = <<>> /\ ~end_of_buffer

Call ==
    /\ ~reading /\ ~end_of_buffer
    /\ reading' = TRUE
    /\ UNCHANGED <<verdicts, noise, answers, end_of_buffer>>

\* The last byte is read: of the last message, or in search of one.
ReachEnd ==
    /\ reading
    /\ Len(answers) + (IF noise THEN 0 ELSE 1) = Len(verdicts)
    /\ end_of_buffer' = TRUE
    /\ UNCHANGED <<verdicts, noise, reading, answers>>

Return ==
    /\ reading /\ Len(answers) < Len(verdicts)
    /\ \E answer \in verdicts[Len(answers) + 1] :
         answers' = Append(answers, answer)
    /\ Len(answers') = Len(verdicts) /\ ~noise => end_of_buffer
    /\ reading' = FALSE
    /\ UNCHANGED <<verdicts, noise, end_of_buffer>>

Spec == Init /\ [][Call \/ ReachEnd \/ Return]_source
=============================================================================
