---------------------------- MODULE SeqLockQueue ----------------------------
(***************************************************************************)
(* The queue of dependencies/SeqLockQueue, src/production/Queue.hpp and    *)
(* Element.hpp: a ring of Length elements, each with a version counter.    *)
(* One thread enqueues and never waits; each reader has an index of its    *)
(* own and reads the elements in turn, again when a write got in between.  *)
(*                                                                         *)
(* The content of an element is Words machine words, and message number m  *)
(* is the content whose words are all m, so that a mixture of two messages *)
(* can be told from both.  The words are copied one at a time in any       *)
(* order: the element's content is written bytewise or by a plain copy,    *)
(* depending on accept_UB, and read by a plain copy either way.            *)
(***************************************************************************)
EXTENDS Integers, FiniteSets

CONSTANTS
    Readers,      \* the readers made by get_reader
    Length,       \* length_, the number of elements
    Words,        \* the words of a message
    MaxMessages   \* bound: the number of messages enqueued

ASSUME QueueAssumption ==
    /\ Length \in Nat \ {0}
    /\ Words # {} /\ IsFiniteSet(Words)
    /\ MaxMessages \in Nat

VARIABLES
    content,          \* the words of each element
    version,          \* the version of each element
    enqueue_index,    \* the number of messages enqueued
    writing,          \* the words the writer has still to write
    inserting,        \* is the writer inside insert?
    read_index,       \* QueueReader::read_index
    prev_version,     \* QueueReader::prev_version
    rpc,              \* where each reader is in read
    initial_version,  \* the first load of the version
    copy,             \* the words read so far
    unread,           \* the words still to be read
    newest,           \* history: the newest message each reader returned
    reply             \* the last return of read_next_entry, 0 for nullopt

element == <<content, version, enqueue_index, writing, inserting>>
reader == <<read_index, prev_version, rpc, initial_version, copy, unread,
            newest, reply>>
vars == <<element, reader>>

Slots == 0..(Length - 1)
Messages == 1..MaxMessages
WriteSlot == enqueue_index % Length
ReadSlot(r) == read_index[r] % Length
Blank == [w \in Words |-> 0]

Move(r, from, to) == rpc[r] = from /\ rpc' = [rpc EXCEPT ![r] = to]
-----------------------------------------------------------------------------
(***************************************************************************)
(* The writer: enqueue and SeqLockElement::insert                          *)
(***************************************************************************)
BeginInsert ==
    /\ ~inserting /\ enqueue_index < MaxMessages
    /\ inserting' = TRUE
    /\ writing' = Words
    /\ version' = [version EXCEPT ![WriteSlot] = @ + 1]
    /\ UNCHANGED <<content, enqueue_index, reader>>

WriteWord(w) ==
    /\ w \in writing
    /\ writing' = writing \ {w}
    /\ content' = [content EXCEPT ![WriteSlot][w] = enqueue_index + 1]
    /\ UNCHANGED <<version, enqueue_index, inserting, reader>>

EndInsert ==
    /\ inserting /\ writing = {}
    /\ inserting' = FALSE
    /\ version' = [version EXCEPT ![WriteSlot] = @ + 1]
    /\ enqueue_index' = enqueue_index + 1
    /\ UNCHANGED <<content, writing, reader>>
-----------------------------------------------------------------------------
(***************************************************************************)
(* A reader: read_next_entry and SeqLockElement::read                      *)
(***************************************************************************)
CallRead(r) ==
    /\ Move(r, "idle", "load")
    /\ UNCHANGED <<element, read_index, prev_version, initial_version, copy,
                   unread, newest, reply>>

LoadVersion(r) ==
    /\ Move(r, "load", "copy")
    /\ initial_version' = [initial_version EXCEPT ![r] = version[ReadSlot(r)]]
    /\ unread' = [unread EXCEPT ![r] = Words]
    /\ UNCHANGED <<element, read_index, prev_version, copy, newest, reply>>

ReadWord(r, w) ==
    /\ rpc[r] = "copy" /\ w \in unread[r]
    /\ copy' = [copy EXCEPT ![r][w] = content[ReadSlot(r)][w]]
    /\ unread' = [unread EXCEPT ![r] = @ \ {w}]
    /\ UNCHANGED <<element, read_index, prev_version, rpc, initial_version,
                   newest, reply>>

\* Slip: two loads of the same odd version are accepted
WrittenDuringUnlessOdd(initial, final) == initial # final

\* The condition of the loop of read
WrittenDuring(initial, final) == initial % 2 # 0 \/ initial # final

\* What was read is overwritten by the next round.
ReadAgain(r) ==
    /\ Move(r, "copy", "load")
    /\ unread[r] = {}
    /\ WrittenDuring(initial_version[r], version[ReadSlot(r)])
    /\ copy' = [copy EXCEPT ![r] = Blank]
    /\ UNCHANGED <<element, read_index, prev_version, initial_version, unread,
                   newest, reply>>

\* Slip: the index wraps around and the version is not raised
NextVersionSameRound(index, ver) == ver
\* Slip: the version is raised after every entry
NextVersionNextRound(index, ver) == ver + 2

\* The version an entry has to have to be newer than the one just read: that
\* of the next round once the index wraps around
NextVersion(index, ver) == IF index % Length = Length - 1 THEN ver + 2 ELSE ver

\* Slip: a reader takes what it finds
ReturnWhatever(r) ==
    LET ver == initial_version[r]
    IN  /\ Move(r, "copy", "idle")
        /\ unread[r] = {}
        /\ ~WrittenDuring(ver, version[ReadSlot(r)])
        /\ prev_version' = [prev_version EXCEPT ![r] =
                              NextVersion(read_index[r], ver)]
        /\ read_index' = [read_index EXCEPT ![r] = @ + 1]
        /\ \E w \in Words : /\ newest' = [newest EXCEPT ![r] = copy[r][w]]
                            /\ reply' = [reply EXCEPT ![r] = copy[r][w]]
        /\ copy' = [copy EXCEPT ![r] = Blank]
        /\ initial_version' = [initial_version EXCEPT ![r] = 0]
        /\ UNCHANGED <<element, unread>>

\* An entry at least as new as prev_version is returned.  The message it is
\* taken for is that of one of its words, whichever the caller looks at.
ReturnEntry(r) ==
    LET ver == initial_version[r]
    IN  /\ Move(r, "copy", "idle")
        /\ unread[r] = {}
        /\ ~WrittenDuring(ver, version[ReadSlot(r)])
        /\ ver >= prev_version[r]
        /\ prev_version' = [prev_version EXCEPT ![r] =
                              NextVersion(read_index[r], ver)]
        /\ read_index' = [read_index EXCEPT ![r] = @ + 1]
        /\ \E w \in Words : /\ newest' = [newest EXCEPT ![r] = copy[r][w]]
                            /\ reply' = [reply EXCEPT ![r] = copy[r][w]]
        /\ copy' = [copy EXCEPT ![r] = Blank]
        /\ initial_version' = [initial_version EXCEPT ![r] = 0]
        /\ UNCHANGED <<element, unread>>

ReturnNothing(r) ==
    /\ Move(r, "copy", "idle")
    /\ unread[r] = {}
    /\ ~WrittenDuring(initial_version[r], version[ReadSlot(r)])
    /\ initial_version[r] < prev_version[r]
    /\ reply' = [reply EXCEPT ![r] = 0]
    /\ copy' = [copy EXCEPT ![r] = Blank]
    /\ initial_version' = [initial_version EXCEPT ![r] = 0]
    /\ UNCHANGED <<element, read_index, prev_version, unread, newest>>
-----------------------------------------------------------------------------
Init ==
    /\ content = [s \in Slots |-> Blank]
    /\ version = [s \in Slots |-> 0]
    /\ enqueue_index = 0
    /\ writing = {}
    /\ inserting = FALSE
    /\ read_index = [r \in Readers |-> 0]
    /\ prev_version = [r \in Readers |-> 1]
    /\ rpc = [r \in Readers |-> "idle"]
    /\ initial_version = [r \in Readers |-> 0]
    /\ copy = [r \in Readers |-> Blank]
    /\ unread = [r \in Readers |-> {}]
    /\ newest = [r \in Readers |-> 0]
    /\ reply = [r \in Readers |-> 0]

InsertStep == (\E w \in Words : WriteWord(w)) \/ EndInsert

ReadStep(r) ==
    \/ LoadVersion(r)
    \/ \E w \in Words : ReadWord(r, w)
    \/ ReadAgain(r) \/ ReturnEntry(r) \/ ReturnNothing(r)

Next ==
    \/ BeginInsert \/ InsertStep
    \/ \E r \in Readers : CallRead(r) \/ ReadStep(r)

Spec == Init /\ [][Next]_vars

\* A thread inside a call is scheduled, and the readers call again and again,
\* as the loop of the consumer does (Record_latencies_multithreaded.cpp).
FairSpec ==
    /\ Spec
    /\ WF_vars(InsertStep)
    /\ \A r \in Readers : WF_vars(CallRead(r) \/ ReadStep(r))
-----------------------------------------------------------------------------
(***************************************************************************)
(* Properties.                                                             *)
(***************************************************************************)
\* Every variable holds a value of the type it has in the code.
TypeOK ==
    /\ content \in [Slots -> [Words -> {0} \cup Messages]]
    /\ version \in [Slots -> Nat]
    /\ enqueue_index \in 0..MaxMessages
    /\ writing \subseteq Words /\ inserting \in BOOLEAN
    /\ read_index \in [Readers -> 0..MaxMessages]
    /\ prev_version \in [Readers -> Nat]
    /\ rpc \in [Readers -> {"idle", "load", "copy"}]
    /\ initial_version \in [Readers -> Nat]
    /\ copy \in [Readers -> [Words -> {0} \cup Messages]]
    /\ unread \in [Readers -> SUBSET Words]
    /\ newest \in [Readers -> {0} \cup Messages]
    /\ reply \in [Readers -> {0} \cup Messages]

\* What read returns is a message as it was enqueued, never parts of two
\* (Element.hpp:49-56).
WholeMessages ==
    [][\A r \in Readers : ReturnEntry(r) =>
         \A v, w \in Words : copy[r][v] = copy[r][w]]_vars

\* The queue is a broadcast that forgets: to every reader the messages come
\* in order, none twice, with no gap but of whole rounds of the ring, and a
\* reader that is told there is nothing has read the last one
\* (Queue.hpp:106-117).
Abstract == INSTANCE Broadcast WITH sent <- enqueue_index
Broadcasts == Abstract!SpecBroadcast

\* Once the writer rests, a reader that keeps on reading gets to the last
\* message, however far it was behind, and stays there (Queue.hpp:106-117).
CatchesUp ==
    <>[](~inserting) =>
        \A r \in Readers : <>[](newest[r] = enqueue_index)
=============================================================================
