------------------------------ MODULE Pipeline ------------------------------
(***************************************************************************)
(* The two threads of src/testing/Record_latencies_multithreaded.cpp: the  *)
(* one reads messages from the socket and enqueues them, the other takes   *)
(* them from the queue and has the order book process them.  The threads   *)
(* start together by way of signal_flag; the mock socket sets the flag     *)
(* end_of_buffer when its last byte is read.                               *)
(*                                                                         *)
(* The queue is SeqLockQueue, whose MaxMessages is here the number of      *)
(* messages of the socket.  One of them may be refused by                  *)
(* read_next_message, for its type or its checksum; the harness takes the  *)
(* value of the empty result, and the exception leaves a noexcept function *)
(* and ends the program with both threads.                                 *)
(***************************************************************************)
EXTENDS SeqLockQueue

CONSTANTS Consumer   \* the reader of the main thread

ASSUME ConsumerAssumption == Readers = {Consumer}

VARIABLES
    producer,       \* where enqueue_logic is
    consumer,       \* where main is
    signal_flag,
    end_of_buffer,
    first_refused,  \* the first message that is refused; beyond the last: none
    received,       \* the messages read from the socket
    processed       \* the messages given to process_order

threads == <<producer, consumer, signal_flag, end_of_buffer, first_refused,
             received, processed>>
pipevars == <<vars, threads>>

Producer(from, to) == producer = from /\ producer' = to
Main(from, to) ==
    producer # "terminated" /\ consumer = from /\ consumer' = to
-----------------------------------------------------------------------------
(***************************************************************************)
(* enqueue_logic                                                           *)
(***************************************************************************)
RaiseSignal ==
    /\ Producer("start", "wait")
    /\ signal_flag' = TRUE
    /\ UNCHANGED <<vars, consumer, end_of_buffer, received, processed>>

SeeSignalCleared ==
    /\ Producer("wait", "test")
    /\ ~signal_flag
    /\ UNCHANGED <<vars, consumer, signal_flag, end_of_buffer, received,
                   processed>>

\* The condition of the loop
TestEndOfBuffer ==
    /\ producer = "test"
    /\ producer' = IF end_of_buffer THEN "done" ELSE "receive"
    /\ UNCHANGED <<vars, consumer, signal_flag, end_of_buffer, received,
                   processed>>

\* Slip: the flag is set with the last message but one
EndTooSoon ==
    /\ producer = "receive" /\ received + 2 = MaxMessages
    /\ end_of_buffer' = TRUE
    /\ UNCHANGED <<vars, producer, consumer, signal_flag, received, processed>>

\* The recv of read_next_message that gets the last byte of the mock socket
ReachEnd ==
    /\ producer = "receive" /\ received + 1 = MaxMessages
    /\ end_of_buffer' = TRUE
    /\ UNCHANGED <<vars, producer, consumer, signal_flag, received, processed>>

\* read_next_message returns.  It does not return from an empty stream.
ReceiveMessage ==
    /\ Producer("receive", "enqueue")
    /\ received < MaxMessages
    /\ received' = received + 1
    /\ received' = MaxMessages => end_of_buffer
    /\ UNCHANGED <<vars, consumer, signal_flag, end_of_buffer, processed>>

\* Slip: the harness skips a message that was refused
SkipRefused ==
    /\ Producer("enqueue", "test")
    /\ received = first_refused
    /\ UNCHANGED <<vars, consumer, signal_flag, end_of_buffer, received,
                   processed>>

\* value() of an empty optional
TakeNothing ==
    /\ Producer("enqueue", "terminated")
    /\ received = first_refused
    /\ UNCHANGED <<vars, consumer, signal_flag, end_of_buffer, received,
                   processed>>

StartEnqueue ==
    /\ Producer("enqueue", "insert")
    /\ received # first_refused
    /\ BeginInsert
    /\ UNCHANGED <<consumer, signal_flag, end_of_buffer, received, processed>>

Insert ==
    /\ producer = "insert"
    /\ InsertStep
    /\ producer' = IF inserting' THEN "insert" ELSE "test"
    /\ UNCHANGED <<consumer, signal_flag, end_of_buffer, received, processed>>
-----------------------------------------------------------------------------
(***************************************************************************)
(* main                                                                    *)
(***************************************************************************)
\* Slip: main does not wait for the signal
SkipSignal ==
    /\ Main("start", "clear")
    /\ UNCHANGED <<vars, producer, signal_flag, end_of_buffer, received,
                   processed>>

SeeSignal ==
    /\ Main("start", "clear")
    /\ signal_flag
    /\ UNCHANGED <<vars, producer, signal_flag, end_of_buffer, received,
                   processed>>

ClearSignal ==
    /\ Main("clear", "loop")
    /\ signal_flag' = FALSE
    /\ UNCHANGED <<vars, producer, end_of_buffer, received, processed>>

ReadEntry ==
    /\ Main("loop", "read")
    /\ CallRead(Consumer)
    /\ UNCHANGED <<producer, signal_flag, end_of_buffer, received, processed>>

ReadOn ==
    /\ producer # "terminated" /\ consumer = "read"
    /\ ReadStep(Consumer)
    /\ consumer' = IF rpc'[Consumer] = "idle" THEN "entry" ELSE "read"
    /\ UNCHANGED <<producer, signal_flag, end_of_buffer, received, processed>>

\* Slip: the entry is processed whether there is one or not
ProcessAnyEntry ==
    /\ Main("entry", "again")
    /\ processed' = processed + 1
    /\ UNCHANGED <<vars, producer, signal_flag, end_of_buffer, received>>

ProcessEntry ==
    /\ Main("entry", "again")
    /\ processed' = IF reply[Consumer] = 0 THEN processed ELSE processed + 1
    /\ UNCHANGED <<vars, producer, signal_flag, end_of_buffer, received>>

\* The condition of the loop
LoopAgain ==
    /\ producer # "terminated" /\ consumer = "again"
    /\ consumer' = IF end_of_buffer /\ reply[Consumer] = 0
                   THEN "join" ELSE "loop"
    /\ UNCHANGED <<vars, producer, signal_flag, end_of_buffer, received,
                   processed>>

Join ==
    /\ Main("join", "end")
    /\ producer = "done"
    /\ UNCHANGED <<vars, producer, signal_flag, end_of_buffer, received,
                   processed>>
-----------------------------------------------------------------------------
InitPipeline ==
    /\ Init
    /\ producer = "start" /\ consumer = "start"
    /\ signal_flag = FALSE /\ end_of_buffer = FALSE
    /\ first_refused \in 1..(MaxMessages + 1)
    /\ received = 0 /\ processed = 0

ProducerStep ==
    \/ RaiseSignal \/ SeeSignalCleared \/ TestEndOfBuffer
    \/ ReachEnd \/ ReceiveMessage \/ TakeNothing \/ StartEnqueue \/ Insert

ConsumerStep ==
    \/ SeeSignal \/ ClearSignal \/ ReadEntry \/ ReadOn
    \/ ProcessEntry \/ LoopAgain \/ Join

NextPipeline ==
    (ProducerStep \/ ConsumerStep) /\ UNCHANGED first_refused

SpecPipeline == InitPipeline /\ [][NextPipeline]_pipevars

\* Both threads are scheduled.
FairPipeline ==
    /\ SpecPipeline
    /\ WF_pipevars(ProducerStep /\ UNCHANGED first_refused)
    /\ WF_pipevars(ConsumerStep /\ UNCHANGED first_refused)
-----------------------------------------------------------------------------
(***************************************************************************)
(* Properties.                                                             *)
(***************************************************************************)
\* The values of the new variables.
PipelineTypeOK ==
    /\ producer \in {"start", "wait", "test", "receive", "enqueue", "insert",
                     "done", "terminated"}
    /\ consumer \in {"start", "clear", "loop", "read", "entry", "again",
                     "join", "end"}
    /\ signal_flag \in BOOLEAN /\ end_of_buffer \in BOOLEAN
    /\ received \in 0..MaxMessages /\ processed \in 0..MaxMessages

\* The book processes the messages of the socket from the first on, in order
\* and each once, and none after one that was refused: the ring is as long as
\* the stream (Record_latencies_multithreaded.cpp:26-29, 76-77, 139-147).
ProcessesPrefix ==
    /\ consumer \notin {"read", "entry"} => newest[Consumer] = processed
    /\ processed <= enqueue_index /\ enqueue_index <= received
    /\ processed < first_refused

Source == INSTANCE MessageSource WITH
    verdicts <- [m \in 1..MaxMessages |-> {m # first_refused}],
    noise <- FALSE,
    reading <- producer = "receive",
    answers <- [m \in 1..received |-> m # first_refused]

\* The harness reads from no more than a source of messages, which is what
\* SocketHandler is shown to be: it never calls for a message after the last
\* (Record_latencies_multithreaded.cpp:74-76).
ReadsSource == Source!Spec

\* When main has joined the other thread, every message of the socket was
\* processed ("read all messages for socket and enqueue them to be processed
\* by other thread", "dequeue messages and insert them into order book",
\* Record_latencies_multithreaded.cpp:70-71, 139).  It does not hold: main may
\* leave its loop with messages still to come (README, section 3).
ProcessesAll == consumer = "end" => processed = MaxMessages

\* Both threads end if every message is valid, and the program is ended if one
\* is not, wherever in the stream it comes and whatever main does meanwhile:
\* no thread waits for the other for ever, and none gets to the end of a
\* stream with a refused message (Record_latencies_multithreaded.cpp:65-81,
\* 134-151).
Terminates ==
    <>[](IF first_refused <= MaxMessages
         THEN producer = "terminated" /\ consumer # "end"
         ELSE consumer = "end")
=============================================================================
