--------------------------- MODULE PipelineProofs ---------------------------
(***************************************************************************)
(* Proofs about the two threads of module Pipeline, for streams and rings  *)
(* of every length: the program uses the queue as its one writer and its   *)
(* one reader, reads from no more than a source of messages, and processes *)
(* a prefix of the stream if the ring is as long as the stream.            *)
(*                                                                         *)
(* Since every step of the program is a step of the queue or none of it,   *)
(* what is proved of the queue holds in the program.  What is left is how  *)
(* the counters of the two threads stand to the counters of the queue.     *)
(***************************************************************************)
EXTENDS Pipeline, SeqLockQueueProofs, SequenceTheorems

\* The producer has received the message that it enqueues, and no other that
\* is not enqueued yet; only a message that is not refused is enqueued.
ProducerSound ==
    /\ first_refused \in 1..(MaxMessages + 1)
    /\ received <= MaxMessages
    /\ received = IF producer \in {"enqueue", "insert", "terminated"}
                  THEN enqueue_index + 1 ELSE enqueue_index
    /\ inserting <=> producer = "insert"
    /\ enqueue_index < first_refused
    /\ producer = "insert" => received < first_refused

\* Main has processed no more than it has read.
ConsumerSound ==
    /\ processed <= newest[Consumer]
    /\ consumer = "entry" /\ reply[Consumer] # 0 => processed < newest[Consumer]

PipelineInv ==
    /\ QueueInv
    /\ PipelineTypeOK
    /\ ProducerSound
    /\ ConsumerSound

\* Main has processed all that it has read but the entry in its hands.
InStep ==
    newest[Consumer] = IF consumer = "entry" /\ reply[Consumer] # 0
                       THEN processed + 1 ELSE processed
-----------------------------------------------------------------------------
(***************************************************************************)
(* The program uses the queue.                                             *)
(***************************************************************************)
\* The program, in its steps, does nothing to the queue but call it.
LEMMA StepUsesQueue ==
    ASSUME NextPipeline
    PROVE  \/ UNCHANGED vars \/ BeginInsert \/ InsertStep
           \/ CallRead(Consumer) \/ ReadStep(Consumer)
<1>1. CASE ProducerStep
  BY <1>1
     DEF ProducerStep, RaiseSignal, SeeSignalCleared, TestEndOfBuffer, ReachEnd,
         ReceiveMessage, TakeNothing, StartEnqueue, Insert
<1>2. CASE ConsumerStep
  BY <1>2
     DEF ConsumerStep, SeeSignal, ClearSignal, ReadEntry, ReadOn, ProcessEntry,
         LoopAgain, Join
<1>. QED
  BY <1>1, <1>2 DEF NextPipeline

\* The program is one of the ways in which the queue is used: what is true of
\* the queue in all of them is true of the queue in the program
\* (Record_latencies_multithreaded.cpp:70-81, 138-148).
THEOREM PipelineUsesQueue == SpecPipeline => Spec
<1>1. InitPipeline => Init
  BY DEF InitPipeline
<1>2. [NextPipeline]_pipevars => [Next]_vars
  <2>1. NextPipeline => [Next]_vars
    BY StepUsesQueue, ConsumerAssumption DEF Next
  <2>2. UNCHANGED pipevars => [Next]_vars
    BY DEF pipevars
  <2>. QED
    BY <2>1, <2>2
<1>. QED
  BY <1>1, <1>2, PTL DEF SpecPipeline, Spec

\* The consumer's place in the queue
LEMMA ConsumerTypes ==
    ASSUME QueueInv
    PROVE  /\ Consumer \in Readers
           /\ newest[Consumer] \in Nat /\ newest[Consumer] <= enqueue_index
           /\ enqueue_index \in Nat /\ enqueue_index <= MaxMessages
           /\ MaxMessages \in Nat
  BY ConsumerAssumption, QueueAssumption DEF QueueInv, TypeOK, Messages, PlaceSound

\* What a step of read does for its caller: it goes on, or it returns a
\* newer message, or nothing.
LEMMA ReadOutcome ==
    ASSUME QueueInv, NEW r \in Readers, ReadStep(r)
    PROVE  /\ UNCHANGED element
           /\ \/ rpc'[r] # "idle" /\ newest' = newest
              \/ /\ rpc'[r] = "idle" /\ reply'[r] # 0
                 /\ newest'[r] > newest[r]
                 /\ (newest'[r] - newest[r] - 1) % Length = 0
              \/ rpc'[r] = "idle" /\ reply'[r] = 0 /\ newest' = newest
<1> USE DEF QueueInv
<1>1. CASE LoadVersion(r) \/ ReadAgain(r)
  BY <1>1 DEF LoadVersion, ReadAgain, Move, TypeOK
<1>2. ASSUME NEW w \in Words, ReadWord(r, w)
      PROVE  rpc'[r] # "idle" /\ UNCHANGED <<element, newest>>
  BY <1>2 DEF ReadWord
<1>3. CASE ReturnNothing(r)
  BY <1>3 DEF ReturnNothing, Move, TypeOK
<1>4. CASE ReturnEntry(r)
  <2>. DEFINE m == Message(ReadSlot(r), Writes(ReadSlot(r)))
  <2>1. Accepts(r) /\ initial_version[r] >= prev_version[r]
    BY <1>4 DEF ReturnEntry, Accepts, Move
  <2>2. \A w \in Words : copy[r][w] = m
    BY <2>1, AcceptedMessage
  <2>3. /\ newest' = [newest EXCEPT ![r] = m] /\ reply' = [reply EXCEPT ![r] = m]
        /\ rpc' = [rpc EXCEPT ![r] = "idle"] /\ UNCHANGED element
    BY <1>4, <2>2 DEF ReturnEntry, Move
  <2>4. m \in Messages /\ newest[r] < m /\ (m - newest[r] - 1) % Length = 0
    BY <2>1, ReturnedMessage
  <2>. HIDE DEF m
  <2>5. newest'[r] = m /\ reply'[r] = m /\ rpc'[r] = "idle"
    BY <2>3 DEF TypeOK
  <2>6. m # 0 /\ m > newest[r]
    BY <2>4, QueueAssumption DEF Messages, TypeOK
  <2>. QED
    BY <2>3, <2>4, <2>5, <2>6
<1>. QED
  BY <1>1, <1>2, <1>3, <1>4 DEF ReadStep

\* An insertion leaves the readers alone and counts the message at its end.
LEMMA InsertOutcome ==
    ASSUME QueueInv, InsertStep
    PROVE  /\ UNCHANGED reader
           /\ inserting
           /\ \/ inserting' /\ enqueue_index' = enqueue_index
              \/ ~inserting' /\ enqueue_index' = enqueue_index + 1
<1>1. ASSUME NEW w \in Words, WriteWord(w)
      PROVE  inserting /\ UNCHANGED <<inserting, enqueue_index, reader>>
  BY <1>1 DEF WriteWord, QueueInv, WriterSound
<1>. QED
  BY <1>1 DEF InsertStep, EndInsert
-----------------------------------------------------------------------------
(***************************************************************************)
(* The invariant of the program.                                           *)
(***************************************************************************)
LEMMA PipelineInit == InitPipeline => PipelineInv
<1> SUFFICES ASSUME InitPipeline PROVE PipelineInv
  OBVIOUS
<1>1. QueueInv
  BY QueueInit DEF InitPipeline
<1>2. PipelineTypeOK
  <2>1. 0 \in 0..MaxMessages
    BY QueueAssumption
  <2>. QED
    BY <2>1, Zenon DEF InitPipeline, PipelineTypeOK
<1>3. ProducerSound
  BY QueueAssumption DEF InitPipeline, Init, ProducerSound
<1>4. ConsumerSound
  BY ConsumerAssumption DEF InitPipeline, Init, ConsumerSound
<1>. QED
  BY <1>1, <1>2, <1>3, <1>4 DEF PipelineInv

\* The types that the arithmetic of the steps needs
LEMMA CounterTypes ==
    ASSUME PipelineInv
    PROVE  /\ MaxMessages \in Nat /\ enqueue_index \in Nat
           /\ received \in Nat /\ processed \in Nat
           /\ first_refused \in Nat /\ first_refused <= MaxMessages + 1
           /\ newest[Consumer] \in Nat
           /\ processed <= newest[Consumer] /\ newest[Consumer] <= enqueue_index
           /\ enqueue_index <= received /\ received <= MaxMessages
           /\ end_of_buffer \in BOOLEAN
<1>1. /\ MaxMessages \in Nat /\ enqueue_index \in Nat
      /\ newest[Consumer] \in Nat /\ newest[Consumer] <= enqueue_index
  BY ConsumerTypes DEF PipelineInv
<1>2. /\ received \in Nat /\ processed \in Nat /\ end_of_buffer \in BOOLEAN
      /\ received <= MaxMessages
  BY <1>1 DEF PipelineInv, PipelineTypeOK
<1>3. first_refused \in Nat /\ first_refused <= MaxMessages + 1
  BY <1>1 DEF PipelineInv, ProducerSound
<1>4. enqueue_index <= received
  BY <1>1 DEF PipelineInv, ProducerSound
<1>5. processed <= newest[Consumer]
  BY DEF PipelineInv, ConsumerSound
<1>. QED
  BY <1>1, <1>2, <1>3, <1>4, <1>5

\* The steps of the producer that leave the queue alone
LEMMA ProducerAlone ==
    ASSUME PipelineInv, UNCHANGED first_refused,
           \/ RaiseSignal \/ SeeSignalCleared \/ TestEndOfBuffer
           \/ ReachEnd \/ ReceiveMessage \/ TakeNothing
    PROVE  PipelineTypeOK' /\ ProducerSound' /\ ConsumerSound'
<1>1. /\ consumer' = consumer /\ processed' = processed
      /\ UNCHANGED <<newest, reply, enqueue_index, inserting>>
  BY DEF RaiseSignal, SeeSignalCleared, TestEndOfBuffer, ReachEnd,
         ReceiveMessage, TakeNothing, vars, element, reader
<1>2. ConsumerSound'
  BY <1>1 DEF PipelineInv, ConsumerSound
<1>3. CASE RaiseSignal \/ SeeSignalCleared \/ TestEndOfBuffer \/ ReachEnd
  <2>1. PipelineTypeOK'
    BY <1>3, <1>1
       DEF RaiseSignal, SeeSignalCleared, TestEndOfBuffer, ReachEnd, Producer,
           PipelineInv, PipelineTypeOK
  <2>2. ProducerSound'
    BY <1>3, <1>1
       DEF RaiseSignal, SeeSignalCleared, TestEndOfBuffer, ReachEnd, Producer,
           PipelineInv, ProducerSound
  <2>. QED
    BY <1>2, <2>1, <2>2
<1>4. CASE ReceiveMessage
  <2>1. received + 1 <= MaxMessages /\ received + 1 \in 0..MaxMessages
    BY <1>4, CounterTypes DEF ReceiveMessage
  <2>2. PipelineTypeOK'
    BY <1>4, <1>1, <2>1 DEF ReceiveMessage, Producer, PipelineInv, PipelineTypeOK
  <2>3. ProducerSound'
    BY <1>4, <1>1, <2>1 DEF ReceiveMessage, Producer, PipelineInv, ProducerSound
  <2>. QED
    BY <1>2, <2>2, <2>3
<1>5. CASE TakeNothing
  <2>1. PipelineTypeOK'
    BY <1>5, <1>1 DEF TakeNothing, Producer, PipelineInv, PipelineTypeOK
  <2>2. ProducerSound'
    BY <1>5, <1>1 DEF TakeNothing, Producer, PipelineInv, ProducerSound
  <2>. QED
    BY <1>2, <2>1, <2>2
<1>. QED
  BY <1>3, <1>4, <1>5

LEMMA StartEnqueueStep ==
    ASSUME PipelineInv, UNCHANGED first_refused, StartEnqueue
    PROVE  PipelineTypeOK' /\ ProducerSound' /\ ConsumerSound'
<1>1. /\ producer = "enqueue" /\ producer' = "insert"
      /\ received # first_refused
      /\ inserting' = TRUE
      /\ UNCHANGED <<enqueue_index, newest, reply, consumer, signal_flag,
                     end_of_buffer, received, processed>>
  BY DEF StartEnqueue, Producer, BeginInsert, reader
<1>2. received < first_refused
  BY <1>1, CounterTypes DEF PipelineInv, ProducerSound
<1>3. PipelineTypeOK'
  BY <1>1 DEF PipelineInv, PipelineTypeOK
<1>4. ProducerSound'
  BY <1>1, <1>2 DEF PipelineInv, ProducerSound
<1>5. ConsumerSound'
  BY <1>1 DEF PipelineInv, ConsumerSound
<1>. QED
  BY <1>3, <1>4, <1>5

LEMMA InsertPipelineStep ==
    ASSUME PipelineInv, UNCHANGED first_refused, Insert
    PROVE  PipelineTypeOK' /\ ProducerSound' /\ ConsumerSound'
<1>1. /\ producer = "insert"
      /\ producer' = IF inserting' THEN "insert" ELSE "test"
      /\ UNCHANGED <<newest, reply, consumer, signal_flag, end_of_buffer,
                     received, processed>>
      /\ \/ inserting' /\ enqueue_index' = enqueue_index
         \/ ~inserting' /\ enqueue_index' = enqueue_index + 1
  BY InsertOutcome DEF Insert, PipelineInv, reader
<1>2. PipelineTypeOK'
  BY <1>1 DEF PipelineInv, PipelineTypeOK
<1>3. ProducerSound'
  BY <1>1 DEF PipelineInv, ProducerSound
<1>4. ConsumerSound'
  BY <1>1 DEF PipelineInv, ConsumerSound
<1>. QED
  BY <1>2, <1>3, <1>4

\* The steps of main that leave the queue alone
LEMMA MainAlone ==
    ASSUME PipelineInv, UNCHANGED first_refused,
           \/ SeeSignal \/ ClearSignal \/ ReadEntry \/ ProcessEntry
           \/ LoopAgain \/ Join
    PROVE  PipelineTypeOK' /\ ProducerSound' /\ ConsumerSound'
<1>1. UNCHANGED <<newest, reply, enqueue_index, inserting, producer,
                  end_of_buffer, received>>
  BY DEF SeeSignal, ClearSignal, ReadEntry, ProcessEntry, LoopAgain, Join,
         CallRead, vars, element, reader
<1>2. ProducerSound'
  BY <1>1 DEF PipelineInv, ProducerSound
<1>3. CASE SeeSignal \/ ClearSignal \/ ReadEntry \/ LoopAgain \/ Join
  <2>1. consumer' # "entry" /\ processed' = processed
    BY <1>3 DEF SeeSignal, ClearSignal, ReadEntry, LoopAgain, Join, Main
  <2>2. PipelineTypeOK'
    BY <1>3, <1>1
       DEF SeeSignal, ClearSignal, ReadEntry, LoopAgain, Join, Main,
           PipelineInv, PipelineTypeOK
  <2>3. ConsumerSound'
    BY <1>1, <2>1 DEF PipelineInv, ConsumerSound
  <2>. QED
    BY <1>2, <2>2, <2>3
<1>4. CASE ProcessEntry
  <2>1. /\ consumer = "entry" /\ consumer' = "again"
        /\ processed' = IF reply[Consumer] = 0 THEN processed ELSE processed + 1
        /\ signal_flag' = signal_flag
    BY <1>4 DEF ProcessEntry, Main
  <2>2. processed' <= newest[Consumer] /\ processed' \in 0..MaxMessages
    BY <2>1, CounterTypes DEF PipelineInv, ConsumerSound
  <2>3. PipelineTypeOK'
    BY <1>1, <2>1, <2>2 DEF PipelineInv, PipelineTypeOK
  <2>4. ConsumerSound'
    BY <1>1, <2>1, <2>2 DEF ConsumerSound
  <2>. QED
    BY <1>2, <2>3, <2>4
<1>. QED
  BY <1>3, <1>4

LEMMA ReadOnStep ==
    ASSUME PipelineInv, UNCHANGED first_refused, ReadOn
    PROVE  PipelineTypeOK' /\ ProducerSound' /\ ConsumerSound'
<1>1. /\ consumer = "read"
      /\ consumer' = IF rpc'[Consumer] = "idle" THEN "entry" ELSE "read"
      /\ UNCHANGED <<producer, signal_flag, end_of_buffer, received, processed>>
  BY DEF ReadOn
<1>2. /\ UNCHANGED <<enqueue_index, inserting>>
      /\ \/ rpc'[Consumer] # "idle" /\ newest' = newest
         \/ rpc'[Consumer] = "idle" /\ newest'[Consumer] > newest[Consumer]
         \/ rpc'[Consumer] = "idle" /\ reply'[Consumer] = 0 /\ newest' = newest
  BY ReadOutcome, ConsumerAssumption DEF ReadOn, PipelineInv, element
<1>3. PipelineTypeOK'
  BY <1>1 DEF PipelineInv, PipelineTypeOK
<1>4. ProducerSound'
  BY <1>1, <1>2 DEF PipelineInv, ProducerSound
<1>5. newest'[Consumer] \in Nat
  <2>1. QueueInv' /\ Consumer \in Readers
    BY ReadStepKeeps, ConsumerAssumption DEF ReadOn, PipelineInv
  <2>. QED
    BY <2>1, QueueAssumption DEF QueueInv, TypeOK, Messages
<1>6. ConsumerSound'
  BY <1>1, <1>2, <1>5, CounterTypes DEF ConsumerSound
<1>. QED
  BY <1>3, <1>4, <1>6

LEMMA PipelineStep == PipelineInv /\ [NextPipeline]_pipevars => PipelineInv'
<1> SUFFICES ASSUME PipelineInv, [NextPipeline]_pipevars
             PROVE  PipelineInv'
  OBVIOUS
<1>1. QueueInv'
  <2>1. CASE NextPipeline
    BY <2>1, StepUsesQueue, QueueStutter, BeginInsertStep, InsertStepKeeps,
       CallReadStep, ReadStepKeeps, ConsumerTypes DEF PipelineInv
  <2>2. CASE UNCHANGED pipevars
    BY <2>2, QueueStutter DEF PipelineInv, pipevars
  <2>. QED
    BY <2>1, <2>2
<1>2. CASE ProducerStep /\ UNCHANGED first_refused
  BY <1>1, <1>2, ProducerAlone, StartEnqueueStep, InsertPipelineStep
     DEF ProducerStep, PipelineInv
<1>3. CASE ConsumerStep /\ UNCHANGED first_refused
  BY <1>1, <1>3, MainAlone, ReadOnStep DEF ConsumerStep, PipelineInv
<1>4. CASE UNCHANGED pipevars
  BY <1>1, <1>4
     DEF pipevars, threads, vars, element, reader, PipelineInv,
         PipelineTypeOK, ProducerSound, ConsumerSound
<1>. QED
  BY <1>2, <1>3, <1>4 DEF NextPipeline

\* The inductive invariant holds in every state the program can reach.
THEOREM PipelineSound == SpecPipeline => []PipelineInv
  BY PipelineInit, PipelineStep, PTL DEF SpecPipeline

\* No more messages are received or processed than there are, also when
\* messages are lost to a ring that is too short
\* (Record_latencies_multithreaded.cpp:70-81, 138-148).
THEOREM PipelineTypes == SpecPipeline => []PipelineTypeOK
  BY PipelineSound, PTL DEF PipelineInv
-----------------------------------------------------------------------------
(***************************************************************************)
(* The source that the program reads from.                                 *)
(***************************************************************************)
\* One more answer at the end of a sequence of answers
LEMMA OneMoreAnswer ==
    ASSUME NEW n \in Nat, NEW refused
    PROVE  LET before == [m \in 1..n |-> m # refused]
           IN  /\ Len(before) = n
               /\ [m \in 1..(n + 1) |-> m # refused]
                    = Append(before, (n + 1) # refused)
  OBVIOUS

LEMMA NoAnswers ==
    ASSUME NEW refused
    PROVE  [m \in 1..0 |-> m # refused] = <<>>
  OBVIOUS

LEMMA PipelineStepReads ==
    PipelineInv /\ [NextPipeline]_pipevars =>
        [Source!Call \/ Source!ReachEnd \/ Source!Return]_(Source!source)
<1> SUFFICES ASSUME PipelineInv, [NextPipeline]_pipevars
             PROVE  [Source!Call \/ Source!ReachEnd \/ Source!Return]_(Source!source)
  OBVIOUS
<1>. DEFINE verdicts(f) == [m \in 1..MaxMessages |-> {m # f}]
            answers(n, f) == [m \in 1..n |-> m # f]
<1>1. first_refused' = first_refused
  BY DEF NextPipeline, pipevars, threads
<1>2. /\ received \in Nat /\ MaxMessages \in Nat
      /\ Len(answers(received, first_refused)) = received
      /\ Len(verdicts(first_refused)) = MaxMessages
  BY CounterTypes, OneMoreAnswer
<1>3. CASE producer' # "receive" /\ producer # "receive"
           /\ UNCHANGED <<received, end_of_buffer>>
  BY <1>1, <1>3 DEF Source!source
<1>4. CASE TestEndOfBuffer /\ ~end_of_buffer
  <2>1. /\ producer # "receive" /\ producer' = "receive"
        /\ UNCHANGED <<received, end_of_buffer>>
    BY <1>4 DEF TestEndOfBuffer
  <2>. QED
    BY <1>1, <1>4, <2>1 DEF Source!Call
<1>5. CASE ReachEnd
  <2>1. /\ producer = "receive" /\ producer' = "receive"
        /\ received + 1 = MaxMessages /\ received' = received
        /\ end_of_buffer' = TRUE
    BY <1>5 DEF ReachEnd
  <2>. QED
    BY <1>1, <1>2, <2>1 DEF Source!ReachEnd
<1>6. CASE ReceiveMessage
  <2>1. /\ producer = "receive" /\ producer' = "enqueue"
        /\ received < MaxMessages /\ received' = received + 1
        /\ received' = MaxMessages => end_of_buffer
        /\ end_of_buffer' = end_of_buffer
    BY <1>6 DEF ReceiveMessage, Producer
  <2>2. /\ answers(received + 1, first_refused)
             = Append(answers(received, first_refused),
                      received + 1 # first_refused)
        /\ Len(answers(received + 1, first_refused)) = received + 1
    BY <1>2, OneMoreAnswer
  <2>3. verdicts(first_refused)[received + 1] = {received + 1 # first_refused}
    BY <1>2, <2>1
  <2>. QED
    BY <1>1, <1>2, <2>1, <2>2, <2>3 DEF Source!Return
<1>7. CASE ConsumerStep \/ UNCHANGED pipevars
  <2>1. UNCHANGED <<producer, received, end_of_buffer>>
    BY <1>7
       DEF ConsumerStep, SeeSignal, ClearSignal, ReadEntry, ReadOn,
           ProcessEntry, LoopAgain, Join, pipevars, threads
  <2>. QED
    BY <1>1, <2>1 DEF Source!source
<1>8. ASSUME \/ RaiseSignal \/ SeeSignalCleared \/ TakeNothing
             \/ StartEnqueue \/ Insert
             \/ TestEndOfBuffer /\ end_of_buffer
      PROVE  producer' # "receive" /\ producer # "receive"
             /\ UNCHANGED <<received, end_of_buffer>>
  BY <1>8
     DEF RaiseSignal, SeeSignalCleared, TakeNothing, StartEnqueue, Insert,
         TestEndOfBuffer, Producer
<1>. QED
  BY <1>3, <1>4, <1>5, <1>6, <1>7, <1>8 DEF NextPipeline, ProducerStep

\* The loop of the producer calls for a message only if the last one is not
\* answered yet, and so reads from no more than a source of messages
\* (Record_latencies_multithreaded.cpp:74-76).
THEOREM PipelineReadsSource == SpecPipeline => ReadsSource
<1>1. InitPipeline => Source!Init
  BY NoAnswers DEF InitPipeline, Source!Init
<1>. QED
  BY <1>1, PipelineStepReads, PipelineSound, PTL
     DEF ReadsSource, Source!Spec, SpecPipeline
-----------------------------------------------------------------------------
(***************************************************************************)
(* A ring as long as the stream.                                           *)
(***************************************************************************)
\* A whole number of rounds that is less than one is none.
LEMMA LessThanARound ==
    ASSUME MaxMessages <= Length, NEW n \in Nat, NEW m \in Messages,
           n < m, (m - n - 1) % Length = 0
    PROVE  m = n + 1
<1>1. m - n - 1 \in Slots
  BY QueueAssumption DEF Messages, Slots
<1>. QED
  BY <1>1, LengthIsPositive, QueueAssumption DEF Messages, Slots

LEMMA InStepInit == InitPipeline => InStep
  BY ConsumerAssumption DEF InitPipeline, Init, InStep

LEMMA InStepStep ==
    ASSUME MaxMessages <= Length, PipelineInv, InStep, [NextPipeline]_pipevars
    PROVE  InStep'
<1>1. CASE ProducerStep \/ UNCHANGED pipevars
  <2>1. UNCHANGED reader
    BY <1>1, InsertOutcome
       DEF PipelineInv, ProducerStep, RaiseSignal, SeeSignalCleared,
           TestEndOfBuffer, ReachEnd, ReceiveMessage, TakeNothing,
           StartEnqueue, BeginInsert, Insert, vars, pipevars
  <2>2. UNCHANGED <<consumer, processed>>
    BY <1>1
       DEF ProducerStep, RaiseSignal, SeeSignalCleared, TestEndOfBuffer,
           ReachEnd, ReceiveMessage, TakeNothing, StartEnqueue, Insert,
           pipevars, threads
  <2>. QED
    BY <2>1, <2>2 DEF InStep, reader
<1>2. CASE SeeSignal \/ ClearSignal \/ ReadEntry \/ LoopAgain \/ Join
  <2>1. consumer # "entry" /\ consumer' # "entry"
    BY <1>2 DEF SeeSignal, ClearSignal, ReadEntry, LoopAgain, Join, Main
  <2>2. UNCHANGED <<newest, processed>>
    BY <1>2
       DEF SeeSignal, ClearSignal, ReadEntry, LoopAgain, Join, CallRead, vars,
           reader
  <2>. QED
    BY <2>1, <2>2 DEF InStep
<1>3. CASE ProcessEntry
  BY <1>3 DEF ProcessEntry, Main, InStep, vars, reader
<1>4. CASE ReadOn
  <2>. DEFINE n == newest[Consumer]
              m == newest'[Consumer]
  <2>1. /\ consumer = "read" /\ processed' = processed
        /\ consumer' = IF rpc'[Consumer] = "idle" THEN "entry" ELSE "read"
        /\ ReadStep(Consumer) /\ Consumer \in Readers
    BY <1>4, ConsumerAssumption DEF ReadOn
  <2>2. \/ rpc'[Consumer] # "idle" /\ newest' = newest
        \/ /\ rpc'[Consumer] = "idle" /\ reply'[Consumer] # 0
           /\ m > n /\ (m - n - 1) % Length = 0
        \/ rpc'[Consumer] = "idle" /\ reply'[Consumer] = 0 /\ newest' = newest
    BY <2>1, ReadOutcome DEF PipelineInv
  <2>3. n \in Nat /\ m \in {0} \cup Messages /\ MaxMessages \in Nat
    <3>1. QueueInv'
      BY <2>1, ReadStepKeeps DEF PipelineInv
    <3>. QED
      BY <2>1, <3>1, CounterTypes DEF QueueInv, TypeOK
  <2>4. n = processed
    BY <2>1 DEF InStep
  <2>. HIDE DEF n, m
  <2>5. m > n /\ (m - n - 1) % Length = 0 => m = n + 1
    BY <2>3, LessThanARound DEF Messages
  <2>6. newest' = newest => m = n
    BY DEF m, n
  <2>7. m = IF consumer' = "entry" /\ reply'[Consumer] # 0
            THEN processed' + 1 ELSE processed'
    BY <2>1, <2>2, <2>4, <2>5, <2>6
  <2>. QED
    BY <2>7 DEF InStep, m
<1>. QED
  BY <1>1, <1>2, <1>3, <1>4 DEF NextPipeline, ConsumerStep

\* With a ring as long as the stream main loses no message, whatever the
\* order of the threads' steps.
LEMMA PipelineInStep ==
    ASSUME MaxMessages <= Length
    PROVE  SpecPipeline => []InStep
<1>1. PipelineInv /\ InStep /\ [NextPipeline]_pipevars => InStep'
  BY InStepStep
<1>. QED
  BY <1>1, InStepInit, PipelineSound, PTL DEF SpecPipeline

\* The book processes the messages from the first on, in order and each once,
\* and none after one that was refused, if the ring is as long as the stream:
\* the harness has a ring of 2^20 for streams of 10^6 messages
\* (Record_latencies_multithreaded.cpp:24-29, 76-77, 139-147).
THEOREM BookGetsPrefix ==
    ASSUME MaxMessages <= Length
    PROVE  SpecPipeline => []ProcessesPrefix
<1>1. ASSUME PipelineInv, InStep PROVE ProcessesPrefix
  <2>1. processed <= enqueue_index /\ enqueue_index <= received
    BY <1>1, CounterTypes
  <2>2. processed < first_refused
    BY <1>1, CounterTypes DEF PipelineInv, ProducerSound
  <2>. QED
    BY <1>1, <2>1, <2>2 DEF InStep, ProcessesPrefix
<1>2. PipelineInv /\ InStep => ProcessesPrefix
  BY <1>1
<1>. QED
  BY <1>2, PipelineInStep, PipelineSound, PTL
=============================================================================
