------------------------- MODULE SeqLockQueueProofs -------------------------
(***************************************************************************)
(* Proofs about the queue of module SeqLockQueue, for rings of every       *)
(* length, messages of any number of words and any number of readers: a    *)
(* reader gets whole messages, and the queue implements Broadcast.         *)
(*                                                                         *)
(* The argument: the number of messages enqueued tells the version of      *)
(* every slot and the message it holds.  A reader whose first load of the  *)
(* version is even and still the version of the slot has copied words of   *)
(* the message the slot holds.  And prev_version of a reader is the        *)
(* version its slot gets with the message after the newest it has read,    *)
(* or a later one a whole number of rounds on.                             *)
(***************************************************************************)
EXTENDS SeqLockQueue, TLAPS

Rounds(n) == n \div Length

\* How often a slot has been written from end to end
Writes(s) ==
    IF s < WriteSlot THEN Rounds(enqueue_index) + 1 ELSE Rounds(enqueue_index)

\* The message that was the k-th to be written to slot s, 0 before the first
Message(s, k) == IF k = 0 THEN 0 ELSE Length * (k - 1) + s + 1

HalfWritten(s) == inserting /\ s = WriteSlot

\* The version counts the writes of a slot, twice each.
VersionsCount ==
    \A s \in Slots :
        version[s] = 2 * Writes(s) + (IF HalfWritten(s) THEN 1 ELSE 0)

\* A slot that is not being written holds the last message written to it.
SlotsHold ==
    \A s \in Slots : ~HalfWritten(s) =>
        \A w \in Words : content[s][w] = Message(s, Writes(s))

\* The slot that is being written holds the new message where it is written.
WriterSound ==
    IF inserting
    THEN /\ enqueue_index < MaxMessages
         /\ \A w \in Words \ writing :
              content[WriteSlot][w] = enqueue_index + 1
    ELSE writing = {}

\* The version only goes up after the first load.  As long as it has not,
\* and no write was going on, the words read are those of the slot.
CopySound(r) ==
    LET ver == initial_version[r]
        s == ReadSlot(r)
    IN  rpc[r] = "copy" =>
            /\ ver <= version[s]
            /\ ~WrittenDuring(ver, version[s]) =>
                 \A w \in Words \ unread[r] : copy[r][w] = content[s][w]

\* A reader's index is on the slot of the message after the newest one it
\* has read, and prev_version is the version that message gives the slot.
PlaceSound(r) ==
    /\ read_index[r] <= newest[r] /\ newest[r] <= enqueue_index
    /\ read_index[r] % Length = newest[r] % Length
    /\ prev_version[r] =
         IF newest[r] = 0 THEN 1 ELSE 2 * (Rounds(newest[r]) + 1)

QueueInv ==
    /\ TypeOK
    /\ VersionsCount
    /\ SlotsHold
    /\ WriterSound
    /\ \A r \in Readers : CopySound(r) /\ PlaceSound(r)
-----------------------------------------------------------------------------
(***************************************************************************)
(* Quotients and remainders.                                               *)
(***************************************************************************)
\* The ring has at least one element.
LEMMA LengthIsPositive == Length \in Nat /\ Length > 0
  BY QueueAssumption

\* A number is so many rounds and a place.
LEMMA DivMod ==
    ASSUME NEW n \in Nat
    PROVE  /\ Rounds(n) \in Nat
           /\ n % Length \in Slots
           /\ n = Length * Rounds(n) + (n % Length)
  BY LengthIsPositive DEF Rounds, Slots

\* Rounds and place are the only ones: k rounds and place s.
LEMMA DivModUnique ==
    ASSUME NEW k \in Nat, NEW s \in Slots
    PROVE  Rounds(Length * k + s) = k /\ (Length * k + s) % Length = s
  BY LengthIsPositive DEF Rounds, Slots

\* The next number is at the next place, or at the first of the next round.
LEMMA NextPlace ==
    ASSUME NEW n \in Nat
    PROVE  IF n % Length = Length - 1
           THEN Rounds(n + 1) = Rounds(n) + 1 /\ (n + 1) % Length = 0
           ELSE Rounds(n + 1) = Rounds(n) /\ (n + 1) % Length = (n % Length) + 1
<1>. DEFINE k == Rounds(n)
            s == n % Length
<1>1. k \in Nat /\ s \in Slots /\ n = Length * k + s
  BY DivMod
<1>. HIDE DEF k, s
<1>2. CASE s = Length - 1
  <2>1. n + 1 = Length * (k + 1) + 0 /\ 0 \in Slots
    BY <1>1, <1>2, LengthIsPositive DEF Slots
  <2>2. Rounds(n + 1) = k + 1 /\ (n + 1) % Length = 0
    BY <1>1, <2>1, DivModUnique
  <2>. QED
    BY <1>2, <2>2 DEF k, s
<1>3. CASE s # Length - 1
  <2>1. n + 1 = Length * k + (s + 1) /\ s + 1 \in Slots
    BY <1>1, <1>3, LengthIsPositive DEF Slots
  <2>2. Rounds(n + 1) = k /\ (n + 1) % Length = s + 1
    BY <1>1, <2>1, DivModUnique
  <2>. QED
    BY <1>3, <2>2 DEF k, s
<1>. QED
  BY <1>2, <1>3

\* More rounds are more messages, by the length of the ring at least.
LEMMA RoundsGrow ==
    ASSUME NEW a \in Nat, NEW b \in Nat
    PROVE  /\ a <= b => Length * a <= Length * b
           /\ a < b => Length * a + Length <= Length * b
<1>1. CASE a <= b
  <2>1. PICK d \in Nat : b = a + d
    BY <1>1
  <2>2. Length * b = Length * a + Length * d /\ Length * d \in Nat
    BY <2>1, LengthIsPositive
  <2>3. d # 0 => Length * d >= Length
    BY LengthIsPositive
  <2>. QED
    BY <2>1, <2>2, <2>3, LengthIsPositive
<1>2. CASE a > b
  BY <1>2
<1>. QED
  BY <1>1, <1>2
-----------------------------------------------------------------------------
(***************************************************************************)
(* The initial states and the steps of the writer.                         *)
(***************************************************************************)
\* The slots in use and the number of writes of a slot
LEMMA SlotTypes ==
    ASSUME TypeOK
    PROVE  /\ enqueue_index \in Nat /\ Rounds(enqueue_index) \in Nat
           /\ WriteSlot \in Slots
           /\ enqueue_index = Length * Rounds(enqueue_index) + WriteSlot
           /\ \A s \in Slots : Writes(s) \in Nat
           /\ \A r \in Readers : ReadSlot(r) \in Slots
<1>1. enqueue_index \in Nat /\ \A r \in Readers : read_index[r] \in Nat
  BY QueueAssumption DEF TypeOK
<1>. QED
  BY <1>1, DivMod DEF WriteSlot, ReadSlot, Writes

LEMMA QueueInit == Init => QueueInv
<1> SUFFICES ASSUME Init PROVE QueueInv
  OBVIOUS
<1>1. TypeOK
  <2>1. Blank \in [Words -> {0} \cup Messages]
    BY DEF Blank
  <2>2. 0 \in 0..MaxMessages /\ 0 \in {0} \cup Messages
    BY QueueAssumption
  <2>. QED
    BY <2>1, <2>2 DEF Init, TypeOK
<1>2. 0 = Length * 0 + 0 /\ 0 \in Slots /\ 0 \in Nat
  BY LengthIsPositive DEF Slots
<1>3. Rounds(0) = 0 /\ 0 % Length = 0
  BY <1>2, DivModUnique
<1>4. \A s \in Slots : Writes(s) = 0
  BY <1>3 DEF Init, Writes, WriteSlot, Slots
<1>5. VersionsCount /\ SlotsHold
  BY <1>4
     DEF Init, VersionsCount, SlotsHold, HalfWritten, Message, Blank
<1>6. WriterSound
  BY DEF Init, WriterSound
<1>7. \A r \in Readers : CopySound(r)
  BY DEF Init, CopySound
<1>8. \A r \in Readers : PlaceSound(r)
  BY DEF Init, PlaceSound
<1>. QED
  BY <1>1, <1>5, <1>6, <1>7, <1>8 DEF QueueInv

\* What a reader keeps if the writer only raises the version of a slot, or
\* writes to a slot whose version is odd
LEMMA ReadersUndisturbed ==
    ASSUME TypeOK, TypeOK', UNCHANGED reader,
           \A s \in Slots : version[s] <= version'[s],
           \A s \in Slots :
               version[s] % 2 = 0 /\ version'[s] = version[s] => content'[s] = content[s],
           NEW r \in Readers, CopySound(r)
    PROVE  CopySound(r)'
<1>1. ReadSlot(r) \in Slots /\ ReadSlot(r)' = ReadSlot(r)
  BY SlotTypes DEF reader, ReadSlot
<1>2. SUFFICES ASSUME rpc[r] = "copy"
               PROVE  CopySound(r)'
  BY DEF CopySound, reader
<1>. DEFINE s == ReadSlot(r)
            ver == initial_version[r]
<1>3. ver <= version[s]
      /\ (~WrittenDuring(ver, version[s]) =>
             \A w \in Words \ unread[r] : copy[r][w] = content[s][w])
  BY <1>2 DEF CopySound
<1>4. version[s] \in Nat /\ version'[s] \in Nat /\ ver \in Nat
  BY <1>1 DEF TypeOK
<1>5. ver <= version'[s]
  BY <1>1, <1>3, <1>4
<1>6. ASSUME ~WrittenDuring(ver, version'[s])
      PROVE  ~WrittenDuring(ver, version[s]) /\ content'[s] = content[s]
  <2>1. ver % 2 = 0 /\ ver = version'[s]
    BY <1>6 DEF WrittenDuring
  <2>2. version[s] = ver
    BY <2>1, <1>1, <1>3, <1>4
  <2>. QED
    BY <2>1, <2>2, <1>1 DEF WrittenDuring
<1>7. /\ initial_version' = initial_version /\ unread' = unread
      /\ copy' = copy
  BY DEF reader
<1>. QED
  BY <1>1, <1>3, <1>5, <1>6, <1>7 DEF CopySound

LEMMA BeginInsertStep ==
    ASSUME QueueInv, BeginInsert
    PROVE  QueueInv'
<1> USE DEF QueueInv
<1>1. /\ WriteSlot \in Slots /\ enqueue_index \in Nat
      /\ WriteSlot' = WriteSlot
      /\ \A s \in Slots : Writes(s)' = Writes(s) /\ Writes(s) \in Nat
      /\ UNCHANGED <<content, enqueue_index, reader>>
  BY SlotTypes DEF BeginInsert, WriteSlot, Writes
<1>2. /\ ~inserting /\ inserting' /\ inserting' \in BOOLEAN
      /\ enqueue_index < MaxMessages /\ writing' = Words
  BY DEF BeginInsert
<1>3. /\ version' \in [Slots -> Nat]
      /\ version'[WriteSlot] = version[WriteSlot] + 1
      /\ \A s \in Slots : s # WriteSlot => version'[s] = version[s]
  BY <1>1 DEF BeginInsert, TypeOK
<1>4. TypeOK'
  BY <1>1, <1>2, <1>3 DEF TypeOK, reader
<1>5. VersionsCount'
  BY <1>1, <1>2, <1>3 DEF VersionsCount, HalfWritten
<1>6. SlotsHold'
  BY <1>1, <1>2 DEF SlotsHold, HalfWritten
<1>7. WriterSound'
  BY <1>1, <1>2 DEF WriterSound
<1>8. \A s \in Slots : version[s] \in Nat /\ version[s] <= version'[s]
  BY <1>3 DEF TypeOK
<1>9. \A r \in Readers : CopySound(r)'
  BY <1>1, <1>4, <1>8, ReadersUndisturbed
<1>10. \A r \in Readers : PlaceSound(r)'
  BY <1>1 DEF PlaceSound, reader
<1>. QED
  BY <1>4, <1>5, <1>6, <1>7, <1>9, <1>10

LEMMA WriteWordStep ==
    ASSUME QueueInv, NEW w \in Words, WriteWord(w)
    PROVE  QueueInv'
<1> USE DEF QueueInv
<1>1. /\ WriteSlot \in Slots /\ enqueue_index \in Nat
      /\ WriteSlot' = WriteSlot
      /\ \A s \in Slots : Writes(s)' = Writes(s) /\ Writes(s) \in Nat
      /\ UNCHANGED <<version, enqueue_index, inserting, reader>>
  BY SlotTypes DEF WriteWord, WriteSlot, Writes
<1>2. inserting /\ enqueue_index < MaxMessages
  BY DEF WriterSound, WriteWord
<1>3. enqueue_index + 1 \in Messages
  BY <1>1, <1>2, QueueAssumption DEF Messages
<1>4. /\ content' \in [Slots -> [Words -> {0} \cup Messages]]
      /\ content'[WriteSlot][w] = enqueue_index + 1
      /\ \A v \in Words \ {w} : content'[WriteSlot][v] = content[WriteSlot][v]
      /\ \A s \in Slots : s # WriteSlot => content'[s] = content[s]
  BY <1>1, <1>3 DEF WriteWord, TypeOK
<1>5. writing' = writing \ {w}
  BY DEF WriteWord
<1>6. TypeOK'
  BY <1>1, <1>4, <1>5 DEF TypeOK, reader
<1>7. VersionsCount'
  BY <1>1 DEF VersionsCount, HalfWritten
<1>8. SlotsHold'
  BY <1>1, <1>2, <1>4 DEF SlotsHold, HalfWritten
<1>9. WriterSound'
  BY <1>1, <1>2, <1>4, <1>5 DEF WriterSound
<1>10. version[WriteSlot] % 2 # 0
  <2>1. version[WriteSlot] = 2 * Writes(WriteSlot) + 1
    BY <1>1, <1>2 DEF VersionsCount, HalfWritten
  <2>. QED
    BY <2>1, <1>1
<1>11. \A s \in Slots : version[s] \in Nat /\ version[s] <= version'[s]
  BY <1>1 DEF TypeOK
<1>12. \A s \in Slots : version[s] % 2 = 0 => content'[s] = content[s]
  BY <1>4, <1>10
<1>13. \A r \in Readers : CopySound(r)'
  BY <1>1, <1>6, <1>11, <1>12, ReadersUndisturbed
<1>14. \A r \in Readers : PlaceSound(r)'
  BY <1>1 DEF PlaceSound, reader
<1>. QED
  BY <1>6, <1>7, <1>8, <1>9, <1>13, <1>14

LEMMA EndInsertStep ==
    ASSUME QueueInv, EndInsert
    PROVE  QueueInv'
<1> USE DEF QueueInv
<1>1. /\ WriteSlot \in Slots /\ enqueue_index \in Nat
      /\ Rounds(enqueue_index) \in Nat
      /\ enqueue_index = Length * Rounds(enqueue_index) + WriteSlot
      /\ \A s \in Slots : Writes(s) \in Nat
  BY SlotTypes
<1>2. /\ inserting /\ ~inserting' /\ inserting' \in BOOLEAN
      /\ writing = {} /\ writing' = {}
      /\ enqueue_index' = enqueue_index + 1
      /\ UNCHANGED <<content, reader>>
  BY DEF EndInsert
<1>3. enqueue_index < MaxMessages
  BY <1>2 DEF WriterSound
<1>4. /\ version' \in [Slots -> Nat]
      /\ version'[WriteSlot] = version[WriteSlot] + 1
      /\ \A s \in Slots : s # WriteSlot => version'[s] = version[s]
  BY <1>1 DEF EndInsert, TypeOK
<1>5. TypeOK'
  BY <1>1, <1>2, <1>3, <1>4, QueueAssumption DEF TypeOK, reader
<1>6. \A s \in Slots :
        Writes(s)' = IF s = WriteSlot THEN Writes(s) + 1 ELSE Writes(s)
  <2>1. WriteSlot = Length - 1 =>
          Rounds(enqueue_index') = Rounds(enqueue_index) + 1 /\ WriteSlot' = 0
    BY <1>1, <1>2, NextPlace DEF WriteSlot
  <2>2. WriteSlot # Length - 1 =>
          Rounds(enqueue_index') = Rounds(enqueue_index) /\ WriteSlot' = WriteSlot + 1
    BY <1>1, <1>2, NextPlace DEF WriteSlot
  <2>3. \A s \in Slots : Writes(s)' =
          IF s < WriteSlot' THEN Rounds(enqueue_index') + 1 ELSE Rounds(enqueue_index')
    BY DEF Writes, Rounds
  <2>. HIDE DEF WriteSlot, Rounds
  <2>. QED
    BY <1>1, <2>1, <2>2, <2>3, LengthIsPositive DEF Writes, Slots
<1>7. VersionsCount'
  BY <1>1, <1>2, <1>4, <1>6 DEF VersionsCount, HalfWritten
<1>8. SlotsHold'
  <2> SUFFICES ASSUME NEW s \in Slots, NEW w \in Words
               PROVE  content[s][w] = Message(s, Writes(s)')
    BY <1>2 DEF SlotsHold, Message
  <2>1. CASE s = WriteSlot
    <3>1. content[s][w] = enqueue_index + 1
      BY <1>2, <2>1 DEF WriterSound
    <3>2. Writes(s)' = Rounds(enqueue_index) + 1
      BY <1>1, <1>6, <2>1 DEF Writes, Slots
    <3>3. Message(s, Writes(s)') = Length * Rounds(enqueue_index) + s + 1
      BY <1>1, <3>2 DEF Message
    <3>. QED
      BY <1>1, <2>1, <3>1, <3>3
  <2>2. CASE s # WriteSlot
    BY <1>6, <2>2 DEF SlotsHold, HalfWritten
  <2>. QED
    BY <2>1, <2>2
<1>9. WriterSound'
  BY <1>2 DEF WriterSound
<1>10. \A s \in Slots : version[s] \in Nat /\ version[s] <= version'[s]
  BY <1>4 DEF TypeOK
<1>11. \A r \in Readers : CopySound(r)'
  BY <1>2, <1>5, <1>10, ReadersUndisturbed
<1>12. ASSUME NEW r \in Readers PROVE PlaceSound(r)'
  <2>1. newest[r] \in Nat /\ PlaceSound(r)
    BY QueueAssumption DEF TypeOK, Messages
  <2>. QED
    BY <1>1, <1>2, <2>1 DEF PlaceSound, reader
<1>. QED
  BY <1>5, <1>7, <1>8, <1>9, <1>11, <1>12
-----------------------------------------------------------------------------
(***************************************************************************)
(* The steps of a reader.                                                  *)
(***************************************************************************)
\* A step of reader r disturbs neither the writer nor the other readers: it
\* is enough to look at r.
LEMMA ReaderStep ==
    ASSUME QueueInv, UNCHANGED element, TypeOK', NEW r \in Readers,
           \A q \in Readers \ {r} :
               /\ read_index'[q] = read_index[q]
               /\ prev_version'[q] = prev_version[q]
               /\ rpc'[q] = rpc[q]
               /\ initial_version'[q] = initial_version[q]
               /\ copy'[q] = copy[q]
               /\ unread'[q] = unread[q]
               /\ newest'[q] = newest[q],
           CopySound(r)', PlaceSound(r)'
    PROVE  QueueInv'
<1> USE DEF QueueInv
<1>1. VersionsCount' /\ SlotsHold' /\ WriterSound'
  BY DEF element, VersionsCount, SlotsHold, WriterSound, HalfWritten, Writes,
         WriteSlot
<1>2. \A q \in Readers : CopySound(q)'
  BY DEF element, CopySound, ReadSlot
<1>3. \A q \in Readers : PlaceSound(q)'
  BY DEF element, PlaceSound
<1>. QED
  BY <1>1, <1>2, <1>3

LEMMA CallReadStep ==
    ASSUME QueueInv, NEW r \in Readers, CallRead(r)
    PROVE  QueueInv'
<1> USE DEF QueueInv
<1>1. /\ rpc' = [rpc EXCEPT ![r] = "load"] /\ rpc'[r] = "load"
      /\ UNCHANGED <<element, read_index, prev_version, initial_version,
                     copy, unread, newest, reply>>
  BY DEF CallRead, Move, TypeOK
<1>2. TypeOK'
  BY <1>1 DEF TypeOK, element
<1>3. CopySound(r)'
  BY <1>1 DEF CopySound
<1>4. PlaceSound(r)'
  BY <1>1 DEF PlaceSound, element
<1>. QED
  BY <1>1, <1>2, <1>3, <1>4, ReaderStep DEF TypeOK

LEMMA LoadVersionStep ==
    ASSUME QueueInv, NEW r \in Readers, LoadVersion(r)
    PROVE  QueueInv'
<1> USE DEF QueueInv
<1>1. ReadSlot(r) \in Slots
  BY SlotTypes
<1>2. /\ rpc' = [rpc EXCEPT ![r] = "copy"]
      /\ initial_version' = [initial_version EXCEPT ![r] = version[ReadSlot(r)]]
      /\ unread' = [unread EXCEPT ![r] = Words]
      /\ UNCHANGED <<element, read_index, prev_version, copy, newest, reply>>
  BY DEF LoadVersion, Move
<1>3. TypeOK'
  BY <1>1, <1>2 DEF TypeOK, element
<1>4. CopySound(r)'
  BY <1>1, <1>2 DEF CopySound, ReadSlot, element, TypeOK
<1>5. PlaceSound(r)'
  BY <1>2 DEF PlaceSound, element
<1>. QED
  BY <1>2, <1>3, <1>4, <1>5, ReaderStep DEF TypeOK

LEMMA ReadWordStep ==
    ASSUME QueueInv, NEW r \in Readers, NEW w \in Words, ReadWord(r, w)
    PROVE  QueueInv'
<1> USE DEF QueueInv
<1>1. ReadSlot(r) \in Slots
  BY SlotTypes
<1>2. /\ copy' = [copy EXCEPT ![r] = [copy[r] EXCEPT ![w] = content[ReadSlot(r)][w]]]
      /\ unread' = [unread EXCEPT ![r] = unread[r] \ {w}]
      /\ UNCHANGED <<element, read_index, prev_version, rpc, initial_version,
                     newest, reply>>
  BY DEF ReadWord
<1>3. content[ReadSlot(r)][w] \in {0} \cup Messages
  BY <1>1 DEF TypeOK
<1>4. /\ copy' \in [Readers -> [Words -> {0} \cup Messages]]
      /\ copy'[r][w] = content[ReadSlot(r)][w]
      /\ \A v \in Words \ {w} : copy'[r][v] = copy[r][v]
      /\ unread' \in [Readers -> SUBSET Words]
      /\ unread'[r] = unread[r] \ {w}
  BY <1>2, <1>3 DEF TypeOK
<1>5. TypeOK'
  BY <1>2, <1>4 DEF TypeOK, element
<1>6. CopySound(r)'
  BY <1>2, <1>4 DEF CopySound, ReadSlot, element
<1>7. PlaceSound(r)'
  BY <1>2 DEF PlaceSound, element
<1>. QED
  BY <1>2, <1>5, <1>6, <1>7, ReaderStep DEF TypeOK

LEMMA ReadAgainStep ==
    ASSUME QueueInv, NEW r \in Readers, ReadAgain(r)
    PROVE  QueueInv'
<1> USE DEF QueueInv
<1>1. Blank \in [Words -> {0} \cup Messages]
  BY DEF Blank
<1>2. /\ rpc' = [rpc EXCEPT ![r] = "load"]
      /\ copy' = [copy EXCEPT ![r] = Blank]
      /\ UNCHANGED <<element, read_index, prev_version, initial_version,
                     newest, unread, reply>>
  BY DEF ReadAgain, Move
<1>3. TypeOK'
  BY <1>1, <1>2 DEF TypeOK, element
<1>4. CopySound(r)'
  BY <1>2 DEF CopySound, TypeOK
<1>5. PlaceSound(r)'
  BY <1>2 DEF PlaceSound, element
<1>. QED
  BY <1>2, <1>3, <1>4, <1>5, ReaderStep DEF TypeOK

LEMMA ReturnNothingStep ==
    ASSUME QueueInv, NEW r \in Readers, ReturnNothing(r)
    PROVE  QueueInv'
<1> USE DEF QueueInv
<1>1. Blank \in [Words -> {0} \cup Messages]
  BY DEF Blank
<1>2. /\ rpc' = [rpc EXCEPT ![r] = "idle"]
      /\ reply' = [reply EXCEPT ![r] = 0]
      /\ copy' = [copy EXCEPT ![r] = Blank]
      /\ initial_version' = [initial_version EXCEPT ![r] = 0]
      /\ UNCHANGED <<element, read_index, prev_version, unread, newest>>
  BY DEF ReturnNothing, Move
<1>3. TypeOK'
  BY <1>1, <1>2 DEF TypeOK, element
<1>4. CopySound(r)'
  BY <1>2 DEF CopySound, TypeOK
<1>5. PlaceSound(r)'
  BY <1>2 DEF PlaceSound, element
<1>. QED
  BY <1>2, <1>3, <1>4, <1>5, ReaderStep DEF TypeOK

(***************************************************************************)
(* What a reader has in hand when it returns from read: the message that   *)
(* its slot holds, the last one written there.                             *)
(***************************************************************************)
Accepts(r) ==
    /\ rpc[r] = "copy" /\ unread[r] = {}
    /\ ~WrittenDuring(initial_version[r], version[ReadSlot(r)])

LEMMA AcceptedMessage ==
    ASSUME QueueInv, NEW r \in Readers, Accepts(r)
    PROVE  /\ initial_version[r] = 2 * Writes(ReadSlot(r))
           /\ \A w \in Words :
                copy[r][w] = Message(ReadSlot(r), Writes(ReadSlot(r)))
<1> USE DEF QueueInv, Accepts
<1>. DEFINE s == ReadSlot(r)
<1>1. s \in Slots /\ Writes(s) \in Nat
  BY SlotTypes
<1>2. initial_version[r] % 2 = 0 /\ initial_version[r] = version[s]
  BY DEF WrittenDuring
<1>3. \A w \in Words : copy[r][w] = content[s][w]
  BY DEF CopySound
<1>4. version[s] = 2 * Writes(s) + (IF HalfWritten(s) THEN 1 ELSE 0)
  BY <1>1 DEF VersionsCount
<1>5. ~HalfWritten(s)
  BY <1>1, <1>2, <1>4
<1>6. \A w \in Words : content[s][w] = Message(s, Writes(s))
  BY <1>1, <1>5 DEF SlotsHold
<1>7. initial_version[r] = 2 * Writes(s)
  BY <1>1, <1>2, <1>4, <1>5
<1>. QED
  BY <1>3, <1>6, <1>7

\* The last message of a slot is one of the last Length messages.
LEMMA LastOfSlot ==
    ASSUME TypeOK, NEW s \in Slots, Writes(s) > 0
    PROVE  LET m == Message(s, Writes(s))
           IN  /\ m \in Nat /\ m > 0 /\ m <= enqueue_index
               /\ enqueue_index - m < Length
<1>. DEFINE q == Rounds(enqueue_index)
            p == WriteSlot
<1>1. /\ q \in Nat /\ p \in Slots /\ Length \in Nat /\ s \in Nat
      /\ enqueue_index = Length * q + p /\ s < Length /\ p < Length /\ p >= 0
  BY SlotTypes, LengthIsPositive DEF Slots
<1>2. Writes(s) = IF s < p THEN q + 1 ELSE q
  BY DEF Writes
<1>3. Message(s, Writes(s)) = Length * (Writes(s) - 1) + s + 1
  BY DEF Message
<1>. HIDE DEF q, p
<1>4. CASE s < p
  <2>1. Message(s, Writes(s)) = Length * q + s + 1
    BY <1>1, <1>2, <1>3, <1>4
  <2>2. Length * q \in Nat
    BY <1>1
  <2>. QED
    BY <1>1, <1>4, <2>1, <2>2 DEF Slots
<1>5. CASE ~(s < p)
  <2>1. q - 1 \in Nat /\ Message(s, Writes(s)) = Length * (q - 1) + s + 1
    BY <1>1, <1>2, <1>3, <1>5
  <2>2. Length * (q - 1) \in Nat /\ Length * q = Length * (q - 1) + Length
    BY <1>1, <2>1
  <2>. QED
    BY <1>1, <1>5, <2>1, <2>2 DEF Slots
<1>. QED
  BY <1>4, <1>5

(***************************************************************************)
(* The message that is returned, m, is a whole number of rounds after the  *)
(* next of the newest one read, and the reader's new place is the one      *)
(* after m.                                                                *)
(***************************************************************************)
LEMMA ReturnedMessage ==
    ASSUME QueueInv, NEW r \in Readers, Accepts(r),
           initial_version[r] >= prev_version[r]
    PROVE  LET m == Message(ReadSlot(r), Writes(ReadSlot(r)))
               d == NextVersion(read_index[r], initial_version[r])
           IN  /\ m \in Messages
               /\ newest[r] < m /\ m <= enqueue_index
               /\ enqueue_index - m < Length
               /\ (m - newest[r] - 1) % Length = 0
               /\ (read_index[r] + 1) % Length = m % Length
               /\ d = 2 * (Rounds(m) + 1)
<1> USE DEF QueueInv
<1>. DEFINE n == newest[r]
            i == read_index[r]
            k == Rounds(n)
            s == ReadSlot(r)
            c == Writes(s)
            ver == initial_version[r]
            m == Message(s, c)
<1>1. /\ n \in Nat /\ i \in Nat /\ k \in Nat /\ s \in Slots /\ c \in Nat
      /\ enqueue_index \in Nat /\ enqueue_index <= MaxMessages
      /\ Length \in Nat /\ Length > 0 /\ s \in Nat
      /\ s = i % Length
  <2>1. n \in Nat /\ i \in Nat /\ enqueue_index <= MaxMessages
    BY QueueAssumption DEF TypeOK, Messages
  <2>2. k \in Nat
    BY <2>1, DivMod
  <2>3. s \in Slots /\ c \in Nat /\ enqueue_index \in Nat
    BY SlotTypes
  <2>4. s \in Nat /\ Length \in Nat /\ Length > 0
    BY <2>3, LengthIsPositive DEF Slots
  <2>5. s = i % Length
    BY DEF ReadSlot
  <2>. QED
    BY <2>1, <2>2, <2>3, <2>4, <2>5
<1>2. s = n % Length /\ n = Length * k + s
  BY <1>1, DivMod DEF PlaceSound, ReadSlot
<1>3. ver = 2 * c /\ ver >= prev_version[r]
  BY AcceptedMessage
<1>4. prev_version[r] = IF n = 0 THEN 1 ELSE 2 * (k + 1)
  BY DEF PlaceSound
<1>. HIDE DEF n, i, k, s, c, ver
<1>5. c > 0 /\ c - 1 \in Nat /\ k <= c - 1
  <2>1. CASE n = 0
    <3>1. c > 0
      BY <1>1, <1>3, <1>4, <2>1
    <3>2. 0 = Length * 0 + 0 /\ 0 \in Slots /\ 0 \in Nat
      BY <1>1 DEF Slots
    <3>3. k = 0
      BY <2>1, <3>2, DivModUnique DEF k
    <3>. QED
      BY <1>1, <3>1, <3>3
  <2>2. CASE n # 0
    BY <1>1, <1>3, <1>4, <2>2
  <2>. QED
    BY <2>1, <2>2
<1>6. /\ m \in Nat /\ m > 0 /\ m <= enqueue_index
      /\ enqueue_index - m < Length
  BY <1>1, <1>5, LastOfSlot DEF c
<1>7. m = Length * (c - 1) + s + 1
  BY <1>5 DEF Message
<1>. HIDE DEF m
<1>8. n < m
  <2>1. /\ Length * k <= Length * (c - 1)
        /\ Length * k \in Nat /\ Length * (c - 1) \in Nat
    BY <1>1, <1>5, RoundsGrow
  <2>. QED
    BY <1>1, <1>2, <1>7, <2>1
<1>9. (m - n - 1) % Length = 0
  <2>1. m - n - 1 = Length * (c - 1 - k) + 0
    BY <1>1, <1>2, <1>5, <1>7
  <2>2. c - 1 - k \in Nat /\ 0 \in Slots
    BY <1>1, <1>5 DEF Slots
  <2>. QED
    BY <2>1, <2>2, DivModUnique
<1>10. IF s = Length - 1
       THEN Rounds(m) = c /\ m % Length = 0
       ELSE Rounds(m) = c - 1 /\ m % Length = s + 1
  <2>1. m = (Length * (c - 1) + s) + 1 /\ Length * (c - 1) + s \in Nat
    BY <1>1, <1>5, <1>7
  <2>2. /\ Rounds(Length * (c - 1) + s) = c - 1
        /\ (Length * (c - 1) + s) % Length = s
    BY <1>1, <1>5, DivModUnique
  <2>3. c - 1 + 1 = c
    BY <1>1
  <2>. QED
    BY <2>1, <2>2, <2>3, NextPlace
<1>11. (i + 1) % Length = m % Length
  BY <1>1, <1>10, NextPlace
<1>12. NextVersion(i, ver) = 2 * (Rounds(m) + 1)
  BY <1>1, <1>3, <1>5, <1>10 DEF NextVersion
<1>13. m \in Messages
  BY <1>1, <1>6, QueueAssumption DEF Messages
<1>. QED
  BY <1>6, <1>8, <1>9, <1>11, <1>12, <1>13 DEF m, n, i, s, c, ver

LEMMA ReturnEntryStep ==
    ASSUME QueueInv, NEW r \in Readers, ReturnEntry(r)
    PROVE  QueueInv'
<1> USE DEF QueueInv
<1>. DEFINE m == Message(ReadSlot(r), Writes(ReadSlot(r)))
            d == NextVersion(read_index[r], initial_version[r])
<1>1. Blank \in [Words -> {0} \cup Messages]
  BY DEF Blank
<1>2. /\ rpc' = [rpc EXCEPT ![r] = "idle"]
      /\ prev_version' = [prev_version EXCEPT ![r] = d]
      /\ read_index' = [read_index EXCEPT ![r] = read_index[r] + 1]
      /\ copy' = [copy EXCEPT ![r] = Blank]
      /\ initial_version' = [initial_version EXCEPT ![r] = 0]
      /\ UNCHANGED <<element, unread>>
  BY DEF ReturnEntry, Move
<1>3. Accepts(r) /\ initial_version[r] >= prev_version[r]
  BY DEF ReturnEntry, Accepts, Move
<1>4. \A w \in Words : copy[r][w] = m
  BY <1>3, AcceptedMessage
<1>5. newest' = [newest EXCEPT ![r] = m] /\ reply' = [reply EXCEPT ![r] = m]
  BY <1>4 DEF ReturnEntry
<1>6. /\ m \in Messages
      /\ newest[r] < m /\ m <= enqueue_index
      /\ (read_index[r] + 1) % Length = m % Length
      /\ d = 2 * (Rounds(m) + 1)
  BY <1>3, ReturnedMessage
<1>. HIDE DEF m, d
<1>7. /\ read_index[r] \in Nat /\ newest[r] \in Nat /\ m \in Nat
      /\ Rounds(m) \in Nat /\ d \in Nat
      /\ enqueue_index \in Nat /\ enqueue_index <= MaxMessages
  <2>1. /\ read_index[r] \in Nat /\ newest[r] \in Nat /\ m \in Nat
        /\ enqueue_index \in Nat /\ enqueue_index <= MaxMessages
    BY <1>6, QueueAssumption DEF TypeOK, Messages
  <2>2. Rounds(m) \in Nat
    BY <2>1, DivMod
  <2>. QED
    BY <1>6, <2>1, <2>2
<1>8. read_index[r] + 1 <= m /\ read_index[r] + 1 \in 0..MaxMessages
  BY <1>6, <1>7, QueueAssumption DEF PlaceSound
<1>9. TypeOK'
  BY <1>1, <1>2, <1>5, <1>6, <1>7, <1>8 DEF TypeOK, element
<1>10. CopySound(r)'
  BY <1>2 DEF CopySound, TypeOK
<1>11. /\ read_index'[r] = read_index[r] + 1 /\ newest'[r] = m
       /\ prev_version'[r] = d /\ enqueue_index' = enqueue_index
  BY <1>2, <1>5 DEF TypeOK, element
<1>12. PlaceSound(r)'
  BY <1>6, <1>7, <1>8, <1>11 DEF PlaceSound
<1>. QED
  BY <1>2, <1>5, <1>9, <1>10, <1>12, ReaderStep DEF TypeOK

LEMMA ReadStepKeeps ==
    ASSUME QueueInv, NEW r \in Readers, ReadStep(r)
    PROVE  QueueInv'
  BY LoadVersionStep, ReadWordStep, ReadAgainStep, ReturnEntryStep,
     ReturnNothingStep DEF ReadStep

LEMMA InsertStepKeeps == QueueInv /\ InsertStep => QueueInv'
  BY WriteWordStep, EndInsertStep DEF InsertStep

LEMMA QueueStutter == QueueInv /\ UNCHANGED vars => QueueInv'
<1> SUFFICES ASSUME QueueInv, UNCHANGED vars PROVE QueueInv'
  OBVIOUS
<1> USE DEF vars, element, reader, QueueInv
<1>1. TypeOK'
  BY DEF TypeOK
<1>2. VersionsCount' /\ SlotsHold' /\ WriterSound'
  BY DEF VersionsCount, SlotsHold, WriterSound, HalfWritten, Writes, WriteSlot
<1>3. ASSUME NEW r \in Readers PROVE CopySound(r)' /\ PlaceSound(r)'
  BY DEF CopySound, PlaceSound, ReadSlot
<1>. QED
  BY <1>1, <1>2, <1>3

LEMMA QueueStep == QueueInv /\ [Next]_vars => QueueInv'
  BY QueueStutter, BeginInsertStep, InsertStepKeeps, CallReadStep, ReadStepKeeps
     DEF Next

\* The inductive invariant holds in every state the queue can reach.
THEOREM QueueSound == Spec => []QueueInv
  BY QueueInit, QueueStep, PTL DEF Spec
-----------------------------------------------------------------------------
(***************************************************************************)
(* What follows from it.                                                   *)
(***************************************************************************)
\* The variables keep their types: no reader's index and no word read is
\* beyond the messages enqueued (Queue.hpp:90-117, Element.hpp:49-73).
THEOREM QueueTypes == Spec => []TypeOK
  BY QueueSound, PTL DEF QueueInv

\* Whatever the writer does meanwhile, a reader returns the words of one
\* message (Element.hpp:49-56).
THEOREM ReadersGetWholeMessages == Spec => WholeMessages
<1>1. ASSUME QueueInv, NEW r \in Readers, ReturnEntry(r),
             NEW v \in Words, NEW w \in Words
      PROVE  copy[r][v] = copy[r][w]
  <2>1. Accepts(r)
    BY <1>1 DEF ReturnEntry, Accepts, Move
  <2>. QED
    BY <1>1, <2>1, AcceptedMessage
<1>2. QueueInv /\ [Next]_vars =>
        [\A r \in Readers : ReturnEntry(r) =>
           \A v, w \in Words : copy[r][v] = copy[r][w]]_vars
  BY <1>1
<1>. QED
  BY <1>2, QueueSound, PTL DEF WholeMessages, Spec

(***************************************************************************)
(* A reader that is told that there is nothing has the last message: the   *)
(* version of its slot says that the slot has not been written since.      *)
(***************************************************************************)
LEMMA NothingNew ==
    ASSUME QueueInv, NEW r \in Readers, Accepts(r),
           initial_version[r] < prev_version[r]
    PROVE  newest[r] = enqueue_index
<1> USE DEF QueueInv
<1>. DEFINE n == newest[r]
            k == Rounds(n)
            s == ReadSlot(r)
            q == Rounds(enqueue_index)
            p == WriteSlot
<1>1. /\ n \in Nat /\ k \in Nat /\ s \in Nat /\ q \in Nat /\ p \in Nat
      /\ Length \in Nat /\ s < Length /\ p < Length
      /\ n = Length * k + s /\ enqueue_index = Length * q + p
      /\ n <= enqueue_index
      /\ Length * k \in Nat /\ Length * q \in Nat
  <2>1. n \in Nat /\ n <= enqueue_index /\ s = n % Length
    BY QueueAssumption DEF TypeOK, Messages, PlaceSound, ReadSlot
  <2>. QED
    BY <2>1, SlotTypes, DivMod, LengthIsPositive DEF Slots
<1>2. initial_version[r] = 2 * Writes(s)
  BY AcceptedMessage
<1>3. Writes(s) = IF s < p THEN q + 1 ELSE q
  BY DEF Writes
<1>4. prev_version[r] = IF n = 0 THEN 1 ELSE 2 * (k + 1)
  BY DEF PlaceSound
<1>. HIDE DEF n, k, s, q, p
<1>5. Writes(s) <= k
  <2>1. CASE n = 0
    BY <1>1, <1>2, <1>3, <1>4, <2>1
  <2>2. CASE n # 0
    BY <1>1, <1>2, <1>3, <1>4, <2>2
  <2>. QED
    BY <2>1, <2>2
<1>6. ~(s < p)
  <2>1. s < p => Length * q + Length <= Length * k
    BY <1>1, <1>3, <1>5, RoundsGrow
  <2>. QED
    BY <1>1, <2>1
<1>7. q <= k /\ Length * q <= Length * k
  BY <1>1, <1>3, <1>5, <1>6, RoundsGrow
<1>. QED
  BY <1>1, <1>6, <1>7 DEF n

\* Every step of the queue is a step of the broadcast or none.
LEMMA QueueStepBroadcasts ==
    QueueInv /\ [Next]_vars =>
        [Abstract!NextBroadcast]_<<enqueue_index, newest, reply>>
<1> SUFFICES ASSUME QueueInv, [Next]_vars
             PROVE  [Abstract!NextBroadcast]_<<enqueue_index, newest, reply>>
  OBVIOUS
<1> USE DEF QueueInv
<1>1. CASE UNCHANGED vars \/ BeginInsert \/ \E w \in Words : WriteWord(w)
  BY <1>1 DEF vars, element, reader, BeginInsert, WriteWord
<1>2. CASE EndInsert
  BY <1>2 DEF EndInsert, reader, Abstract!NextBroadcast, Abstract!Send
<1>3. ASSUME NEW r \in Readers,
             CallRead(r) \/ LoadVersion(r) \/ ReadAgain(r)
             \/ \E w \in Words : ReadWord(r, w)
      PROVE  UNCHANGED <<enqueue_index, newest, reply>>
  BY <1>3 DEF CallRead, LoadVersion, ReadAgain, ReadWord, element
<1>4. ASSUME NEW r \in Readers, ReturnEntry(r)
      PROVE  Abstract!Take(r)
  <2>. DEFINE m == Message(ReadSlot(r), Writes(ReadSlot(r)))
  <2>1. Accepts(r) /\ initial_version[r] >= prev_version[r]
    BY <1>4 DEF ReturnEntry, Accepts, Move
  <2>2. \A w \in Words : copy[r][w] = m
    BY <2>1, AcceptedMessage
  <2>3. /\ newest' = [newest EXCEPT ![r] = m] /\ reply' = [reply EXCEPT ![r] = m]
        /\ enqueue_index' = enqueue_index
    BY <1>4, <2>2 DEF ReturnEntry, element
  <2>4. /\ m \in Messages /\ newest[r] < m /\ m <= enqueue_index
        /\ enqueue_index - m < Length
        /\ (m - newest[r] - 1) % Length = 0
    BY <2>1, ReturnedMessage
  <2>. HIDE DEF m
  <2>5. m \in (newest[r] + 1)..enqueue_index
    BY <2>4, QueueAssumption DEF TypeOK, Messages
  <2>. QED
    BY <2>3, <2>4, <2>5 DEF Abstract!Take
<1>5. ASSUME NEW r \in Readers, ReturnNothing(r)
      PROVE  Abstract!FindNothing(r)
  <2>1. Accepts(r) /\ initial_version[r] < prev_version[r]
    BY <1>5 DEF ReturnNothing, Accepts, Move
  <2>2. newest[r] = enqueue_index
    BY <2>1, NothingNew
  <2>. QED
    BY <1>5, <2>2 DEF ReturnNothing, element, Abstract!FindNothing
<1>. QED
  BY <1>1, <1>2, <1>3, <1>4, <1>5
     DEF Next, InsertStep, ReadStep, Abstract!NextBroadcast

\* The queue with its slots and versions implements the broadcast that
\* forgets: messages in order, none twice, gaps only of whole rounds, and
\* "nothing" only to a reader that has the last one (Queue.hpp:90-117).
THEOREM QueueBroadcasts == Spec => Broadcasts
<1>1. Init => Abstract!InitBroadcast
  BY DEF Init, Abstract!InitBroadcast
<1>. QED
  BY <1>1, QueueStepBroadcasts, QueueSound, PTL
     DEF Broadcasts, Abstract!SpecBroadcast, Spec
=============================================================================
