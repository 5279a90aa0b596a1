---------------------------- MODULE SocketHandler ----------------------------
(***************************************************************************)
(* FIXSocketHandler::read_next_message over a stream of bytes: it reads a  *)
(* header, looks for one if what it read is none, reads the rest of the    *)
(* message and returns the message if its length is that of a known type   *)
(* and its checksum is right.  The socket is FIXMockSocket, a blocking     *)
(* recv over a given memory; the caller is the loop of the harness, which  *)
(* reads until the socket sets its flag end_of_buffer.                     *)
(*                                                                         *)
(* The handler sees the value of a byte only.  A byte also carries where   *)
(* it came from, so that a property can tell whose bytes were returned.    *)
(***************************************************************************)
EXTENDS Integers, Sequences, FiniteSets, SequencesExt, MsgTypeChecks

CONSTANTS
    Programs       \* a MsgClassPack, whose types are the records of
                   \* MsgTypeChecks, and what the socket holds, a wire

(***************************************************************************)
(* An item is a message or a run of bytes without a header.  Its body, the *)
(* bytes that are neither header nor checksum, repeats the byte fill.      *)
(***************************************************************************)
Items == [header : BOOLEAN, length : Nat \ {0}, fill : 0..255,
          checksum : BOOLEAN]

\* A type has its delimiter in the header and room for a checksum behind it, and
\* is constructed from its own bytes.  Messages have the layout of every type of
\* the pack, the length first, are no shorter than the shortest type
\* (readme.md:192) and fit the lowest byte of their length; no other byte is one
\* of the delimiter.
ProgramsAssumption ==
    \A program \in Programs :
        LET pack == program.pack
        IN /\ pack \in Seq(MsgTypes) /\ program.wire \in Seq(Items)
           /\ \A type \in Range(pack) :
                /\ type.delimiter_offset + 2 <= type.header_length
                /\ type.header_length + 2 < type.msg_length
                /\ type.payload \subseteq 0..(type.msg_length - 1)
           /\ \A item \in Range(program.wire) :
                /\ pack[1].header_length = 6 /\ pack[1].delimiter_offset = 4
                /\ pack[1].delimiter_value = 235 * 256 + 80
                /\ \A type \in Range(pack) : type.length_offset = 0
                /\ item.header => item.length \in determine_min_msg_len(pack)..255
                /\ item.fill \notin {80, 235}
ASSUME ProgramsAssumption

VARIABLES
    MsgClassPack,    \* the template argument
    layout,          \* the static members made from it
    wire,            \* the items of the socket
    mem_span,        \* their bytes, the memory of the socket
    read_index,
    end_of_buffer,
    pc,              \* where read_next_message is
    buffer_span,
    bytes_read,
    msg_length,
    excess_bytes,
    returned         \* what the calls returned

socket == <<wire, mem_span, read_index, end_of_buffer>>
vars == <<MsgClassPack, layout, socket, pc, buffer_span, bytes_read, msg_length,
          excess_bytes, returned>>

\* The layout of a message is that of the first type, the lower byte of the
\* delimiter first.
Layout(pack) ==
    [header_length |-> pack[1].header_length,
     delimit_offset |-> pack[1].delimiter_offset,
     delimit_value |-> <<pack[1].delimiter_value % 256,
                         pack[1].delimiter_value \div 256>>,
     length_offset |-> pack[1].length_offset,
     buffer_size |-> determine_max_msg_len(pack),
     shortest_msg_size |-> determine_min_msg_len(pack)]

header_length == layout.header_length
delimit_offset == layout.delimit_offset
delimit_value == layout.delimit_value
length_offset == layout.length_offset
buffer_size == layout.buffer_size
shortest_msg_size == layout.shortest_msg_size
MsgLengths == {MsgClassPack[i].msg_length : i \in DOMAIN MsgClassPack}
-----------------------------------------------------------------------------
(***************************************************************************)
(* FIXMockSocket: the bytes of the items, and a recv that ends the program *)
(* when it is asked for more than is left.                                 *)
(***************************************************************************)
\* insert_checksum: the sum of the bytes before it as three decimal digits
insert_checksum(item, digit) ==
    LET byte_sum == (item.length + 80 + 235
                     + item.fill * (item.length - 9)
                     + (IF item.checksum THEN 0 ELSE 1)) % 256
    IN 48 + (<<byte_sum \div 100, (byte_sum % 100) \div 10, byte_sum % 10>>)[digit]

\* The byte at place k of an item, the first at place 0
ItemByte(item, k) ==
    CASE ~item.header \/ k \in 6..(item.length - 4) -> item.fill
      [] item.header /\ k = 0 -> item.length
      [] item.header /\ k \in 1..3 -> 0
      [] item.header /\ k = 4 -> 80
      [] item.header /\ k = 5 -> 235
      [] OTHER -> insert_checksum(item, k - item.length + 4)

Bytes(w, i) ==
    [k \in 1..w[i].length |->
        [item |-> i, at |-> k - 1, value |-> ItemByte(w[i], k - 1)]]

populate_memory(w) == FlattenSeq([i \in DOMAIN w |-> Bytes(w, i)])
mem_size == Len(mem_span)

\* recv(&buffer_span[dest], len) into the buffer b.  len is unsigned, as is the
\* sum: one below zero wraps around to more than any memory holds.  A negative
\* len that read_index makes up for passes the test.
Fits(len) == read_index + len \in 0..mem_size

Received(b, dest, len) ==
    [k \in DOMAIN b |-> IF k \in dest..(dest + len - 1)
                        THEN mem_span[read_index + k - dest + 1] ELSE b[k]]

\* Slip: the flag is set one byte early
ConsumeEarly(len) ==
    /\ Fits(len)
    /\ read_index' = read_index + len
    /\ end_of_buffer' = (end_of_buffer \/ read_index' = mem_size - 1)
    /\ UNCHANGED <<wire, mem_span>>

Consume(len) ==
    /\ Fits(len)
    /\ read_index' = read_index + len
    /\ end_of_buffer' = (end_of_buffer \/ read_index' = mem_size)
    /\ UNCHANGED <<wire, mem_span>>
-----------------------------------------------------------------------------
(***************************************************************************)
(* read_next_message                                                       *)
(***************************************************************************)
DelimiterAt(b, k) == b[k].value = delimit_value[1] /\ b[k + 1].value = delimit_value[2]

\* Slip: one byte less is kept than may start a header
header_length_less_two == header_length - 2

bytes_to_keep == header_length - 1

\* shift_left over the first shortest_msg_size bytes; it moves nothing if n
\* is as large as that, as it is when position_of_header wraps around.
ShiftLeft(b, n) ==
    [k \in DOMAIN b |-> IF n >= 0 /\ k + n < shortest_msg_size THEN b[k + n] ELSE b[k]]

\* The bytes of a new buffer
Unwritten == [item |-> 0, at |-> 0, value |-> 0]

\* The program is compiled, the handler and the book taking the pack or not,
\* and started.
Instantiate ==
    /\ pc = "template"
    /\ IF SocketHandlerAccepts(MsgClassPack) /\ OrderBookAccepts(MsgClassPack)
       THEN /\ pc' = "idle"
            /\ layout' = Layout(MsgClassPack)
            /\ mem_span' = populate_memory(wire)
            /\ buffer_span' = [k \in 0..(buffer_size' - 1) |-> Unwritten]
       ELSE pc' = "refused" /\ UNCHANGED <<layout, mem_span, buffer_span>>
    /\ UNCHANGED <<MsgClassPack, wire, read_index, end_of_buffer, bytes_read,
                   msg_length, excess_bytes, returned>>

\* The caller, which tests end_of_buffer before each call
Call ==
    /\ pc = "idle" /\ ~end_of_buffer
    /\ pc' = "header"
    /\ UNCHANGED <<socket, buffer_span, bytes_read, msg_length, excess_bytes, returned>>

ReadHeader ==
    /\ pc = "header"
    /\ Consume(header_length)
    /\ LET b == Received(buffer_span, 0, header_length)
       IN IF DelimiterAt(b, delimit_offset)
          THEN pc' = "length" /\ buffer_span' = b
          ELSE pc' = "scan" /\ buffer_span' = ShiftLeft(b, 1)
    /\ bytes_read' = header_length
    /\ UNCHANGED <<msg_length, excess_bytes, returned>>

\* Where scan_for_delimiter finds the delimiter in the buffer
Delimiters ==
    {k \in 0..(shortest_msg_size - 2) : DelimiterAt(buffer_span, k)}

scan_length == shortest_msg_size - bytes_to_keep

Scan ==
    /\ pc = "scan"
    /\ Consume(scan_length)
    /\ buffer_span' = Received(buffer_span, bytes_to_keep, scan_length)
    /\ pc' = "search"
    /\ UNCHANGED <<bytes_read, msg_length, excess_bytes, returned>>

NoDelimiter ==
    /\ pc = "search" /\ Delimiters = {}
    /\ buffer_span' = ShiftLeft(buffer_span, scan_length)
    /\ pc' = "scan"
    /\ UNCHANGED <<socket, bytes_read, msg_length, excess_bytes, returned>>

DelimiterFound ==
    /\ pc = "search" /\ Delimiters # {}
    /\ LET position_of_header == Min(Delimiters) - delimit_offset
       IN /\ buffer_span' = ShiftLeft(buffer_span, position_of_header)
          /\ bytes_read' = shortest_msg_size - position_of_header
    /\ pc' = "length"
    /\ UNCHANGED <<socket, msg_length, excess_bytes, returned>>

\* The length as a 32-bit integer, its lowest byte first, at the place that the
\* first type names
LengthField ==
    LET byte(k) == buffer_span[length_offset + k].value
    IN byte(0) + 256 * (byte(1) + 256 * (byte(2) + 256 * byte(3)))

GetLength ==
    /\ pc = "length"
    /\ msg_length' = LengthField
    /\ excess_bytes' = LengthField - buffer_size
    /\ pc' = IF LengthField <= buffer_size THEN "rest" ELSE "discard"
    /\ UNCHANGED <<socket, buffer_span, bytes_read, returned>>

\* Slip: all the excess at once, whatever room there is behind the header
ExcessAtOnce == excess_bytes

\* How much discard_long_msg reads in one go
DiscardLength == Min({buffer_size - header_length, excess_bytes})

\* discard_long_msg, one turn of its loop
Discard ==
    /\ pc = "discard"
    /\ Consume(DiscardLength)
    /\ buffer_span' = Received(buffer_span, header_length, DiscardLength)
    /\ excess_bytes' = excess_bytes - DiscardLength
    /\ IF excess_bytes' > 0
       THEN UNCHANGED <<pc, msg_length>>
       ELSE pc' = "rest" /\ msg_length' = buffer_size
    /\ UNCHANGED <<bytes_read, returned>>

ReadRest ==
    /\ pc = "rest"
    /\ Consume(msg_length - bytes_read)
    /\ buffer_span' = Received(buffer_span, bytes_read, msg_length - bytes_read)
    /\ pc' = "return"
    /\ UNCHANGED <<bytes_read, msg_length, excess_bytes, returned>>

\* Slip: every checksum is right
any_checksum == TRUE

validate_checksum ==
    LET byte_sum[k \in 0..(msg_length - 3)] ==
            IF k = 0 THEN 0 ELSE byte_sum[k - 1] + buffer_span[k - 1].value
        digit(k) == buffer_span[msg_length - k].value - 48
    IN byte_sum[msg_length - 3] % 256
         = (digit(3) * 100 + digit(2) * 10 + digit(1)) % 256

\* The last of the types with a length, or 0 (-1 in the code) if none has it
determine_msg_type(compare_to) ==
    Max({0} \cup {i \in DOMAIN MsgClassPack :
                    MsgClassPack[i].msg_length = compare_to})

\* What the constructor of a message takes from the bytes of the buffer
Constructed(type, b) == [k \in type.payload |-> b[k]]

construct_variant(variant_index, b) ==
    [type |-> variant_index,
     payload |-> Constructed(MsgClassPack[variant_index], b)]

Result ==
    LET type == determine_msg_type(msg_length)
    IN IF type # 0 /\ validate_checksum
       THEN {construct_variant(type, buffer_span)} ELSE {}

Return ==
    /\ pc = "return"
    /\ returned' = Append(returned, Result)
    /\ pc' = "idle"
    /\ UNCHANGED <<socket, buffer_span, bytes_read, msg_length, excess_bytes>>

\* The call of recv that read_next_message is at, if it is at one
RecvCall ==
    CASE pc = "header" -> {<<0, header_length>>}
      [] pc = "scan" -> {<<bytes_to_keep, scan_length>>}
      [] pc = "discard" -> {<<header_length, DiscardLength>>}
      [] pc = "rest" -> {<<bytes_read, msg_length - bytes_read>>}
      [] OTHER -> {}

\* A read beyond the memory of the mock socket
Terminate ==
    /\ \E call \in RecvCall : ~Fits(call[2])
    /\ pc' = "terminated"
    /\ UNCHANGED <<socket, buffer_span, bytes_read, msg_length, excess_bytes, returned>>
-----------------------------------------------------------------------------
Init ==
    /\ \E program \in Programs :
         MsgClassPack = program.pack /\ wire = program.wire
    /\ layout = <<>> /\ mem_span = <<>> /\ buffer_span = <<>>
    /\ read_index = 0 /\ end_of_buffer = FALSE
    /\ pc = "template"
    /\ bytes_read = 0 /\ msg_length = 0 /\ excess_bytes = 0
    /\ returned = <<>>

Run ==
    /\ \/ Call \/ ReadHeader \/ Scan \/ NoDelimiter \/ DelimiterFound
       \/ GetLength \/ Discard \/ ReadRest \/ Return \/ Terminate
    /\ UNCHANGED <<MsgClassPack, layout>>

Next == Instantiate \/ Run

Spec == Init /\ [][Next]_vars

\* The thread that reads is scheduled.
FairSpec == Spec /\ WF_vars(Run)
-----------------------------------------------------------------------------
(***************************************************************************)
(* Properties.                                                             *)
(***************************************************************************)
\* The values of the variables that a call changes.
SocketTypeOK ==
    /\ pc \in {"template", "refused", "idle", "header", "scan", "search", "length",
               "discard", "rest", "return", "terminated"}
    /\ read_index \in 0..mem_size
    /\ end_of_buffer \in BOOLEAN
    /\ Range(buffer_span) \subseteq Range(mem_span) \cup {Unwritten}
    /\ pc \notin {"template", "refused"} => bytes_read \in 0..shortest_msg_size
    /\ msg_length \in 0..255 /\ excess_bytes \in Int

Agree(Member(_)) ==
    \A i, j \in DOMAIN MsgClassPack : Member(MsgClassPack[i]) = Member(MsgClassPack[j])

\* The types can be told apart by their length, can be constructed and handled,
\* and agree on where everything stands but, perhaps, the length itself.
Consistent ==
    /\ \A i, j \in DOMAIN MsgClassPack :
         i # j => MsgClassPack[i].msg_length # MsgClassPack[j].msg_length
    /\ Agree(LAMBDA msg : msg.header_length)
    /\ Agree(LAMBDA msg : msg.delimiter_offset)
    /\ Agree(LAMBDA msg : msg.delimiter_value)
    /\ Agree(LAMBDA msg : msg.volume_offset)
    /\ \A type \in Range(MsgClassPack) :
         type.default_constructible /\ type.handle_order

\* The types agree on where the length of a message stands.
LengthPlacesAgree == Agree(LAMBDA msg : msg.length_offset)

\* A pack that compiles has three types or more, all of them consistent,
\* whichever two of them might disagree; and three or more consistent types
\* whose lengths stand in one place compile
\* (FIXMsgTypeChecks.hpp:97-168, monoidal_class_template.hpp:26-50).
ChecksDecide ==
    pc # "template" =>
        /\ pc # "refused" => Consistent /\ Len(MsgClassPack) >= 3
        /\ Consistent /\ LengthPlacesAgree /\ Len(MsgClassPack) >= 3 =>
             pc # "refused"


Increasing(n, r) == {c \in [1..r -> 0..(n - 1)] :
                       \A i \in 1..(r - 1) : c[i] < c[i + 1]}

\* The checks are applied to every group of one or two types, and to each
\* once, however the cohorts shrink.  Groups of three, of which combinations
\* are missing, are asked for by no check (non_rep_combinations.hpp:6-7, 16-79).
PairsComplete ==
    pc = "template" =>
    LET n == Len(MsgClassPack)
    IN \A r \in {1, 2} :
         LET groups == nr_combs([i \in 1..n |-> i - 1], r)
         IN Range(groups) = Increasing(n, r) /\ IsInjective(groups)

\* The buffer holds the longest type of a pack, and the search reads ahead no
\* more than the shortest, wherever in the pack they stand
\* (FIXMsgTypeChecks.hpp:170-214).
LengthsBound ==
    pc = "idle" =>
    /\ Cardinality(DOMAIN buffer_span) = Max(MsgLengths)
    /\ shortest_msg_size = Min(MsgLengths)

\* Every recv writes inside the buffer, also when a header was found in the
\* middle of it or the message is longer than it
\* (FIXSocketHandler.hpp:126-127, 168-169, 196-198).
StaysInBuffer ==
    \A call \in RecvCall : call[2] >= 0 /\ call[1] + call[2] <= buffer_size

\* The number of bytes of the first n items
Ends(n) ==
    LET ends[i \in 0..Len(wire)] ==
            IF i = 0 THEN 0 ELSE ends[i - 1] + wire[i].length
    IN ends[n]

\* Which of the first n items are messages
Messages(n) ==
    LET messages[i \in 0..Len(wire)] ==
            IF i = 0 THEN <<>>
            ELSE IF wire[i].header THEN Append(messages[i - 1], i) ELSE messages[i - 1]
    IN messages[n]

\* What a call that reads the message i may return.  A message of a length
\* beyond the buffer is cut to the length of the longest type and so may be
\* taken for one of this type, of whatever bytes.
Answers(i, answer) ==
    LET message == wire[i]
    IN IF message.length \in MsgLengths /\ message.checksum
       THEN \E type \in DOMAIN MsgClassPack :
              /\ MsgClassPack[type].msg_length = message.length
              /\ answer = {construct_variant(type,
                     [k \in 0..(message.length - 1) |-> Bytes(wire, i)[k + 1]])}
       ELSE \A result \in answer :
              /\ message.length > buffer_size
              /\ MsgClassPack[result.type].msg_length = buffer_size

\* Between two calls the socket stands at the end of an item, and every
\* message before it was returned by a call of its own, whole and in order,
\* or by an empty result, if its checksum is wrong or no type is of its length;
\* only a message longer than every type may be answered by one of the longest
\* type, cut out of it (FIXSocketHandler.hpp:102-145).
Framed ==
    pc = "idle" =>
        \E n \in 0..Len(wire) :
            /\ read_index = Ends(n)
            /\ Len(returned) = Len(Messages(n))
            /\ \A j \in DOMAIN returned : Answers(Messages(n)[j], returned[j])

\* What the handler may answer to a message, as in Answers
Verdict(message) ==
    IF message.length \in MsgLengths /\ message.checksum THEN {TRUE}
    ELSE IF message.length > Max(MsgLengths) THEN BOOLEAN ELSE {FALSE}

Source == INSTANCE MessageSource WITH
    verdicts <- LET messages == Messages(Len(wire))
                IN [j \in DOMAIN messages |-> Verdict(wire[messages[j]])],
    noise <- wire # <<>> /\ ~wire[Len(wire)].header,
    reading <- pc \notin {"template", "refused", "idle"},
    answers <- [j \in DOMAIN returned |-> returned[j] # {}]

\* To its caller the handler is a source of messages: the flag that ends the
\* loop of the caller is set in the call that answers the last message,
\* however far the search reads ahead
\* (FIXMockSocket.hpp:187-190, Record_latencies_multithreaded.cpp:74-76).
IsSource == Source!Spec

\* A message of a type not included is answered by an empty optional
\* (readme.md:187).  The code may return a message that it cut to size.
UnknownRefused ==
    pc = "idle" =>
        \A j \in DOMAIN returned :
            wire[Messages(Len(wire))[j]].length \notin MsgLengths => returned[j] = {}

\* A stream that ends in a message is read to its end and never beyond,
\* however little of it is left when the search for a header begins
\* (FIXSocketHandler.hpp:163-187, FIXMockSocket.hpp:179-192).
ReadsToEnd ==
    (pc = "idle" /\ wire # <<>> /\ wire[Len(wire)].header)
        ~> (pc = "idle" /\ end_of_buffer)
=============================================================================
