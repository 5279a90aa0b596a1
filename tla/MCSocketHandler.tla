--------------------------- MODULE MCSocketHandler ---------------------------
(***************************************************************************)
(* Small instances of SocketHandler for TLC: the real message types, and   *)
(* every stream of up to three items.                                      *)
(***************************************************************************)
EXTENDS SocketHandler

\* FIXMsgClasses
MessageType(length, payload) ==
    [msg_length |-> length, length_offset |-> 0, header_length |-> 6,
     delimiter_offset |-> 4, delimiter_value |-> 235 * 256 + 80,
     volume_offset |-> 6, payload |-> payload, handle_order |-> TRUE,
     default_constructible |-> TRUE]

AddLimitOrder == MessageType(17, 6..13)
WithdrawLimitOrder == MessageType(18, 6..13)
MarketOrder == MessageType(13, 6..9)

MsgClassVar == <<AddLimitOrder, WithdrawLimitOrder, MarketOrder>>

OtherTypes == <<MessageType(20, {6, 16}), MessageType(13, {6}), MessageType(15, {})>>

\* Types that differ in one member besides their length, and packs of two or
\* three such types and of four or six types with one of them
OddTypes(length) ==
    LET type == MessageType(length, {})
    IN {type, [type EXCEPT !.length_offset = 8], [type EXCEPT !.header_length = 7],
        [type EXCEPT !.delimiter_offset = 3], [type EXCEPT !.delimiter_value = 7],
        [type EXCEPT !.volume_offset = 9], [type EXCEPT !.handle_order = FALSE],
        [type EXCEPT !.default_constructible = FALSE]}

SomePacks ==
    LET odd == UNION {OddTypes(n) : n \in {13, 17, 18}}
        plain == {MessageType(n, {}) : n \in {13, 17, 18, 20}}
    IN (UNION {[1..n -> odd] : n \in {2, 3}})
       \cup {ReplaceAt(pack, i, type) : pack \in [1..4 -> plain], i \in 1..4,
                                       type \in odd}
       \cup {ReplaceAt([k \in 1..6 |-> MessageType(12 + k, {})], i, type) :
                                       i \in 1..6, type \in odd}

Message(length, fill, checksum) ==
    [header |-> TRUE, length |-> length, fill |-> fill, checksum |-> checksum]

Noise(length) ==
    [header |-> FALSE, length |-> length, fill |-> 0, checksum |-> FALSE]

\* The three types, two with a wrong checksum, unknown types within the
\* buffer and beyond it (by less and by more than what one turn discards),
\* and bytes without a header that shift what follows by every phase of the
\* search.
SomeItems ==
    {Message(n, 7, TRUE) : n \in {13, 17, 18}}
    \cup {Message(n, 0, FALSE) : n \in {13, 18}}
    \cup {Message(15, 7, TRUE), Message(20, 7, TRUE), Message(40, 0, TRUE)}
    \cup {Noise(n) : n \in 1..9 \cup {20}}

\* The real types with every stream of up to three items, others with every
\* stream of up to two, and the packs to be checked
SomePrograms ==
    [pack : {MsgClassVar}, wire : SeqOf(SomeItems, 3)]
    \cup [pack : {OtherTypes}, wire : SeqOf(SomeItems, 2)]
    \cup [pack : SomePacks, wire : {<<>>}]

\* The packs alone, with nothing to read
PackPrograms == [pack : SomePacks, wire : {<<>>}]

\* The real types and every stream of up to two items
RealPrograms == [pack : {MsgClassVar}, wire : SeqOf(SomeItems, 2)]
=============================================================================
