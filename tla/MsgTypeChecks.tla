---------------------------- MODULE MsgTypeChecks ----------------------------
(***************************************************************************)
(* namespace MsgTypeChecks: what the order book and the socket handler ask *)
(* of the message types they are instantiated with, at compile time.  A    *)
(* message type is the record of the members that are looked at:           *)
(* handle_order and default_constructible say whether the type has the     *)
(* member function that the book calls and a default constructor; payload  *)
(* is the set of the places its constructor reads.                         *)
(***************************************************************************)
EXTENDS TypePacks

\* The message types
MsgTypes == [msg_length : Nat, length_offset : Nat, header_length : Nat,
             delimiter_offset : Nat, delimiter_value : Nat, volume_offset : Nat,
             payload : SUBSET Nat, handle_order : BOOLEAN,
             default_constructible : BOOLEAN]

MsgLenNotEqual(FixMsg1, FixMsg2) == FixMsg1.msg_length # FixMsg2.msg_length

\* The code compares the first type with itself.
LenOffsetEqual(FixMsg1, FixMsg2) == FixMsg1.length_offset = FixMsg1.length_offset

HeaderLenEqual(FixMsg1, FixMsg2) == FixMsg1.header_length = FixMsg2.header_length

DelimOffsetEqual(FixMsg1, FixMsg2) ==
    FixMsg1.delimiter_offset = FixMsg2.delimiter_offset

\* Slip: the same mistake with the value of the delimiter
DelimValEqualToItself(FixMsg1, FixMsg2) ==
    FixMsg1.delimiter_value = FixMsg1.delimiter_value

DelimValEqual(FixMsg1, FixMsg2) ==
    FixMsg1.delimiter_value = FixMsg2.delimiter_value

VolOffsetEqual(FixMsg1, FixMsg2) == FixMsg1.volume_offset = FixMsg2.volume_offset

MsgConsistencyCheck(pair) ==
    /\ MsgLenNotEqual(pair[1], pair[2])
    /\ LenOffsetEqual(pair[1], pair[2])
    /\ HeaderLenEqual(pair[1], pair[2])
    /\ DelimOffsetEqual(pair[1], pair[2])
    /\ VolOffsetEqual(pair[1], pair[2])
    /\ DelimValEqual(pair[1], pair[2])

\* The groups of types that a check is applied to
Groups(MsgClassPack, order) == Range(nr_combs(MsgClassPack, order))

\* How the results of two checks are combined
And == [values \in BOOLEAN \X BOOLEAN |-> values[1] /\ values[2]]

MsgConsistencyCheck_v(MsgClassPack) ==
    monoid_check([pair \in Groups(MsgClassPack, 2) |-> MsgConsistencyCheck(pair)],
                 And, 2, MsgClassPack)

has_FIX_msg_handling_interface(MsgClassPack) ==
    monoid_check([msg \in Groups(MsgClassPack, 1) |-> msg[1].handle_order],
                 And, 1, MsgClassPack)

AlternativesDefaultConstructible(MsgClassPack) ==
    monoid_check([msg \in Groups(MsgClassPack, 1) |-> msg[1].default_constructible],
                 And, 1, MsgClassPack)

\* Slip: the smaller of two lengths
TheShorter == [lengths \in Nat \X Nat |-> Min({lengths[1], lengths[2]})]

Longest == [lengths \in Nat \X Nat |-> Max({lengths[1], lengths[2]})]
Shortest == [lengths \in Nat \X Nat |-> Min({lengths[1], lengths[2]})]

msg_lengths(MsgClassPack) ==
    [msg \in Groups(MsgClassPack, 1) |-> msg[1].msg_length]

determine_max_msg_len(MsgClassPack) ==
    monoid_check(msg_lengths(MsgClassPack), Longest, 1, MsgClassPack)

determine_min_msg_len(MsgClassPack) ==
    monoid_check(msg_lengths(MsgClassPack), Shortest, 1, MsgClassPack)

\* What FIXSocketHandler requires of its MsgClassPack
SocketHandlerAccepts(MsgClassPack) ==
    /\ check_closure_property(1, MsgClassPack)
    /\ check_closure_property(2, MsgClassPack)
    /\ MsgConsistencyCheck_v(MsgClassPack)
    /\ AlternativesDefaultConstructible(MsgClassPack)
    \* static_assert
    /\ determine_min_msg_len(MsgClassPack) > MsgClassPack[1].header_length

\* What OrderBook requires of it
OrderBookAccepts(MsgClassPack) ==
    /\ check_closure_property(1, MsgClassPack)
    /\ has_FIX_msg_handling_interface(MsgClassPack)
=============================================================================
