------------------------- MODULE SocketHandlerProofs -------------------------
(***************************************************************************)
(* Proofs about FIXSocketHandler: what the compile-time checks let pass,   *)
(* and that the handler finds every message of a stream whose delimiters   *)
(* are those of its headers.                                               *)
(***************************************************************************)
EXTENDS SocketHandler, TypePackProofs, FiniteSetTheorems

-----------------------------------------------------------------------------
(***************************************************************************)
(* The compile-time checks.                                                *)
(***************************************************************************)
\* What ProgramsAssumption says of a pack
GoodPack(pack) ==
    /\ pack \in Seq(MsgTypes)
    /\ \A i \in 1..Len(pack) :
          /\ pack[i].delimiter_offset + 2 <= pack[i].header_length
          /\ pack[i].header_length + 2 < pack[i].msg_length
          /\ pack[i].payload \subseteq 0..(pack[i].msg_length - 1)

\* The members of a type that the checks look at
LEMMA MembersTyped ==
    ASSUME NEW type \in MsgTypes
    PROVE  /\ type.msg_length \in Nat /\ type.header_length \in Nat
           /\ type.delimiter_offset \in Nat /\ type.delimiter_value \in Nat
           /\ type.volume_offset \in Nat
           /\ type.handle_order \in BOOLEAN /\ type.default_constructible \in BOOLEAN
BY DEF MsgTypes

\* A pack can be checked by the groups of an order if there are at least as
\* many of them as types.
LEMMA ClosureOfOne ==
    ASSUME NEW T, NEW pack \in Seq(T)
    PROVE  check_closure_property(1, pack) <=> Len(pack) >= 2
<1> DEFINE n == Len(pack)
           indices == non_rep_index_combinations(n, 2)
           groups == nr_combs(pack, 1)
<1>1. n \in Nat
  OBVIOUS
<1> SUFFICES ASSUME n >= 2
             PROVE  \A i \in Range(indices) : i < Len(groups)
  BY DEF check_closure_property
<1>2. PICK off : PairsInPlace(indices, off, n)
  BY <1>1, IndicesOfTwo
<1>3. Len(groups) = n
  <2>1. Len(pack) # 0
    BY <1>1
  <2> QED
    BY <2>1, GroupsOfOne
<1> HIDE DEF groups, indices
<1>4. indices \in Seq(0..(n - 1))
  BY <1>2 DEF PairsInPlace
<1>5. \A i \in Range(indices) : i \in 0..(n - 1)
  <2>1. DOMAIN indices = 1..Len(indices)
    BY <1>4
  <2>2. \A k \in 1..Len(indices) : indices[k] \in 0..(n - 1)
    BY <1>4, Elements
  <2> QED
    BY <2>1, <2>2 DEF Range
<1> QED
  BY <1>1, <1>3, <1>5

LEMMA ClosureOfTwo ==
    ASSUME NEW T, NEW pack \in Seq(T), Len(pack) >= 2
    PROVE  check_closure_property(2, pack) <=> Len(pack) >= 3
<1> DEFINE n == Len(pack)
           indices == non_rep_index_combinations(n, 2)
           m == Len(nr_combs(pack, 2))
<1>1. n \in Nat /\ n >= 2
  OBVIOUS
<1>2. m \in Nat /\ (m >= n <=> n >= 3)
  BY PairsOfTypes
<1>3. PICK off : PairOffsets(off, n) /\ PairsInPlace(indices, off, n)
  BY <1>1, IndicesOfTwo
<1>4. check_closure_property(2, pack) <=> \A i \in Range(indices) : i < m
  BY <1>1 DEF check_closure_property
<1> HIDE DEF n, m, indices
<1>5. /\ indices \in Seq(0..(n - 1)) /\ DOMAIN indices = 1..Len(indices)
      /\ Len(indices) = 2 * off[n - 1]
  BY <1>3 DEF PairsInPlace
<1>6. \A i \in Range(indices) : i \in 0..(n - 1)
  <2>1. \A k \in 1..Len(indices) : indices[k] \in 0..(n - 1)
    BY <1>5, Elements
  <2> QED
    BY <1>5, <2>1 DEF Range
\* The last index is in the last pair.
<1>7. n - 1 \in Range(indices)
  <2> DEFINE k == n - 1
             p == off[k - 1] + 1
             all == off[k]
  <2>1. k \in 1..(n - 1) /\ 1 \in 1..(n - k) /\ k - 1 \in 0..k /\ k \in 0..k
    BY <1>1
  <2>2. p \in 1..all /\ PairAt(indices, p, k, 1)
    BY <1>3, <2>1 DEF PairsInPlace
  <2>3. all \in Nat
    BY <1>3, <2>1 DEF PairOffsets
  <2> HIDE DEF p, all
  <2>4. indices[(p - 1) * 2 + 2] = k - 1 + 1 /\ (p - 1) * 2 + 2 \in 1..(2 * all)
    BY <2>2, <2>3 DEF PairAt
  <2>5. k - 1 + 1 = n - 1
    BY <1>1
  <2>6. Len(indices) = 2 * all
    BY <1>5 DEF all
  <2> QED
    BY <1>5, <2>4, <2>5, <2>6 DEF Range
<1>8. (\A i \in Range(indices) : i < m) <=> m >= n
  BY <1>1, <1>2, <1>6, <1>7
<1> QED
  BY <1>2, <1>4, <1>8 DEF n

\* Two types pass the check of a pair.
PairPasses(type1, type2) ==
    /\ type1.msg_length # type2.msg_length
    /\ type1.header_length = type2.header_length
    /\ type1.delimiter_offset = type2.delimiter_offset
    /\ type1.volume_offset = type2.volume_offset
    /\ type1.delimiter_value = type2.delimiter_value

\* The check of pairs holds if every two types pass it.
LEMMA PairsChecked ==
    ASSUME NEW pack \in Seq(MsgTypes), Len(pack) >= 2
    PROVE  MsgConsistencyCheck_v(pack) <=>
             \A k, l \in 1..Len(pack) : k < l => PairPasses(pack[k], pack[l])
<1> DEFINE n == Len(pack)
           groups == nr_combs(pack, 2)
           m == Len(groups)
           value == [pair \in Groups(pack, 2) |-> MsgConsistencyCheck(pair)]
<1>1. n \in Nat
  OBVIOUS
<1>2. /\ DOMAIN groups = 1..m /\ m \in Nat /\ m # 0
      /\ \A g \in 1..m : \E k \in 1..n : \E l \in 1..n :
            k < l /\ groups[g] = Pair(pack[k], pack[l])
      /\ \A k \in 1..n : \A l \in 1..n :
            k < l => \E g \in 1..m : groups[g] = Pair(pack[k], pack[l])
  BY PairsOfTypes
<1> HIDE DEF n, m, groups
<1>3. \A g \in 1..m : value[groups[g]] = MsgConsistencyCheck(groups[g])
  BY <1>2 DEF Groups, Range, groups
<1> HIDE DEF value
<1>4. \A g \in 1..m : value[groups[g]] \in BOOLEAN
  BY <1>3 DEF MsgConsistencyCheck
<1> DEFINE check == monoid_check(value, And, 2, pack)
<1>5. check \in BOOLEAN /\ (check = TRUE <=> \A g \in 1..m : value[groups[g]] = TRUE)
  BY <1>2, <1>4, CheckedByAnd DEF groups
<1>6. MsgConsistencyCheck_v(pack) <=> check
  BY DEF MsgConsistencyCheck_v, value
<1> HIDE DEF check
<1>7. \A type1, type2 : MsgConsistencyCheck(Pair(type1, type2)) <=> PairPasses(type1, type2)
  <2> SUFFICES ASSUME NEW type1, NEW type2
               PROVE  MsgConsistencyCheck(Pair(type1, type2)) <=> PairPasses(type1, type2)
    OBVIOUS
  <2>1. Pair(type1, type2)[1] = type1 /\ Pair(type1, type2)[2] = type2
    BY DEF Pair
  <2> QED
    BY <2>1 DEF MsgConsistencyCheck, PairPasses, MsgLenNotEqual, LenOffsetEqual,
                HeaderLenEqual, DelimOffsetEqual, VolOffsetEqual, DelimValEqual
<1>8. ASSUME \A g \in 1..m : value[groups[g]] = TRUE,
             NEW k \in 1..n, NEW l \in 1..n, k < l
      PROVE  PairPasses(pack[k], pack[l])
  <2>1. PICK g \in 1..m : groups[g] = Pair(pack[k], pack[l])
    BY <1>2, <1>8
  <2>2. MsgConsistencyCheck(groups[g])
    BY <1>3, <1>8
  <2> QED
    BY <1>7, <2>1, <2>2
<1>9. ASSUME \A k, l \in 1..n : k < l => PairPasses(pack[k], pack[l]),
             NEW g \in 1..m
      PROVE  value[groups[g]] = TRUE
  <2>1. PICK k \in 1..n, l \in 1..n : k < l /\ groups[g] = Pair(pack[k], pack[l])
    BY <1>2
  <2>2. MsgConsistencyCheck(groups[g])
    BY <1>7, <1>9, <2>1
  <2> QED
    BY <1>3, <1>4, <2>2
<1> QED
  BY <1>5, <1>6, <1>8, <1>9 DEF n

\* The checks of single types hold if they do of every type.
LEMMA SinglesChecked ==
    ASSUME NEW pack \in Seq(MsgTypes), Len(pack) # 0
    PROVE  /\ has_FIX_msg_handling_interface(pack) <=>
                \A i \in 1..Len(pack) : pack[i].handle_order = TRUE
           /\ AlternativesDefaultConstructible(pack) <=>
                \A i \in 1..Len(pack) : pack[i].default_constructible = TRUE
<1> DEFINE n == Len(pack)
           groups == nr_combs(pack, 1)
           handles == [i \in 1..n |-> pack[i].handle_order]
           constructs == [i \in 1..n |-> pack[i].default_constructible]
           handle_value == [msg \in Groups(pack, 1) |-> msg[1].handle_order]
           construct_value == [msg \in Groups(pack, 1) |-> msg[1].default_constructible]
<1>1. \A i \in 1..n : pack[i] \in MsgTypes
  BY Elements
<1>2. \A i \in 1..n : handles[i] \in BOOLEAN /\ constructs[i] \in BOOLEAN
  BY <1>1, MembersTyped
<1>3. DOMAIN groups = 1..n /\ \A i \in 1..n : groups[i] = [k \in 1..1 |-> pack[i]]
  BY GroupsOfOne
<1>4. ASSUME NEW i \in 1..n
      PROVE  /\ handle_value[[k \in 1..1 |-> pack[i]]] = handles[i]
             /\ construct_value[[k \in 1..1 |-> pack[i]]] = constructs[i]
  <2> DEFINE one == [k \in 1..1 |-> pack[i]]
  <2>1. one \in Groups(pack, 1) /\ one[1] = pack[i]
    <3>1. groups[i] = one /\ i \in DOMAIN groups
      BY <1>3
    <3>2. one[1] = pack[i]
      OBVIOUS
    <3> HIDE DEF one
    <3> QED
      BY <3>1, <3>2 DEF Groups, Range
  <2> HIDE DEF one
  <2> QED
    BY <2>1 DEF one
<1> DEFINE handle_check == monoid_check(handle_value, And, 1, pack)
           construct_check == monoid_check(construct_value, And, 1, pack)
<1>5. /\ has_FIX_msg_handling_interface(pack) <=> handle_check
      /\ AlternativesDefaultConstructible(pack) <=> construct_check
  BY DEF has_FIX_msg_handling_interface, AlternativesDefaultConstructible
<1> HIDE DEF handles, constructs, handle_value, construct_value
<1>6. /\ handle_check \in BOOLEAN
      /\ handle_check = TRUE <=> \A i \in 1..n : handles[i] = TRUE
  BY <1>2, <1>4, CheckedSingly
<1>7. /\ construct_check \in BOOLEAN
      /\ construct_check = TRUE <=> \A i \in 1..n : constructs[i] = TRUE
  BY <1>2, <1>4, CheckedSingly
<1> HIDE DEF handle_check, construct_check
<1>8. \A i \in 1..n : /\ handles[i] = pack[i].handle_order
                      /\ constructs[i] = pack[i].default_constructible
  BY DEF handles, constructs
<1> QED
  BY <1>5, <1>6, <1>7, <1>8

\* The packs that compile are those of three or more consistent types.
LEMMA AcceptedIsConsistent ==
    ASSUME GoodPack(MsgClassPack)
    PROVE  SocketHandlerAccepts(MsgClassPack) /\ OrderBookAccepts(MsgClassPack)
             <=> Consistent /\ Len(MsgClassPack) >= 3
<1> DEFINE n == Len(MsgClassPack)
           type(i) == MsgClassPack[i]
           Pairs == \A k, l \in 1..n : k < l => PairPasses(type(k), type(l))
           Singles == \A i \in 1..n : /\ type(i).handle_order = TRUE
                                      /\ type(i).default_constructible = TRUE
           Room == determine_min_msg_len(MsgClassPack) > MsgClassPack[1].header_length
<1>1. /\ MsgClassPack \in Seq(MsgTypes) /\ n \in Nat
      /\ DOMAIN MsgClassPack = 1..n
      /\ \A i \in 1..n : type(i) \in MsgTypes /\ type(i).header_length + 2 < type(i).msg_length
  <2>1. MsgClassPack \in Seq(MsgTypes)
    BY DEF GoodPack
  <2>2. \A i \in 1..n : type(i) \in MsgTypes
    BY <2>1, Elements
  <2> QED
    BY <2>1, <2>2 DEF GoodPack
<1>2. CASE n < 2
  <2>1. ~ check_closure_property(1, MsgClassPack)
    BY <1>1, <1>2, ClosureOfOne
  <2> QED
    BY <1>1, <1>2, <2>1 DEF SocketHandlerAccepts
<1>3. CASE n >= 2
  <2>1. check_closure_property(1, MsgClassPack)
    BY <1>1, <1>3, ClosureOfOne
  <2>2. check_closure_property(2, MsgClassPack) <=> n >= 3
    BY <1>1, <1>3, ClosureOfTwo
  <2>3. MsgConsistencyCheck_v(MsgClassPack) <=> Pairs
    BY <1>1, <1>3, PairsChecked
  <2>4. Len(MsgClassPack) # 0
    BY <1>1, <1>3
  <2>5. AlternativesDefaultConstructible(MsgClassPack)
            /\ has_FIX_msg_handling_interface(MsgClassPack) <=> Singles
    BY <1>1, <2>4, SinglesChecked
  <2>6. Consistent <=> Pairs /\ Singles
    <3> HIDE DEF n
    <3>1. Range(MsgClassPack) = {MsgClassPack[i] : i \in 1..n}
      BY <1>1 DEF Range
    <3>2. ASSUME Consistent
          PROVE  Pairs /\ Singles
      <4>1. Pairs
        <5> SUFFICES ASSUME NEW k \in 1..n, NEW l \in 1..n, k < l
                     PROVE  PairPasses(type(k), type(l))
          OBVIOUS
        <5>1. k # l
          BY <1>1
        <5> QED
          BY <1>1, <3>2, <5>1 DEF Consistent, Agree, PairPasses
      <4>2. Singles
        BY <1>1, <3>1, <3>2, MembersTyped DEF Consistent
      <4> QED
        BY <4>1, <4>2
    <3>3. ASSUME Pairs, Singles
          PROVE  Consistent
      <4>1. \A i, j \in 1..n : i = j \/ PairPasses(type(i), type(j))
                                 \/ PairPasses(type(j), type(i))
        <5> SUFFICES ASSUME NEW i \in 1..n, NEW j \in 1..n
                     PROVE  i = j \/ PairPasses(type(i), type(j))
                                  \/ PairPasses(type(j), type(i))
          OBVIOUS
        <5>1. i = j \/ i < j \/ j < i
          BY <1>1
        <5> QED
          BY <3>3, <5>1
      <4>2. \A i, j \in 1..n : i # j => type(i).msg_length # type(j).msg_length
        BY <4>1 DEF PairPasses
      <4>3. \A i, j \in 1..n :
               /\ type(i).header_length = type(j).header_length
               /\ type(i).delimiter_offset = type(j).delimiter_offset
               /\ type(i).delimiter_value = type(j).delimiter_value
               /\ type(i).volume_offset = type(j).volume_offset
        BY <4>1 DEF PairPasses
      <4>4. \A t \in Range(MsgClassPack) : t.default_constructible /\ t.handle_order
        BY <3>1, <3>3
      <4> QED
        BY <1>1, <4>2, <4>3, <4>4 DEF Consistent, Agree
    <3> QED
      BY <3>2, <3>3
  <2>7. Consistent => Room
    <3> SUFFICES ASSUME Consistent PROVE Room
      OBVIOUS
    <3> DEFINE shortest == determine_min_msg_len(MsgClassPack)
    <3>1. shortest \in {MsgClassPack[i].msg_length : i \in DOMAIN MsgClassPack}
      BY <1>1, <2>4, LengthsFound
    <3> HIDE DEF shortest, n
    <3>2. PICK i \in 1..n : shortest = type(i).msg_length
      BY <1>1, <3>1
    <3>3. 1 \in 1..n
      BY <1>1, <1>3
    <3>4. type(i).header_length = type(1).header_length
      BY <1>1, <3>3 DEF Consistent, Agree
    <3>5. type(i).header_length \in Nat /\ type(i).msg_length \in Nat
      BY <1>1, MembersTyped
    <3>6. type(i).header_length + 2 < type(i).msg_length
      BY <1>1
    <3> QED
      BY <3>2, <3>4, <3>5, <3>6 DEF shortest
  <2> HIDE DEF n, Pairs, Singles, Room
  <2>8. SocketHandlerAccepts(MsgClassPack) <=>
          /\ n >= 3 /\ Pairs /\ AlternativesDefaultConstructible(MsgClassPack) /\ Room
    BY <2>1, <2>2, <2>3 DEF SocketHandlerAccepts, Room
  <2>9. OrderBookAccepts(MsgClassPack) <=> has_FIX_msg_handling_interface(MsgClassPack)
    BY <2>1 DEF OrderBookAccepts
  <2> QED
    BY <2>5, <2>6, <2>7, <2>8, <2>9 DEF n
<1> QED
  BY <1>1, <1>2, <1>3

LEMMA IncreasingOfOne ==
    ASSUME NEW n \in Nat
    PROVE  Increasing(n, 1) = [1..1 -> 0..(n - 1)]
<1>1. 1..(1 - 1) = {}
  OBVIOUS
<1> QED
  BY <1>1 DEF Increasing

LEMMA IncreasingOfTwo ==
    ASSUME NEW n \in Nat
    PROVE  /\ \A c \in Increasing(n, 2) :
                 /\ c[1] \in 0..(n - 1) /\ c[2] \in 0..(n - 1) /\ c[1] < c[2]
                 /\ c = Pair(c[1], c[2])
           /\ \A a, b \in 0..(n - 1) : a < b => Pair(a, b) \in Increasing(n, 2)
<1>1. 1..(2 - 1) = {1} /\ 1..2 = {1, 2} /\ 1 + 1 = 2
  OBVIOUS
<1>2. ASSUME NEW c \in Increasing(n, 2)
      PROVE  /\ c[1] \in 0..(n - 1) /\ c[2] \in 0..(n - 1) /\ c[1] < c[2]
             /\ c = Pair(c[1], c[2])
  <2>1. c \in [1..2 -> 0..(n - 1)] /\ \A i \in 1..(2 - 1) : c[i] < c[i + 1]
    BY DEF Increasing
  <2>2. c[1] \in 0..(n - 1) /\ c[2] \in 0..(n - 1)
    BY <1>1, <2>1
  <2>3. c[1] < c[2]
    BY <1>1, <2>1
  <2>4. c = [i \in 1..2 |-> c[i]]
    BY <2>1
  <2>5. \A i \in 1..2 : c[i] = IF i = 1 THEN c[1] ELSE c[2]
    BY <1>1
  <2> QED
    BY <2>2, <2>3, <2>4, <2>5 DEF Pair
<1>3. ASSUME NEW a \in 0..(n - 1), NEW b \in 0..(n - 1), a < b
      PROVE  Pair(a, b) \in Increasing(n, 2)
  <2>1. Pair(a, b) \in [1..2 -> 0..(n - 1)]
    BY DEF Pair
  <2>2. Pair(a, b)[1] = a /\ Pair(a, b)[2] = b
    BY DEF Pair
  <2>3. \A i \in 1..(2 - 1) : Pair(a, b)[i] < Pair(a, b)[i + 1]
    BY <1>1, <1>3, <2>2
  <2> QED
    BY <2>1, <2>3 DEF Increasing
<1> QED
  BY <1>2, <1>3

\* The index i of a pack of n, for each of its places
Indexes(n) == [i \in 1..n |-> i - 1]

LEMMA SinglesComplete ==
    ASSUME NEW n \in Nat
    PROVE  LET groups == nr_combs(Indexes(n), 1)
           IN Range(groups) = Increasing(n, 1) /\ IsInjective(groups)
<1> DEFINE pack == Indexes(n)
           groups == nr_combs(pack, 1)
           one(x) == [i \in 1..1 |-> x]
<1>1. pack \in Seq(0..(n - 1)) /\ Len(pack) = n /\ \A i \in 1..n : pack[i] = i - 1
  BY DEF Indexes
<1> HIDE DEF pack
<1>2. DOMAIN groups = 1..n /\ \A g \in 1..n : groups[g] = one(pack[g])
  <2>1. /\ DOMAIN groups = 1..Len(pack)
        /\ \A g \in 1..Len(pack) : groups[g] = [i \in 1..1 |-> pack[g]]
    <3> DEFINE T == 0..(n - 1)
    <3>1. pack \in Seq(T)
      BY <1>1
    <3> HIDE DEF T
    <3> QED
      BY <3>1, GroupsOfOne
  <2> QED
    BY <1>1, <2>1
<1> HIDE DEF groups
<1>3. \A g \in 1..n : groups[g] = one(g - 1)
  BY <1>1, <1>2
<1>4. Range(groups) = [1..1 -> 0..(n - 1)]
  <2>1. ASSUME NEW c \in [1..1 -> 0..(n - 1)]
        PROVE  c \in Range(groups)
    <3>1. c[1] \in 0..(n - 1) /\ c = one(c[1])
      OBVIOUS
    <3> DEFINE g == c[1] + 1
    <3>2. g \in 1..n /\ g - 1 = c[1]
      BY <3>1
    <3> HIDE DEF g
    <3>3. groups[g] = one(c[1])
      BY <1>3, <3>2
    <3>4. groups[g] = c /\ g \in DOMAIN groups
      BY <1>2, <3>1, <3>2, <3>3
    <3> QED
      BY <3>4 DEF Range
  <2>2. \A g \in 1..n : groups[g] \in [1..1 -> 0..(n - 1)]
    <3>1. \A g \in 1..n : g - 1 \in 0..(n - 1)
      OBVIOUS
    <3> QED
      BY <1>3, <3>1
  <2> QED
    BY <1>2, <2>1, <2>2 DEF Range
<1>5. IsInjective(groups)
  <2> SUFFICES ASSUME NEW g \in 1..n, NEW h \in 1..n, groups[g] = groups[h]
               PROVE  g = h
    BY <1>2 DEF IsInjective
  <2>1. one(g - 1)[1] = one(h - 1)[1]
    BY <1>3
  <2>2. g - 1 = h - 1
    BY <2>1
  <2> QED
    BY <2>2
<1> QED
  BY <1>4, <1>5, IncreasingOfOne DEF pack, groups

LEMMA NoPairs ==
    ASSUME NEW n \in Nat, n < 2
    PROVE  LET groups == nr_combs(Indexes(n), 2)
           IN Range(groups) = Increasing(n, 2) /\ IsInjective(groups)
<1> DEFINE groups == nr_combs(Indexes(n), 2)
           cohorts == [k \in 1..(n - 2 + 1) |-> Cohort(n, 2, (n - 2 + 1) + 1 - k)]
<1>1. 1..(n - 2 + 1) = {}
  OBVIOUS
<1>2. Len(cohorts) = 0
  <2> DEFINE cohort(k) == Cohort(n, 2, (n - 2 + 1) + 1 - k)
  <2>1. cohorts = [k \in {} |-> cohort(k)]
    BY <1>1
  <2> HIDE DEF cohorts, cohort
  <2>2. 1..0 = {}
    OBVIOUS
  <2>3. cohorts = [k \in 1..0 |-> cohort(k)]
    BY <2>1, <2>2
  <2> QED
    BY <2>3
<1> HIDE DEF cohorts
<1>3. non_rep_index_combinations(n, 2) = cohorts
  <2>1. FlattenSeq(cohorts) = cohorts
    BY <1>2 DEF FlattenSeq
  <2>2. non_rep_index_combinations(n, 2) = FlattenSeq(FlattenSeq(cohorts))
    BY DEF non_rep_index_combinations, cohorts
  <2> QED
    BY <2>1, <2>2
<1>4. DOMAIN groups = {}
  <2>1. Len(Indexes(n)) = n
    BY DEF Indexes
  <2>2. 1..(0 \div 2) = {}
    OBVIOUS
  <2> QED
    BY <1>2, <1>3, <2>1, <2>2 DEF nr_combs, split_t
<1> HIDE DEF groups
<1>5. Range(groups) = {} /\ IsInjective(groups)
  BY <1>4 DEF Range, IsInjective
<1>6. Increasing(n, 2) = {}
  <2>1. \A a, b \in 0..(n - 1) : ~(a < b)
    OBVIOUS
  <2> QED
    BY <2>1, IncreasingOfTwo
<1> QED
  BY <1>5, <1>6 DEF groups

LEMMA PairsAllOnce ==
    ASSUME NEW n \in Nat, n >= 2
    PROVE  LET groups == nr_combs(Indexes(n), 2)
           IN Range(groups) = Increasing(n, 2) /\ IsInjective(groups)
<1> DEFINE pack == Indexes(n)
           groups == nr_combs(pack, 2)
           last == n - 1
<1>1. pack \in Seq(0..last) /\ Len(pack) = n /\ \A i \in 1..n : pack[i] = i - 1
  BY DEF Indexes
<1>2. last \in Nat
  OBVIOUS
<1> HIDE DEF pack
<1>3. PICK off : GroupsInPlace(groups, off, pack)
  <2>1. Len(pack) >= 2
    BY <1>1
  <2> QED
    BY <1>1, <2>1, GroupsOfTwo
<1> HIDE DEF groups
<1> DEFINE m == off[last]
<1>4. /\ off \in [0..last -> Nat] /\ off[0] = 0
      /\ \A k \in 1..last : off[k] = off[k - 1] + (n - k)
  BY <1>1, <1>3 DEF GroupsInPlace, PairOffsets
<1>5. /\ DOMAIN groups = 1..m
      /\ \A k \in 1..last : \A j \in 1..(n - k) :
            /\ off[k - 1] + j \in 1..m
            /\ groups[off[k - 1] + j] = Pair(pack[k], pack[k + j])
  BY <1>1, <1>3 DEF GroupsInPlace
<1>6. m \in Nat
  BY <1>2, <1>4
<1> HIDE DEF m
\* What is at the place g
<1> DEFINE IsAt(g, k, j) == /\ k \in 1..last /\ j \in 1..(n - k)
                            /\ g = off[k - 1] + j
                            /\ groups[g] = Pair(k - 1, k - 1 + j)
<1>7. ASSUME NEW k \in 1..last, NEW j \in 1..(n - k)
      PROVE  off[k - 1] + j \in 1..m /\ IsAt(off[k - 1] + j, k, j)
  <2>1. k \in 1..n /\ k + j \in 1..n /\ (k + j) - 1 = k - 1 + j
    BY <1>2
  <2>2. pack[k] = k - 1 /\ pack[k + j] = k - 1 + j
    BY <1>1, <2>1
  <2> QED
    BY <1>5, <2>2
<1>8. ASSUME NEW g \in 1..m
      PROVE  \E k, j : IsAt(g, k, j)
  <2>1. PICK k \in 1..last : off[k - 1] < g /\ g <= off[k]
    BY <1>2, <1>4, EveryPlace DEF m
  <2> DEFINE j == g - off[k - 1]
  <2>2. off[k] = off[k - 1] + (n - k) /\ off[k - 1] \in Nat
    <3>1. k - 1 \in 0..last
      BY <1>2
    <3> QED
      BY <1>4, <3>1
  <2>3. j \in 1..(n - k) /\ off[k - 1] + j = g
    BY <1>2, <1>6, <2>1, <2>2
  <2> HIDE DEF j, IsAt
  <2>4. IsAt(g, k, j)
    BY <1>7, <2>3
  <2> QED
    BY <2>4
<1>9. \A g, k, j : IsAt(g, k, j) => groups[g][1] = k - 1 /\ groups[g][2] = k - 1 + j
  BY DEF Pair
<1>10. Range(groups) = Increasing(n, 2)
  <2>1. ASSUME NEW g \in 1..m
        PROVE  groups[g] \in Increasing(n, 2)
    <3>1. PICK k, j : IsAt(g, k, j)
      BY <1>8
    <3>2. k - 1 \in 0..(n - 1) /\ k - 1 + j \in 0..(n - 1) /\ k - 1 < k - 1 + j
      BY <1>2, <3>1
    <3>3. Pair(k - 1, k - 1 + j) \in Increasing(n, 2)
      BY <3>2, IncreasingOfTwo
    <3> QED
      BY <3>1, <3>3
  <2>2. ASSUME NEW c \in Increasing(n, 2)
        PROVE  c \in Range(groups)
    <3>1. /\ c[1] \in 0..(n - 1) /\ c[2] \in 0..(n - 1) /\ c[1] < c[2]
          /\ c = Pair(c[1], c[2])
      BY IncreasingOfTwo
    <3> DEFINE k == c[1] + 1
               j == c[2] - c[1]
    <3>2. k \in 1..last /\ j \in 1..(n - k) /\ k - 1 = c[1] /\ k - 1 + j = c[2]
      BY <3>1
    <3> HIDE DEF k, j, last
    <3>3. off[k - 1] + j \in 1..m /\ IsAt(off[k - 1] + j, k, j)
      BY <1>7, <3>2
    <3>4. groups[off[k - 1] + j] = c
      BY <3>1, <3>2, <3>3
    <3> QED
      BY <1>5, <3>3, <3>4 DEF Range
  <2> QED
    BY <1>5, <2>1, <2>2 DEF Range
<1>11. IsInjective(groups)
  <2> SUFFICES ASSUME NEW g \in 1..m, NEW h \in 1..m, groups[g] = groups[h]
               PROVE  g = h
    BY <1>5 DEF IsInjective
  <2>1. PICK k, j : IsAt(g, k, j)
    BY <1>8
  <2>2. PICK l, i : IsAt(h, l, i)
    BY <1>8
  <2>3. k - 1 = l - 1 /\ k - 1 + j = l - 1 + i
    <3> HIDE DEF IsAt
    <3>1. groups[g][1] = k - 1 /\ groups[g][2] = k - 1 + j
      BY <1>9, <2>1
    <3>2. groups[h][1] = l - 1 /\ groups[h][2] = l - 1 + i
      BY <1>9, <2>2
    <3> QED
      BY <3>1, <3>2
  <2>4. k \in Int /\ l \in Int /\ j \in Int /\ i \in Int
    BY <1>2, <2>1, <2>2
  <2>5. k = l /\ j = i
    BY <2>3, <2>4
  <2> QED
    BY <2>1, <2>2, <2>5
<1> QED
  BY <1>10, <1>11 DEF groups, pack

-----------------------------------------------------------------------------
(***************************************************************************)
(* What does not change while the program runs.                            *)
(***************************************************************************)
PcValues == {"template", "refused", "idle", "header", "scan", "search", "length",
             "discard", "rest", "return", "terminated"}

NotRunning == pc \in {"template", "refused"}

Accepted == SocketHandlerAccepts(MsgClassPack) /\ OrderBookAccepts(MsgClassPack)

\* Nothing has happened before the program runs; while it runs, the handler
\* and the socket are what the pack and the wire made them.
Ground ==
    /\ pc \in PcValues
    /\ \E program \in Programs : MsgClassPack = program.pack /\ wire = program.wire
    /\ pc # "template" => (pc # "refused" <=> Accepted)
    /\ NotRunning => /\ mem_span = <<>> /\ buffer_span = <<>> /\ returned = <<>>
                     /\ read_index = 0 /\ end_of_buffer = FALSE
                     /\ bytes_read = 0 /\ msg_length = 0 /\ excess_bytes = 0
    /\ ~NotRunning => /\ layout = Layout(MsgClassPack)
                      /\ mem_span = populate_memory(wire)
                      /\ DOMAIN buffer_span = 0..(buffer_size - 1)

\* No step of the running program changes what it was made from.
LEMMA RunKeeps ==
    ASSUME Run
    PROVE  /\ ~NotRunning /\ ~NotRunning' /\ pc' \in PcValues
           /\ UNCHANGED <<MsgClassPack, layout, wire, mem_span>>
           /\ DOMAIN buffer_span' = DOMAIN buffer_span
<1> USE DEF NotRunning, PcValues
<1>1. UNCHANGED <<MsgClassPack, layout>>
  BY DEF Run
<1>2. \A b, dest, len : DOMAIN Received(b, dest, len) = DOMAIN b
  BY DEF Received
<1>3. \A b, n : DOMAIN ShiftLeft(b, n) = DOMAIN b
  BY DEF ShiftLeft
<1>4. CASE Call
  BY <1>1, <1>4 DEF Call, socket
<1>5. CASE ReadHeader
  BY <1>1, <1>2, <1>3, <1>5 DEF ReadHeader, Consume
<1>6. CASE Scan
  BY <1>1, <1>2, <1>6 DEF Scan, Consume
<1>7. CASE NoDelimiter
  BY <1>1, <1>3, <1>7 DEF NoDelimiter, socket
<1>8. CASE DelimiterFound
  BY <1>1, <1>3, <1>8 DEF DelimiterFound, socket
<1>9. CASE GetLength
  BY <1>1, <1>9 DEF GetLength, socket
<1>10. CASE Discard
  BY <1>1, <1>2, <1>10 DEF Discard, Consume
<1>11. CASE ReadRest
  BY <1>1, <1>2, <1>11 DEF ReadRest, Consume
<1>12. CASE Return
  BY <1>1, <1>12 DEF Return, socket
<1>13. CASE Terminate
  <2>1. pc \in {"header", "scan", "discard", "rest"}
    BY <1>13 DEF Terminate, RecvCall
  <2> QED
    BY <1>1, <1>13, <2>1 DEF Terminate, socket
<1> QED
  BY <1>4, <1>5, <1>6, <1>7, <1>8, <1>9, <1>10, <1>11, <1>12, <1>13 DEF Run

LEMMA GroundInit ==
    ASSUME Init
    PROVE  Ground
BY DEF Init, Ground, PcValues, NotRunning

LEMMA GroundStep ==
    ASSUME Ground, [Next]_vars
    PROVE  Ground'
<1>1. CASE Instantiate
  <2>1. pc = "template" /\ UNCHANGED <<MsgClassPack, wire, read_index, end_of_buffer,
                          bytes_read, msg_length, excess_bytes, returned>>
    BY <1>1 DEF Instantiate
  <2>2. CASE Accepted
    <3>1. /\ pc' = "idle" /\ layout' = Layout(MsgClassPack)
          /\ mem_span' = populate_memory(wire)
          /\ buffer_span' = [k \in 0..(buffer_size' - 1) |-> Unwritten]
      BY <1>1, <2>2 DEF Instantiate, Accepted
    <3>2. DOMAIN buffer_span' = 0..(buffer_size' - 1)
      BY <3>1
    <3>3. Accepted'
      BY <2>1, <2>2 DEF Accepted
    <3> QED
      BY <2>1, <3>1, <3>2, <3>3 DEF Ground, PcValues, NotRunning
  <2>3. CASE ~Accepted
    <3>1. pc' = "refused" /\ UNCHANGED <<layout, mem_span, buffer_span>>
      BY <1>1, <2>3 DEF Instantiate, Accepted
    <3>2. ~Accepted'
      BY <2>1, <2>3 DEF Accepted
    <3> QED
      BY <2>1, <3>1, <3>2 DEF Ground, PcValues, NotRunning
  <2> QED
    BY <2>2, <2>3
<1>2. CASE Run
  <2>1. /\ ~NotRunning /\ ~NotRunning' /\ pc' \in PcValues
        /\ UNCHANGED <<MsgClassPack, layout, wire, mem_span>>
        /\ DOMAIN buffer_span' = DOMAIN buffer_span
    BY <1>2, RunKeeps
  <2>2. Accepted
    BY <2>1 DEF Ground, NotRunning
  <2>3. Accepted' /\ buffer_size' = buffer_size
    BY <2>1, <2>2 DEF Accepted, buffer_size
  <2> QED
    BY <2>1, <2>3 DEF Ground, NotRunning
<1>3. CASE UNCHANGED vars
  BY <1>3 DEF vars, socket, Ground, NotRunning, Accepted, buffer_size
<1> QED
  BY <1>1, <1>2, <1>3 DEF Next

LEMMA GroundAlways == Spec => []Ground
<1>1. Init => Ground
  BY GroundInit
<1>2. Ground /\ [Next]_vars => Ground'
  BY GroundStep
<1> QED
  BY <1>1, <1>2, PTL DEF Spec

\* What the assumption says of the pack and the wire of the program
LEMMA PackIsGood ==
    ASSUME Ground
    PROVE  GoodPack(MsgClassPack)
<1>1. PICK program \in Programs : MsgClassPack = program.pack
  BY DEF Ground
<1>2. /\ MsgClassPack \in Seq(MsgTypes)
      /\ \A type \in Range(MsgClassPack) :
            /\ type.delimiter_offset + 2 <= type.header_length
            /\ type.header_length + 2 < type.msg_length
            /\ type.payload \subseteq 0..(type.msg_length - 1)
  BY <1>1, ProgramsAssumption DEF ProgramsAssumption
<1>3. \A i \in 1..Len(MsgClassPack) : MsgClassPack[i] \in Range(MsgClassPack)
  BY <1>2 DEF Range
<1> QED
  BY <1>2, <1>3 DEF GoodPack

\* The compile-time checks let pass packs of three or more types only, all of
\* them consistent, whatever the types and however many; and they let pass
\* every such pack whose types have the length in one place
\* (FIXMsgTypeChecks.hpp:97-168, monoidal_class_template.hpp:26-50).
THEOREM PacksDecided == Spec => []ChecksDecide
<1>1. Ground => ChecksDecide
  <2> SUFFICES ASSUME Ground, pc # "template"
               PROVE  pc # "refused" <=> Consistent /\ Len(MsgClassPack) >= 3
    BY Zenon DEF ChecksDecide
  <2>1. pc # "refused" <=> Accepted
    BY DEF Ground
  <2>2. Accepted <=> Consistent /\ Len(MsgClassPack) >= 3
    BY PackIsGood, AcceptedIsConsistent DEF Accepted
  <2> QED
    BY <2>1, <2>2
<1> QED
  BY <1>1, GroundAlways, PTL

\* The checks see every type and every two types once, however many there
\* are (non_rep_combinations.hpp:16-79).
THEOREM GroupsComplete == Spec => []PairsComplete
<1>1. Ground => PairsComplete
  <2> SUFFICES ASSUME Ground, NEW r \in {1, 2}
               PROVE  LET n == Len(MsgClassPack)
                          groups == nr_combs([i \in 1..n |-> i - 1], r)
                      IN Range(groups) = Increasing(n, r) /\ IsInjective(groups)
    BY DEF PairsComplete
  <2> DEFINE n == Len(MsgClassPack)
  <2>1. n \in Nat
    BY PackIsGood DEF GoodPack
  <2> HIDE DEF n
  <2>2. Range(nr_combs(Indexes(n), r)) = Increasing(n, r)
            /\ IsInjective(nr_combs(Indexes(n), r))
    <3>1. CASE r = 1
      BY <2>1, <3>1, SinglesComplete
    <3>2. CASE r = 2
      BY <2>1, <3>2, NoPairs, PairsAllOnce
    <3> QED
      BY <3>1, <3>2
  <2> QED
    BY <2>2 DEF Indexes, n
<1> QED
  BY <1>1, GroundAlways, PTL

\* The members of a pack that compiled, and the handler made from it
LEMMA Compiled ==
    ASSUME Ground, ~NotRunning
    PROVE  /\ Consistent /\ Len(MsgClassPack) \in Nat /\ Len(MsgClassPack) >= 3
           /\ GoodPack(MsgClassPack)
           /\ DOMAIN MsgClassPack = 1..Len(MsgClassPack)
           /\ \A i \in DOMAIN MsgClassPack : MsgClassPack[i] \in MsgTypes
<1>1. GoodPack(MsgClassPack)
  BY PackIsGood
<1>2. MsgClassPack \in Seq(MsgTypes)
  BY <1>1 DEF GoodPack
<1>3. Accepted
  BY DEF Ground, NotRunning
<1>4. Consistent /\ Len(MsgClassPack) >= 3
  BY <1>1, <1>3, AcceptedIsConsistent DEF Accepted
<1>5. DOMAIN MsgClassPack = 1..Len(MsgClassPack) /\ Len(MsgClassPack) \in Nat
  BY <1>2
<1>6. \A i \in 1..Len(MsgClassPack) : MsgClassPack[i] \in MsgTypes
  BY <1>2, Elements
<1> QED
  BY <1>1, <1>4, <1>5, <1>6

LEMMA SizesFound ==
    ASSUME Ground, ~NotRunning
    PROVE  /\ buffer_size = Max(MsgLengths) /\ shortest_msg_size = Min(MsgLengths)
           /\ buffer_size \in MsgLengths /\ shortest_msg_size \in MsgLengths
           /\ MsgLengths \in SUBSET Nat
           /\ buffer_size \in Nat /\ shortest_msg_size \in Nat
           /\ \A i \in DOMAIN MsgClassPack : /\ MsgClassPack[i].msg_length <= buffer_size
                                             /\ shortest_msg_size <= MsgClassPack[i].msg_length
           /\ header_length = MsgClassPack[1].header_length
           /\ delimit_offset = MsgClassPack[1].delimiter_offset
           /\ header_length \in Nat /\ delimit_offset \in Nat
           /\ delimit_offset + 2 <= header_length
           /\ header_length + 2 < shortest_msg_size
<1> DEFINE pack == MsgClassPack
           longest == determine_max_msg_len(pack)
           shortest == determine_min_msg_len(pack)
<1>1. layout = Layout(pack)
  BY DEF Ground
<1>2. /\ buffer_size = longest /\ shortest_msg_size = shortest
      /\ header_length = pack[1].header_length
      /\ delimit_offset = pack[1].delimiter_offset
  BY <1>1 DEF Layout, buffer_size, shortest_msg_size, header_length, delimit_offset
<1>3. pack \in Seq(MsgTypes) /\ Len(pack) # 0
  BY Compiled DEF GoodPack
<1>4. /\ longest = Max(MsgLengths) /\ shortest = Min(MsgLengths)
      /\ longest \in MsgLengths /\ shortest \in MsgLengths /\ MsgLengths \in SUBSET Nat
      /\ \A i \in DOMAIN pack : pack[i].msg_length <= longest /\ shortest <= pack[i].msg_length
  BY <1>3, LengthsFound DEF MsgLengths
<1> HIDE DEF longest, shortest
<1>5. PICK i \in DOMAIN pack : shortest = pack[i].msg_length
  BY <1>4 DEF MsgLengths
<1>6. 1 \in DOMAIN pack
  BY Compiled
<1>7. pack[i].header_length = pack[1].header_length
  BY <1>6, Compiled DEF Consistent, Agree
<1>8. /\ pack[i].header_length + 2 < pack[i].msg_length
      /\ pack[1].delimiter_offset + 2 <= pack[1].header_length
  BY <1>6, Compiled DEF GoodPack
<1>9. pack[1].header_length \in Nat /\ pack[1].delimiter_offset \in Nat
  BY <1>6, Compiled, MembersTyped
<1> QED
  BY <1>2, <1>4, <1>5, <1>7, <1>8, <1>9

\* The buffer holds the longest type of any pack, and the search reads ahead
\* no more than the shortest (FIXMsgTypeChecks.hpp:170-214).
THEOREM BufferFits == Spec => []LengthsBound
<1>1. Ground => LengthsBound
  <2> SUFFICES ASSUME Ground, pc = "idle"
               PROVE  /\ Cardinality(DOMAIN buffer_span) = Max(MsgLengths)
                      /\ shortest_msg_size = Min(MsgLengths)
    BY DEF LengthsBound
  <2>1. ~NotRunning
    BY DEF NotRunning
  <2>2. DOMAIN buffer_span = 0..(buffer_size - 1)
    BY <2>1 DEF Ground
  <2>3. /\ buffer_size = Max(MsgLengths) /\ shortest_msg_size = Min(MsgLengths)
        /\ buffer_size \in Nat
    BY <2>1, SizesFound
  <2> DEFINE size == buffer_size
  <2> HIDE DEF size
  <2>4. Cardinality(0..(size - 1)) = size
    <3>1. size \in Nat /\ 0 \in Int /\ size - 1 \in Int
      BY <2>3 DEF size
    <3>2. Cardinality(0..(size - 1)) = IF 0 > size - 1 THEN 0 ELSE (size - 1) - 0 + 1
      BY <3>1, FS_Interval
    <3> QED
      BY <3>1, <3>2
  <2> QED
    BY <2>2, <2>3, <2>4 DEF size
<1> QED
  BY <1>1, GroundAlways, PTL

-----------------------------------------------------------------------------
(***************************************************************************)
(* Where the handler is in the stream.                                     *)
(***************************************************************************)
\* The first n items are read and their messages answered.
Answered(n) ==
    /\ n \in 0..Len(wire)
    /\ Len(returned) = Len(Messages(n))
    /\ \A j \in DOMAIN returned : Answers(Messages(n)[j], returned[j])

\* The first message behind the first n items is the m-th item, if there is one.
Ahead(n, m) ==
    /\ m \in (n + 1)..(Len(wire) + 1)
    /\ \A i \in (n + 1)..(m - 1) : ~wire[i].header
    /\ m <= Len(wire) => wire[m].header

\* The buffer has the last len bytes that were read.
HoldsLast(len) ==
    \A k \in 0..(len - 1) : buffer_span[k] = mem_span[read_index - len + k + 1]

\* The buffer has the first len bytes of the item m.
Holds(m, len) ==
    \A k \in 0..(len - 1) : buffer_span[k] = mem_span[Ends(m - 1) + k + 1]

\* No header is read but for its last byte, and the search goes on behind the
\* bytes that are kept.
Searching(n, m, r) ==
    /\ Ends(n) + header_length <= r
    /\ r <= Ends(m - 1) + header_length - 1

\* The header of the item m has been found.
Found(m) ==
    /\ m <= Len(wire)
    /\ bytes_read \in header_length..shortest_msg_size

\* How many bytes of a message the handler keeps
Kept(m) == Min({wire[m].length, buffer_size})

Framing(n, m) ==
    /\ wire # <<>> /\ Answered(n) /\ Ahead(n, m)
    /\ pc = "scan" =>
         Searching(n, m, read_index) /\ HoldsLast(bytes_to_keep)
    /\ pc = "search" =>
         Searching(n, m, read_index - scan_length) /\ HoldsLast(shortest_msg_size)
    /\ pc = "length" =>
         Found(m) /\ read_index = Ends(m - 1) + bytes_read /\ Holds(m, bytes_read)
    /\ pc = "discard" =>
         /\ Found(m) /\ wire[m].length > buffer_size /\ excess_bytes > 0
         /\ read_index + excess_bytes + (buffer_size - bytes_read) = Ends(m)
    /\ pc = "rest" =>
         /\ Found(m) /\ msg_length = Kept(m)
         /\ read_index + (msg_length - bytes_read) = Ends(m)
         /\ wire[m].length <= buffer_size => Holds(m, bytes_read)
    /\ pc = "return" =>
         /\ Found(m) /\ msg_length = Kept(m) /\ read_index = Ends(m)
         /\ wire[m].length <= buffer_size => Holds(m, msg_length)

InMessage == {"scan", "search", "length", "discard", "rest", "return"}

\* Between two calls the socket is at the end of an item; in a call, at a
\* place that the position of the next message tells.
InStream ==
    /\ pc \in {"idle", "header"} =>
         \E n \in 0..Len(wire) : Answered(n) /\ read_index = Ends(n)
    /\ pc = "header" => ~end_of_buffer
    /\ pc \in InMessage =>
         \E n \in 0..Len(wire) : \E m \in 1..(Len(wire) + 1) : Framing(n, m)

\* The flag tells whether the last byte was read.
FlagTells ==
    /\ read_index \in 0..mem_size
    /\ end_of_buffer \in BOOLEAN
    /\ end_of_buffer = TRUE <=> read_index = mem_size /\ read_index > 0

-----------------------------------------------------------------------------
(***************************************************************************)
(* The items of the wire, one after the other.                             *)
(***************************************************************************)
LEMMA WireTyped ==
    ASSUME Ground
    PROVE  /\ wire \in Seq(Items) /\ Len(wire) \in Nat /\ DOMAIN wire = 1..Len(wire)
           /\ \A i \in 1..Len(wire) :
                 /\ wire[i] \in Items /\ wire[i].length \in Nat /\ wire[i].length > 0
                 /\ wire[i].header \in BOOLEAN /\ wire[i].checksum \in BOOLEAN
                 /\ wire[i].fill \in 0..255
<1>1. PICK program \in Programs : wire = program.wire
  BY DEF Ground
<1>2. wire \in Seq(Items)
  BY <1>1, ProgramsAssumption DEF ProgramsAssumption
<1>3. Len(wire) \in Nat /\ DOMAIN wire = 1..Len(wire)
  BY <1>2
<1>4. \A i \in 1..Len(wire) : wire[i] \in Items
  BY <1>2, Elements
<1>5. \A item \in Items : /\ item.length \in Nat /\ item.length > 0
                          /\ item.header \in BOOLEAN /\ item.checksum \in BOOLEAN
                          /\ item.fill \in 0..255
  BY DEF Items
<1> QED
  BY <1>2, <1>3, <1>4, <1>5

\* What the assumption says of the items, when there are any
LEMMA WireIsGood ==
    ASSUME Ground, ~NotRunning, wire # <<>>
    PROVE  /\ header_length = 6 /\ delimit_offset = 4 /\ delimit_value = <<80, 235>>
           /\ length_offset = 0
           /\ shortest_msg_size \in Nat /\ shortest_msg_size >= 9
           /\ \A i \in 1..Len(wire) :
                 /\ wire[i].header => wire[i].length \in shortest_msg_size..255
                 /\ wire[i].fill \notin {80, 235}
<1>1. PICK program \in Programs : MsgClassPack = program.pack /\ wire = program.wire
  BY DEF Ground
<1>2. \A item \in Range(wire) :
        /\ MsgClassPack[1].header_length = 6 /\ MsgClassPack[1].delimiter_offset = 4
        /\ MsgClassPack[1].delimiter_value = 235 * 256 + 80
        /\ \A type \in Range(MsgClassPack) : type.length_offset = 0
        /\ item.header => item.length \in determine_min_msg_len(MsgClassPack)..255
        /\ item.fill \notin {80, 235}
  BY <1>1, ProgramsAssumption DEF ProgramsAssumption
<1>3. \A i \in 1..Len(wire) : wire[i] \in Range(wire)
  BY WireTyped DEF Range
<1>4. 1 \in 1..Len(wire)
  <2>1. Len(wire) # 0
    BY WireTyped
  <2> QED
    BY <2>1, WireTyped
<1>5. /\ MsgClassPack[1].header_length = 6 /\ MsgClassPack[1].delimiter_offset = 4
      /\ MsgClassPack[1].delimiter_value = 235 * 256 + 80
  BY <1>2, <1>3, <1>4
<1>6. layout = Layout(MsgClassPack)
  BY DEF Ground
<1>7. delimit_value = <<80, 235>>
  <2>1. (235 * 256 + 80) % 256 = 80 /\ (235 * 256 + 80) \div 256 = 235
    OBVIOUS
  <2> QED
    BY <1>5, <1>6, <2>1 DEF delimit_value, Layout
<1>8. header_length = 6 /\ delimit_offset = 4
  BY <1>5, SizesFound
<1>o. length_offset = 0
  <2>1. MsgClassPack[1] \in Range(MsgClassPack)
    BY Compiled DEF Range
  <2>2. MsgClassPack[1].length_offset = 0
    BY <1>2, <1>3, <1>4, <2>1
  <2> QED
    BY <1>6, <2>2 DEF length_offset, Layout
<1>9. shortest_msg_size \in Nat /\ shortest_msg_size >= 9
  BY <1>8, SizesFound
<1>10. shortest_msg_size = determine_min_msg_len(MsgClassPack)
  BY <1>6 DEF shortest_msg_size, Layout
<1> QED
  BY <1>2, <1>3, <1>7, <1>8, <1>9, <1>10, <1>o

\* Where the items end
LEMMA EndsAre ==
    ASSUME Ground
    PROVE  /\ Ends(0) = 0
           /\ \A i \in 1..Len(wire) : Ends(i) = Ends(i - 1) + wire[i].length
           /\ \A i \in 0..Len(wire) : Ends(i) \in Nat
<1> DEFINE n == Len(wire)
           len(i) == wire[i].length
           step == [i \in Nat |-> [x \in Nat |-> IF i + 1 \in 1..n THEN x + len(i + 1) ELSE x]]
<1>1. n \in Nat /\ \A i \in 1..n : len(i) \in Nat
  BY WireTyped
<1> HIDE DEF n, len
<1>2. step \in [Nat -> [Nat -> Nat]]
  BY <1>1
<1>3. \A i \in Nat, x \in Nat : i + 1 \in 1..n => step[i][x] = x + len(i + 1)
  OBVIOUS
<1> HIDE DEF step
<1>4. PICK f : Iterates(f, Nat, 0, step)
  BY <1>2, Recursion
<1>5. f \in [Nat -> Nat] /\ f[0] = 0 /\ \A i \in Nat : f[i + 1] = step[i][f[i]]
  BY <1>4 DEF Iterates
<1> DEFINE IsEnds(g) == g = [i \in 0..n |-> IF i = 0 THEN 0 ELSE g[i - 1] + len(i)]
           ends == CHOOSE g : IsEnds(g)
           h == [i \in 0..n |-> f[i]]
<1>6. IsEnds(h)
  <2>1. ASSUME NEW i \in 0..n
        PROVE  h[i] = IF i = 0 THEN 0 ELSE h[i - 1] + len(i)
    <3>1. CASE i = 0
      BY <1>5, <3>1
    <3>2. CASE i # 0
      <4>1. i - 1 \in Nat /\ i - 1 \in 0..n /\ (i - 1) + 1 = i /\ i \in 1..n
        BY <1>1, <3>2
      <4>2. f[(i - 1) + 1] = step[i - 1][f[i - 1]] /\ f[i - 1] \in Nat
        BY <1>5, <4>1
      <4>3. step[i - 1][f[i - 1]] = f[i - 1] + len(i)
        BY <1>3, <4>1, <4>2
      <4> QED
        BY <3>2, <4>1, <4>2, <4>3
    <3> QED
      BY <3>1, <3>2
  <2>2. h = [i \in 0..n |-> h[i]]
    OBVIOUS
  <2> HIDE DEF h
  <2> QED
    BY <2>1, <2>2, Zenon
<1> HIDE DEF h
<1>7. IsEnds(ends)
  BY <1>6
<1>8. \A i : Ends(i) = ends[i]
  BY DEF Ends, n, len
<1> HIDE DEF ends
<1>9. ends[0] = 0
  <2>1. 0 \in 0..n
    BY <1>1
  <2> QED
    BY <1>7, <2>1
<1>10. \A i \in 1..n : ends[i] = ends[i - 1] + len(i)
  <2> SUFFICES ASSUME NEW i \in 1..n
               PROVE  ends[i] = ends[i - 1] + len(i)
    OBVIOUS
  <2>1. i \in 0..n /\ i # 0
    BY <1>1
  <2> QED
    BY <1>7, <2>1
<1>11. \A i \in 0..n : ends[i] \in Nat
  <2> DEFINE S == {i \in Nat : i <= n => ends[i] \in Nat}
  <2>1. 0 \in S
    BY <1>9
  <2>2. ASSUME NEW i \in Nat, i \in S
        PROVE  i + 1 \in S
    <3> SUFFICES ASSUME i + 1 <= n PROVE ends[i + 1] \in Nat
      OBVIOUS
    <3>1. i + 1 \in 1..n /\ (i + 1) - 1 = i
      BY <1>1
    <3>2. ends[i] \in Nat /\ ends[i + 1] = ends[i] + len(i + 1)
      BY <1>1, <1>10, <2>2, <3>1
    <3> QED
      BY <1>1, <3>1, <3>2
  <2> HIDE DEF S
  <2>3. Nat \subseteq S
    BY <2>1, <2>2, Induction
  <2> QED
    BY <1>1, <2>3 DEF S
<1> QED
  BY <1>8, <1>9, <1>10, <1>11 DEF n, len

\* The ends rise with every item.
LEMMA EndsRise ==
    ASSUME Ground, NEW i \in 0..Len(wire), NEW j \in 0..Len(wire)
    PROVE  /\ i <= j => Ends(i) <= Ends(j)
           /\ i < j => Ends(i) < Ends(j) /\ Ends(i) + wire[i + 1].length <= Ends(j)
           /\ Ends(i) \in Nat /\ Ends(j) \in Nat
<1> DEFINE n == Len(wire)
           off == [k \in 0..n |-> Ends(k)]
<1>1. n \in Nat /\ \A k \in 1..n : wire[k].length \in Nat /\ wire[k].length > 0
  BY WireTyped
<1>2. \A k \in 0..n : Ends(k) \in Nat
  BY EndsAre
<1>3. \A k \in 1..n : Ends(k) = Ends(k - 1) + wire[k].length
  BY EndsAre
<1> HIDE DEF n
<1>4. off \in [0..n -> Nat] /\ \A k \in 0..n : off[k] = Ends(k)
  BY <1>2
<1> HIDE DEF off
<1>5. \A k \in 1..n : off[k - 1] <= off[k]
  <2> SUFFICES ASSUME NEW k \in 1..n PROVE off[k - 1] <= off[k]
    OBVIOUS
  <2>1. k \in 0..n /\ k - 1 \in 0..n
    BY <1>1
  <2>2. Ends(k) \in Nat /\ Ends(k - 1) \in Nat /\ Ends(k) = Ends(k - 1) + wire[k].length
    BY <1>2, <1>3, <2>1
  <2>3. Ends(k - 1) <= Ends(k)
    BY <1>1, <2>2
  <2> QED
    BY <1>4, <2>1, <2>3
<1>6. \A a, b \in 0..n : a <= b => Ends(a) <= Ends(b)
  <2> SUFFICES ASSUME NEW a \in 0..n, NEW b \in 0..n, a <= b
               PROVE  Ends(a) <= Ends(b)
    OBVIOUS
  <2>1. off[a] <= off[b]
    BY <1>1, <1>4, <1>5, OffsetsRise
  <2> QED
    BY <1>4, <2>1
<1>7. i \in 0..n /\ j \in 0..n
  BY DEF n
<1>8. ASSUME i < j
      PROVE  Ends(i) < Ends(j) /\ Ends(i) + wire[i + 1].length <= Ends(j)
  <2>1. i + 1 \in 1..n /\ i + 1 \in 0..n /\ i + 1 <= j /\ (i + 1) - 1 = i
    BY <1>1, <1>7, <1>8
  <2>2. Ends(i + 1) = Ends(i) + wire[i + 1].length
    BY <1>3, <2>1
  <2>3. Ends(i + 1) <= Ends(j)
    BY <1>6, <1>7, <2>1
  <2>4. Ends(i) \in Nat /\ Ends(j) \in Nat /\ Ends(i + 1) \in Nat
    BY <1>2, <1>7, <2>1
  <2>5. wire[i + 1].length \in Nat /\ wire[i + 1].length > 0
    BY <1>1, <2>1
  <2> QED
    BY <2>2, <2>3, <2>4, <2>5
<1> QED
  BY <1>2, <1>6, <1>7, <1>8

\* Which items are messages
LEMMA MessagesAre ==
    ASSUME Ground
    PROVE  /\ Messages(0) = <<>>
           /\ \A i \in 1..Len(wire) :
                 Messages(i) = IF wire[i].header THEN Append(Messages(i - 1), i)
                               ELSE Messages(i - 1)
           /\ \A i \in 0..Len(wire) : Messages(i) \in Seq(1..Len(wire))
<1> DEFINE n == Len(wire)
           D == Seq(1..n)
           head(i) == wire[i].header
           step == [i \in Nat |-> [x \in D |-> IF i + 1 \in 1..n /\ head(i + 1)
                                               THEN Append(x, i + 1) ELSE x]]
<1>1. n \in Nat
  BY WireTyped
<1>2. <<>> \in D /\ \A x \in D : \A i \in 1..n : Append(x, i) \in D
  OBVIOUS
<1> HIDE DEF n, head, D
<1>3. step \in [Nat -> [D -> D]]
  BY <1>2
<1>4. \A i \in Nat, x \in D : i + 1 \in 1..n =>
        step[i][x] = IF head(i + 1) THEN Append(x, i + 1) ELSE x
  OBVIOUS
<1> HIDE DEF step
<1>5. PICK f : Iterates(f, D, <<>>, step)
  BY <1>2, <1>3, Recursion
<1>6. f \in [Nat -> D] /\ f[0] = <<>> /\ \A i \in Nat : f[i + 1] = step[i][f[i]]
  BY <1>5 DEF Iterates
<1> DEFINE IsMessages(g) ==
             g = [i \in 0..n |-> IF i = 0 THEN <<>>
                                 ELSE IF head(i) THEN Append(g[i - 1], i) ELSE g[i - 1]]
           messages == CHOOSE g : IsMessages(g)
           h == [i \in 0..n |-> f[i]]
<1>7. IsMessages(h)
  <2>1. ASSUME NEW i \in 0..n
        PROVE  h[i] = IF i = 0 THEN <<>>
                      ELSE IF head(i) THEN Append(h[i - 1], i) ELSE h[i - 1]
    <3>1. CASE i = 0
      BY <1>6, <3>1
    <3>2. CASE i # 0
      <4>1. i - 1 \in Nat /\ i - 1 \in 0..n /\ (i - 1) + 1 = i /\ i \in 1..n
        BY <1>1, <3>2
      <4>2. f[(i - 1) + 1] = step[i - 1][f[i - 1]] /\ f[i - 1] \in D
        BY <1>6, <4>1
      <4>3. step[i - 1][f[i - 1]] = IF head(i) THEN Append(f[i - 1], i) ELSE f[i - 1]
        BY <1>4, <4>1, <4>2
      <4>4. h[i] = f[i] /\ h[i - 1] = f[i - 1]
        BY <4>1
      <4> HIDE DEF h
      <4> QED
        BY <3>2, <4>1, <4>2, <4>3, <4>4
    <3> QED
      BY <3>1, <3>2
  <2>2. h = [i \in 0..n |-> h[i]]
    OBVIOUS
  <2> HIDE DEF h
  <2> QED
    BY <2>1, <2>2, Zenon
<1> HIDE DEF h
<1>8. IsMessages(messages)
  BY <1>7
<1>9. \A i : Messages(i) = messages[i]
  BY DEF Messages, n, head
<1> HIDE DEF messages
<1>10. messages[0] = <<>>
  <2>1. 0 \in 0..n
    BY <1>1
  <2> QED
    BY <1>8, <2>1
<1>11. \A i \in 1..n : messages[i] = IF head(i) THEN Append(messages[i - 1], i)
                                     ELSE messages[i - 1]
  <2> SUFFICES ASSUME NEW i \in 1..n
               PROVE  messages[i] = IF head(i) THEN Append(messages[i - 1], i)
                                    ELSE messages[i - 1]
    OBVIOUS
  <2>1. i \in 0..n /\ i # 0
    BY <1>1
  <2> QED
    BY <1>8, <2>1
<1>12. \A i \in 0..n : messages[i] \in D
  <2> DEFINE S == {i \in Nat : i <= n => messages[i] \in D}
  <2>1. 0 \in S
    BY <1>2, <1>10
  <2>2. ASSUME NEW i \in Nat, i \in S
        PROVE  i + 1 \in S
    <3> SUFFICES ASSUME i + 1 <= n PROVE messages[i + 1] \in D
      OBVIOUS
    <3>1. i + 1 \in 1..n /\ (i + 1) - 1 = i
      BY <1>1
    <3>2. messages[i] \in D
      BY <1>1, <2>2
    <3>3. messages[i + 1] = IF head(i + 1) THEN Append(messages[i], i + 1) ELSE messages[i]
      BY <1>11, <3>1
    <3> QED
      BY <1>2, <3>1, <3>2, <3>3
  <2> HIDE DEF S
  <2>3. Nat \subseteq S
    BY <2>1, <2>2, Induction
  <2> QED
    BY <1>1, <2>3 DEF S
<1> QED
  BY <1>9, <1>10, <1>11, <1>12 DEF n, head, D

\* The messages of more items begin with those of fewer.
LEMMA MessagesGrow ==
    ASSUME Ground, NEW i \in 0..Len(wire), NEW j \in 0..Len(wire), i <= j
    PROVE  /\ Len(Messages(i)) \in Nat /\ Len(Messages(j)) \in Nat
           /\ Len(Messages(i)) <= Len(Messages(j))
           /\ \A k \in 1..Len(Messages(i)) : Messages(i)[k] = Messages(j)[k]
<1> DEFINE n == Len(wire)
           D == Seq(1..n)
           Begins(a, b) == /\ Len(a) <= Len(b)
                           /\ \A k \in 1..Len(a) : a[k] = b[k]
<1>1. n \in Nat /\ i \in 0..n /\ j \in 0..n
  BY WireTyped
<1>2. /\ \A k \in 1..n : Messages(k) = IF wire[k].header THEN Append(Messages(k - 1), k)
                                       ELSE Messages(k - 1)
      /\ \A k \in 0..n : Messages(k) \in D
  BY MessagesAre
<1>3. \A a \in D : Len(a) \in Nat /\ Begins(a, a)
  OBVIOUS
<1>4. \A a, b \in D : \A k \in 1..n : Begins(a, b) => Begins(a, Append(b, k))
  OBVIOUS
<1> HIDE DEF n, D, Begins
<1> DEFINE S == {d \in Nat : i + d <= n => Begins(Messages(i), Messages(i + d))}
<1>5. 0 \in S
  <2>1. i + 0 = i
    BY <1>1
  <2> QED
    BY <1>1, <1>2, <1>3, <2>1
<1>6. ASSUME NEW d \in Nat, d \in S
      PROVE  d + 1 \in S
  <2> SUFFICES ASSUME i + (d + 1) <= n PROVE Begins(Messages(i), Messages(i + (d + 1)))
    OBVIOUS
  <2> DEFINE k == i + (d + 1)
  <2>1. k \in 1..n /\ k - 1 = i + d /\ i + d \in 0..n /\ i + d <= n
    BY <1>1
  <2>2. Begins(Messages(i), Messages(i + d))
    BY <1>6, <2>1
  <2> HIDE DEF k
  <2>3. Messages(k) = IF wire[k].header THEN Append(Messages(i + d), k) ELSE Messages(i + d)
    BY <1>2, <2>1
  <2>4. Messages(i) \in D /\ Messages(i + d) \in D
    BY <1>1, <1>2, <2>1
  <2>5. Begins(Messages(i), Messages(k))
    BY <1>4, <2>1, <2>2, <2>3, <2>4
  <2> QED
    BY <2>5 DEF k
<1>7. j - i \in S
  <2> HIDE DEF S
  <2>1. j - i \in Nat
    BY <1>1
  <2>2. Nat \subseteq S
    BY <1>5, <1>6, Induction
  <2> QED
    BY <2>1, <2>2
<1>8. i + (j - i) = j
  BY <1>1
<1>9. Begins(Messages(i), Messages(j))
  BY <1>1, <1>7, <1>8
<1> QED
  BY <1>1, <1>2, <1>3, <1>9 DEF Begins

\* No message is between the first n items and the next message.
LEMMA MessagesSkip ==
    ASSUME Ground, NEW n \in 0..Len(wire), NEW m, Ahead(n, m)
    PROVE  /\ m - 1 \in 0..Len(wire) /\ Messages(m - 1) = Messages(n)
           /\ m <= Len(wire) => Messages(m) = Append(Messages(n), m)
<1> DEFINE l == Len(wire)
<1>1. l \in Nat /\ n \in 0..l
  BY WireTyped
<1>2. /\ m \in (n + 1)..(l + 1) /\ \A i \in (n + 1)..(m - 1) : ~wire[i].header
      /\ m <= l => wire[m].header
  BY DEF Ahead
<1>3. \A k \in 1..l : Messages(k) = IF wire[k].header THEN Append(Messages(k - 1), k)
                                    ELSE Messages(k - 1)
  BY MessagesAre
<1> HIDE DEF l
<1>4. m - 1 \in 0..l /\ n <= m - 1 /\ m \in Int
  BY <1>1, <1>2
<1> DEFINE S == {d \in Nat : n + d <= m - 1 => Messages(n + d) = Messages(n)}
<1>5. 0 \in S
  <2>1. n + 0 = n
    BY <1>1
  <2> QED
    BY <2>1
<1>6. ASSUME NEW d \in Nat, d \in S
      PROVE  d + 1 \in S
  <2> SUFFICES ASSUME n + (d + 1) <= m - 1 PROVE Messages(n + (d + 1)) = Messages(n)
    OBVIOUS
  <2> DEFINE k == n + (d + 1)
  <2>1. k \in 1..l /\ k - 1 = n + d /\ n + d <= m - 1 /\ k \in (n + 1)..(m - 1)
    BY <1>1, <1>4
  <2>2. Messages(n + d) = Messages(n)
    BY <1>6, <2>1
  <2> HIDE DEF k
  <2>3. Messages(k) = Messages(n + d)
    BY <1>2, <1>3, <2>1
  <2> QED
    BY <2>2, <2>3 DEF k
<1>7. Messages(m - 1) = Messages(n)
  <2> HIDE DEF S
  <2>1. (m - 1) - n \in Nat /\ n + ((m - 1) - n) = m - 1
    BY <1>1, <1>4
  <2>2. Nat \subseteq S
    BY <1>5, <1>6, Induction
  <2>3. (m - 1) - n \in S
    BY <2>1, <2>2
  <2>4. m - 1 <= m - 1
    BY <1>4
  <2> QED
    BY <2>1, <2>3, <2>4 DEF S
<1>8. ASSUME m <= l
      PROVE  Messages(m) = Append(Messages(n), m)
  <2>1. m \in 1..l
    BY <1>1, <1>2, <1>8
  <2> QED
    BY <1>2, <1>3, <1>7, <1>8, <2>1
<1> QED
  BY <1>4, <1>7, <1>8 DEF l

\* Behind any number of items there is a next message or the end.
LEMMA NextMessage ==
    ASSUME Ground, NEW n \in 0..Len(wire)
    PROVE  \E m \in 1..(Len(wire) + 1) : Ahead(n, m)
<1> DEFINE l == Len(wire)
           S == {d \in Nat : d <= l => \E m \in 1..(l + 1) : Ahead(l - d, m)}
<1>1. l \in Nat /\ n \in 0..l
  BY WireTyped
<1>2. 0 \in S
  <2>1. (l + 1)..((l + 1) - 1) = {} /\ ~(l + 1 <= l) /\ l + 1 \in (l + 1)..(l + 1) /\ l - 0 = l
    BY <1>1
  <2>2. Ahead(l - 0, l + 1)
    BY <2>1 DEF Ahead
  <2>3. l + 1 \in 1..(l + 1)
    BY <1>1
  <2> HIDE DEF l
  <2> QED
    BY <2>2, <2>3
<1>3. ASSUME NEW d \in Nat, d \in S
      PROVE  d + 1 \in S
  <2> SUFFICES ASSUME d + 1 <= l PROVE \E m \in 1..(l + 1) : Ahead(l - (d + 1), m)
    OBVIOUS
  <2> DEFINE i == l - (d + 1)
             k == l - d
  <2>1. k = i + 1 /\ k \in 1..l /\ i \in Nat /\ d <= l
    BY <1>1
  <2>2. CASE wire[k].header
    <3>1. k \in (i + 1)..(l + 1) /\ (i + 1)..(k - 1) = {}
      BY <1>1, <2>1
    <3>2. Ahead(i, k)
      BY <2>2, <3>1 DEF Ahead
    <3>3. k \in 1..(l + 1)
      BY <1>1, <2>1
    <3> QED
      BY <3>2, <3>3
  <2>3. CASE ~wire[k].header
    <3>1. PICK m \in 1..(l + 1) : Ahead(k, m)
      BY <1>3, <2>1
    <3>2. /\ m \in (k + 1)..(l + 1) /\ \A j \in (k + 1)..(m - 1) : ~wire[j].header
          /\ m <= l => wire[m].header
      BY <3>1 DEF Ahead
    <3> HIDE DEF k, i, l
    <3>3. m \in (i + 1)..(l + 1) /\ \A j \in (i + 1)..(m - 1) : j = k \/ j \in (k + 1)..(m - 1)
      BY <2>1, <3>2
    <3>4. Ahead(i, m)
      BY <2>3, <3>2, <3>3 DEF Ahead, l
    <3> QED
      BY <3>4 DEF i
  <2> QED
    BY <2>2, <2>3
<1>4. l - n \in S
  <2> HIDE DEF S
  <2>1. l - n \in Nat
    BY <1>1
  <2>2. Nat \subseteq S
    BY <1>2, <1>3, Induction
  <2> QED
    BY <2>1, <2>2
<1>5. l - n <= l /\ l - (l - n) = n
  BY <1>1
<1> HIDE DEF l
<1>6. \E m \in 1..(l + 1) : Ahead(n, m)
  BY <1>4, <1>5
<1> QED
  BY <1>6 DEF l

-----------------------------------------------------------------------------
(***************************************************************************)
(* The bytes of the stream.                                                *)
(***************************************************************************)
\* The sum of the bytes of a message before its checksum
SumOf(item) == item.length + 80 + 235 + item.fill * (item.length - 9)

\* What its checksum says
Stored(item) == (SumOf(item) + (IF item.checksum THEN 0 ELSE 1)) % 256

GoodItem(item) ==
    /\ item \in Items
    /\ item.header => item.length \in 9..255
    /\ item.fill \notin {80, 235}

LEMMA Digits ==
    ASSUME NEW s \in 0..255
    PROVE  /\ s \div 100 \in 0..9 /\ (s % 100) \div 10 \in 0..9 /\ s % 10 \in 0..9
           /\ (s \div 100) * 100 + ((s % 100) \div 10) * 10 + (s % 10) = s
OBVIOUS

LEMMA Product ==
    ASSUME NEW x \in Nat, NEW y \in Nat
    PROVE  x * y \in Nat /\ x * (y + 1) = x * y + x
OBVIOUS

LEMMA ChecksumDigits ==
    ASSUME NEW item, GoodItem(item), item.header
    PROVE  /\ SumOf(item) \in Nat /\ Stored(item) \in 0..255
           /\ \A d \in 1..3 : insert_checksum(item, d) \in 48..57
           /\ (insert_checksum(item, 1) - 48) * 100 + (insert_checksum(item, 2) - 48) * 10
                + (insert_checksum(item, 3) - 48) = Stored(item)
<1> DEFINE s == Stored(item)
<1>1. item.length \in 9..255 /\ item.fill \in 0..255
  BY DEF GoodItem, Items
<1>2. SumOf(item) \in Nat
  <2>1. item.fill \in Nat /\ item.length - 9 \in Nat
    BY <1>1
  <2>2. item.fill * (item.length - 9) \in Nat
    BY <2>1, Product
  <2> QED
    BY <1>1, <2>2 DEF SumOf
<1>3. s \in 0..255
  <2> DEFINE t == SumOf(item) + (IF item.checksum THEN 0 ELSE 1)
  <2>1. t \in Nat
    BY <1>2
  <2> HIDE DEF t
  <2>2. t % 256 \in 0..255
    BY <2>1
  <2> QED
    BY <2>2 DEF Stored, t
<1>4. \A d : insert_checksum(item, d)
               = 48 + (<<s \div 100, (s % 100) \div 10, s % 10>>)[d]
  BY DEF insert_checksum, Stored, SumOf
<1> HIDE DEF s
<1> DEFINE a == s \div 100
           b == (s % 100) \div 10
           c == s % 10
<1>5. a \in 0..9 /\ b \in 0..9 /\ c \in 0..9 /\ a * 100 + b * 10 + c = s
  BY <1>3, Digits
<1> HIDE DEF a, b, c
<1>6. /\ insert_checksum(item, 1) = 48 + a /\ insert_checksum(item, 2) = 48 + b
      /\ insert_checksum(item, 3) = 48 + c
  BY <1>4 DEF a, b, c
<1>7. \A d \in 1..3 : d = 1 \/ d = 2 \/ d = 3
  OBVIOUS
<1>8. \A d \in 1..3 : insert_checksum(item, d) \in 48..57
  <2>1. 48 + a \in 48..57 /\ 48 + b \in 48..57 /\ 48 + c \in 48..57
    BY <1>5
  <2> QED
    BY <1>6, <1>7, <2>1
<1>9. (insert_checksum(item, 1) - 48) * 100 + (insert_checksum(item, 2) - 48) * 10
                + (insert_checksum(item, 3) - 48) = s
  <2>1. ((48 + a) - 48) * 100 + ((48 + b) - 48) * 10 + ((48 + c) - 48) = s
    BY <1>3, <1>5
  <2> QED
    BY <1>6, <2>1
<1> QED
  BY <1>2, <1>3, <1>8, <1>9 DEF s

LEMMA ByteValues ==
    ASSUME NEW item, GoodItem(item), NEW k \in 0..(item.length - 1)
    PROVE  /\ ItemByte(item, k) \in 0..255
           /\ ~item.header => ItemByte(item, k) = item.fill
           /\ item.header =>
                /\ k = 0 => ItemByte(item, k) = item.length
                /\ k \in 1..3 => ItemByte(item, k) = 0
                /\ k = 4 => ItemByte(item, k) = 80
                /\ k = 5 => ItemByte(item, k) = 235
                /\ k \in 6..(item.length - 4) => ItemByte(item, k) = item.fill
                /\ k \in (item.length - 3)..(item.length - 1) =>
                     /\ ItemByte(item, k) = insert_checksum(item, k - item.length + 4)
                     /\ ItemByte(item, k) \in 48..57
<1>1. item.length \in Nat /\ item.fill \in 0..255 /\ item.header \in BOOLEAN
  BY DEF GoodItem, Items
<1>2. CASE ~item.header
  <2>1. ItemByte(item, k) = item.fill
    BY <1>2 DEF ItemByte
  <2> QED
    BY <1>1, <1>2, <2>1
<1>3. CASE item.header
  <2> DEFINE n == item.length
  <2>1. n \in 9..255
    BY <1>3 DEF GoodItem
  <2>2. /\ k = 0 => ~(k \in 6..(n - 4)) /\ ~(k \in 1..3) /\ k # 4 /\ k # 5
        /\ k \in 1..3 => ~(k \in 6..(n - 4)) /\ k # 0 /\ k # 4 /\ k # 5
        /\ k = 4 => ~(k \in 6..(n - 4)) /\ k # 0 /\ ~(k \in 1..3) /\ k # 5
        /\ k = 5 => ~(k \in 6..(n - 4)) /\ k # 0 /\ ~(k \in 1..3) /\ k # 4
        /\ k \in 6..(n - 4) => k # 0 /\ ~(k \in 1..3) /\ k # 4 /\ k # 5
        /\ k \in (n - 3)..(n - 1) =>
              /\ ~(k \in 6..(n - 4)) /\ k # 0 /\ ~(k \in 1..3) /\ k # 4 /\ k # 5
              /\ k - n + 4 \in 1..3
        /\ k = 0 \/ k \in 1..3 \/ k = 4 \/ k = 5 \/ k \in 6..(n - 4)
              \/ k \in (n - 3)..(n - 1)
    BY <2>1
  <2>3. /\ k = 0 => ItemByte(item, k) = n
        /\ k \in 1..3 => ItemByte(item, k) = 0
        /\ k = 4 => ItemByte(item, k) = 80
        /\ k = 5 => ItemByte(item, k) = 235
        /\ k \in 6..(n - 4) => ItemByte(item, k) = item.fill
        /\ k \in (n - 3)..(n - 1) => ItemByte(item, k) = insert_checksum(item, k - n + 4)
    BY <1>3, <2>2 DEF ItemByte
  <2>4. k \in (n - 3)..(n - 1) => ItemByte(item, k) \in 48..57
    BY <1>3, <2>2, <2>3, ChecksumDigits
  <2>5. ItemByte(item, k) \in 0..255
    BY <1>1, <2>1, <2>2, <2>3, <2>4
  <2> QED
    BY <1>3, <2>3, <2>4, <2>5
<1> QED
  BY <1>1, <1>2, <1>3

LEMMA ByteInRange ==
    ASSUME NEW item, GoodItem(item), NEW k \in 0..(item.length - 1)
    PROVE  ItemByte(item, k) \in 0..255
<1> QED
  BY ByteValues

LEMMA ItemsGood ==
    ASSUME Ground, ~NotRunning, NEW i \in 1..Len(wire)
    PROVE  GoodItem(wire[i])
<1>1. wire # <<>> /\ wire[i] \in Items
  BY WireTyped
<1>2. /\ wire[i].header => wire[i].length \in shortest_msg_size..255
      /\ wire[i].fill \notin {80, 235}
      /\ shortest_msg_size \in Nat /\ shortest_msg_size >= 9
  BY <1>1, WireIsGood
<1>3. \A x \in shortest_msg_size..255 : x \in 9..255
  <2> DEFINE s == shortest_msg_size
  <2>1. s \in Nat /\ s >= 9
    BY <1>2
  <2> HIDE DEF s
  <2>2. \A x \in s..255 : x \in 9..255
    BY <2>1
  <2> QED
    BY <2>2 DEF s
<1> QED
  BY <1>1, <1>2, <1>3 DEF GoodItem

\* The bytes in memory are those of the items, one after the other.
ByteType == [item : Nat, at : Nat, value : 0..255]

LEMMA StreamIs ==
    ASSUME Ground, ~NotRunning
    PROVE  /\ mem_span \in Seq(ByteType) /\ mem_size = Ends(Len(wire))
           /\ mem_size \in Nat
           /\ \A i \in 1..Len(wire) : \A k \in 0..(wire[i].length - 1) :
                 /\ Ends(i - 1) + k + 1 \in 1..mem_size
                 /\ mem_span[Ends(i - 1) + k + 1]
                      = [item |-> i, at |-> k, value |-> ItemByte(wire[i], k)]
<1> DEFINE n == Len(wire)
           seqs == [i \in DOMAIN wire |-> Bytes(wire, i)]
           off == [i \in 0..n |-> Ends(i)]
           byte(i, k) == [item |-> i, at |-> k - 1, value |-> ItemByte(wire[i], k - 1)]
<1>1. /\ n \in Nat /\ DOMAIN wire = 1..n
      /\ \A i \in 1..n : wire[i].length \in Nat /\ wire[i].length > 0
  BY WireTyped
<1>2. mem_span = FlattenSeq(seqs)
  BY DEF Ground, populate_memory
<1>3. ASSUME NEW i \in 1..n
      PROVE  /\ seqs[i] \in Seq(ByteType) /\ Len(seqs[i]) = wire[i].length
             /\ \A k \in 1..wire[i].length : seqs[i][k] = byte(i, k)
  <2> DEFINE len == wire[i].length
  <2>1. seqs[i] = [k \in 1..len |-> byte(i, k)]
    BY <1>1 DEF Bytes
  <2>2. \A k \in 1..len : byte(i, k) \in ByteType
    <3> SUFFICES ASSUME NEW k \in 1..len PROVE byte(i, k) \in ByteType
      OBVIOUS
    <3>1. k - 1 \in 0..(wire[i].length - 1) /\ k - 1 \in Nat /\ i \in Nat
      BY <1>1
    <3>2. ItemByte(wire[i], k - 1) \in 0..255
      <4>1. GoodItem(wire[i])
        BY ItemsGood
      <4> DEFINE item == wire[i]
                 j == k - 1
      <4>2. GoodItem(item) /\ j \in 0..(item.length - 1)
        BY <3>1, <4>1
      <4> HIDE DEF item, j
      <4>3. ItemByte(item, j) \in 0..255
        BY <4>2, ByteInRange
      <4> QED
        BY <4>3 DEF item, j
    <3> QED
      BY <3>1, <3>2 DEF ByteType
  <2>3. len \in Nat
    BY <1>1
  <2> HIDE DEF seqs, byte, len
  <2>4. \A k \in 1..len : seqs[i][k] = byte(i, k)
    BY <2>1
  <2>5. seqs[i] = [k \in 1..len |-> seqs[i][k]]
    BY <2>1
  <2>6. seqs[i] \in Seq(ByteType) /\ Len(seqs[i]) = len
    <3> DEFINE s == seqs[i]
    <3>1. s = [k \in 1..len |-> s[k]] /\ \A k \in 1..len : s[k] \in ByteType
      BY <2>2, <2>4, <2>5
    <3> HIDE DEF s
    <3>2. s \in Seq(ByteType) /\ Len(s) = len
      BY <2>3, <3>1, ManyElements
    <3> QED
      BY <3>2 DEF s
  <2> QED
    BY <2>4, <2>6 DEF len
<1>4. seqs \in Seq(Seq(ByteType)) /\ Len(seqs) = n
  <2> DEFINE T == Seq(ByteType)
  <2>1. seqs = [i \in 1..n |-> seqs[i]]
    BY <1>1
  <2>2. \A i \in 1..n : seqs[i] \in T
    BY <1>3
  <2> HIDE DEF seqs, T, n
  <2>3. seqs \in Seq(T) /\ Len(seqs) = n
    BY <1>1, <2>1, <2>2, ManyElements
  <2> QED
    BY <2>3 DEF T
<1> HIDE DEF seqs, byte
<1>5. Offsets(off, seqs)
  <2>1. off \in [0..n -> Nat] /\ off[0] = 0
    BY <1>1, EndsAre
  <2>2. \A k \in 1..n : off[k] = off[k - 1] + Len(seqs[k])
    <3> SUFFICES ASSUME NEW k \in 1..n PROVE off[k] = off[k - 1] + Len(seqs[k])
      OBVIOUS
    <3>1. k \in 0..n /\ k - 1 \in 0..n
      BY <1>1
    <3>2. Ends(k) = Ends(k - 1) + wire[k].length
      BY EndsAre
    <3> QED
      BY <1>3, <3>1, <3>2
  <2> HIDE DEF off
  <2> QED
    BY <1>4, <2>1, <2>2 DEF Offsets
<1>6. /\ mem_span \in Seq(ByteType) /\ mem_size = off[n]
      /\ Placed(mem_span, off, seqs)
  <2> HIDE DEF off, n
  <2> QED
    BY <1>2, <1>4, <1>5, FlattenPlaces DEF mem_size
<1>7. mem_size = Ends(n) /\ mem_size \in Nat
  <2>1. n \in 0..n
    BY <1>1
  <2> QED
    BY <1>6, <2>1, EndsAre
<1>8. ASSUME NEW i \in 1..n, NEW k \in 0..(wire[i].length - 1)
      PROVE  /\ Ends(i - 1) + k + 1 \in 1..mem_size
             /\ mem_span[Ends(i - 1) + k + 1]
                  = [item |-> i, at |-> k, value |-> ItemByte(wire[i], k)]
  <2>1. i - 1 \in 0..n /\ k + 1 \in 1..wire[i].length /\ (k + 1) - 1 = k
    BY <1>1
  <2>2. off[i - 1] = Ends(i - 1) /\ Ends(i - 1) \in Nat
    BY <2>1, EndsAre
  <2>3. k + 1 \in 1..Len(seqs[i]) /\ i \in 1..Len(seqs)
    BY <1>3, <1>4, <2>1
  <2> HIDE DEF off
  <2>4. /\ off[i - 1] + (k + 1) \in 1..Len(mem_span)
        /\ mem_span[off[i - 1] + (k + 1)] = seqs[i][k + 1]
    BY <1>6, <2>3 DEF Placed
  <2>5. off[i - 1] + (k + 1) = Ends(i - 1) + k + 1
    BY <2>1, <2>2
  <2>6. seqs[i][k + 1] = byte(i, k + 1)
    BY <1>3, <2>1
  <2> QED
    BY <2>1, <2>4, <2>5, <2>6 DEF mem_size, byte
<1> QED
  BY <1>6, <1>7, <1>8 DEF n

\* The value of a byte of the stream
LEMMA StreamValue ==
    ASSUME Ground, ~NotRunning, NEW i \in 1..Len(wire),
           NEW k \in 0..(wire[i].length - 1)
    PROVE  /\ mem_span[Ends(i - 1) + k + 1].value = ItemByte(wire[i], k)
           /\ Ends(i - 1) + k + 1 \in 1..mem_size
<1>1. /\ Ends(i - 1) + k + 1 \in 1..mem_size
      /\ mem_span[Ends(i - 1) + k + 1]
           = [item |-> i, at |-> k, value |-> ItemByte(wire[i], k)]
  BY StreamIs
<1>2. [item |-> i, at |-> k, value |-> ItemByte(wire[i], k)].value = ItemByte(wire[i], k)
  OBVIOUS
<1> QED
  BY <1>1, <1>2

\* Every place of the stream is in an item.
LEMMA PlaceInItem ==
    ASSUME Ground, ~NotRunning, NEW p \in 1..mem_size
    PROVE  \E i \in 1..Len(wire) : \E k \in 0..(wire[i].length - 1) :
              p = Ends(i - 1) + k + 1
<1> DEFINE n == Len(wire)
           off == [i \in 0..n |-> Ends(i)]
<1>1. n \in Nat /\ \A i \in 1..n : wire[i].length \in Nat
  BY WireTyped
<1>2. off \in [0..n -> Nat] /\ off[0] = 0 /\ off[n] = mem_size
  <2>1. n \in 0..n /\ 0 \in 0..n
    BY <1>1
  <2> QED
    BY <2>1, EndsAre, StreamIs
<1>3. \A i \in 0..n : off[i] = Ends(i)
  OBVIOUS
<1> HIDE DEF off, n
<1>4. PICK i \in 1..n : off[i - 1] < p /\ p <= off[i]
  BY <1>1, <1>2, EveryPlace
<1>5. i \in 0..n /\ i - 1 \in 0..n
  BY <1>1
<1>6. Ends(i) = Ends(i - 1) + wire[i].length /\ Ends(i - 1) \in Nat
  BY <1>5, EndsAre DEF n
<1> DEFINE k == p - Ends(i - 1) - 1
<1>7. p \in Nat
  BY StreamIs
<1>8. k \in 0..(wire[i].length - 1) /\ p = Ends(i - 1) + k + 1
  BY <1>1, <1>3, <1>4, <1>5, <1>6, <1>7
<1> QED
  BY <1>8 DEF n

\* The two bytes of the delimiter are nowhere but in the header of a message.
LEMMA DelimiterIsHeader ==
    ASSUME Ground, ~NotRunning, NEW p \in 1..mem_size,
           mem_span[p].value = 80, mem_span[p + 1].value = 235
    PROVE  \E i \in 1..Len(wire) : wire[i].header /\ p = Ends(i - 1) + 5
<1>0. PICK i \in 1..Len(wire) :
        \E k \in 0..(wire[i].length - 1) : p = Ends(i - 1) + k + 1
  BY PlaceInItem
<1>1. PICK k \in 0..(wire[i].length - 1) : p = Ends(i - 1) + k + 1
  BY <1>0
<1> DEFINE item == wire[i]
           n == item.length
           start == Ends(i - 1)
<1>2. GoodItem(item)
  BY ItemsGood
<1>3. start \in Nat
  <2>1. i - 1 \in 0..Len(wire)
    BY WireTyped
  <2> QED
    BY <2>1, EndsAre
<1>4. ItemByte(item, k) = 80
  BY <1>1, StreamValue
<1>5. k + 1 \in 0..(n - 1) => ItemByte(item, k + 1) = 235
  <2> SUFFICES ASSUME k + 1 \in 0..(n - 1) PROVE ItemByte(item, k + 1) = 235
    OBVIOUS
  <2>1. mem_span[start + (k + 1) + 1].value = ItemByte(item, k + 1)
    BY StreamValue
  <2>2. start + (k + 1) + 1 = p + 1
    BY <1>1, <1>3
  <2> QED
    BY <2>1, <2>2
<1> HIDE DEF start
<1>6. item.header /\ n \in 9..255 /\ item.fill # 80
  <2>1. item.fill # 80 /\ (item.header => n \in 9..255)
    BY <1>2 DEF GoodItem
  <2>2. ~item.header => ItemByte(item, k) = item.fill
    BY <1>2, ByteValues
  <2> QED
    BY <1>4, <2>1, <2>2
<1>7. /\ k \in 1..3 => ItemByte(item, k) = 0
      /\ k = 5 => ItemByte(item, k) = 235
      /\ k \in 6..(n - 4) => ItemByte(item, k) = item.fill
      /\ k \in (n - 3)..(n - 1) => ItemByte(item, k) \in 48..57
  BY <1>2, <1>6, ByteValues
<1>a. k \in 0..(n - 1)
  OBVIOUS
<1> HIDE DEF n
<1>8. k # 0
  <2> SUFFICES ASSUME k = 0 PROVE FALSE
    OBVIOUS
  <2> DEFINE next == k + 1
  <2>1. next \in 0..(n - 1) /\ next \in 1..3
    BY <1>6, <1>a
  <2>2. ItemByte(item, next) = 235
    BY <1>5, <2>1
  <2> HIDE DEF next, item, n
  <2>3. ItemByte(item, next) = 0
    BY <1>2, <1>6, <2>1, ByteValues DEF n
  <2> QED
    BY <2>2, <2>3
<1> HIDE DEF item
<1>9. k = 4
  <2>1. \/ k \in 1..3 \/ k = 4 \/ k = 5 \/ k \in 6..(n - 4)
        \/ k \in (n - 3)..(n - 1)
    BY <1>6, <1>8, <1>a
  <2>2. 80 \notin 48..57
    OBVIOUS
  <2> QED
    BY <1>4, <1>6, <1>7, <2>1, <2>2
<1>10. p = start + 5
  BY <1>1, <1>3, <1>9 DEF start
<1> QED
  BY <1>6, <1>10 DEF item, start

\* What a header holds
LEMMA HeaderValues ==
    ASSUME Ground, ~NotRunning, NEW i \in 1..Len(wire), wire[i].header
    PROVE  /\ mem_span[Ends(i - 1) + 1].value = wire[i].length
           /\ \A k \in 1..3 : mem_span[Ends(i - 1) + k + 1].value = 0
           /\ mem_span[Ends(i - 1) + 5].value = 80
           /\ mem_span[Ends(i - 1) + 6].value = 235
           /\ Ends(i - 1) + 9 <= Ends(i) /\ Ends(i) = Ends(i - 1) + wire[i].length
<1> DEFINE item == wire[i]
           n == item.length
           start == Ends(i - 1)
<1>1. GoodItem(item) /\ item.header /\ n \in 9..255
  BY ItemsGood DEF GoodItem
<1>2. start \in Nat /\ Ends(i) = start + n
  <2>1. i - 1 \in 0..Len(wire)
    BY WireTyped
  <2> QED
    BY <2>1, EndsAre
<1>3. \A k \in 0..(n - 1) : mem_span[start + k + 1].value = ItemByte(item, k)
  BY StreamValue
<1> HIDE DEF n
<1>4. /\ 0 \in 0..(n - 1) /\ 4 \in 0..(n - 1) /\ 5 \in 0..(n - 1)
      /\ \A k \in 1..3 : k \in 0..(n - 1)
  BY <1>1
<1>5. /\ ItemByte(item, 0) = n /\ \A k \in 1..3 : ItemByte(item, k) = 0
      /\ ItemByte(item, 4) = 80 /\ ItemByte(item, 5) = 235
  <2> HIDE DEF item
  <2> QED
    BY <1>1, <1>4, ByteValues DEF n
<1>6. /\ start + 0 + 1 = start + 1
      /\ start + 4 + 1 = start + 5 /\ start + 5 + 1 = start + 6
  BY <1>2
<1> HIDE DEF start, item, n
<1>7. /\ mem_span[start + 1].value = n
      /\ \A k \in 1..3 : mem_span[start + k + 1].value = 0
      /\ mem_span[start + 5].value = 80 /\ mem_span[start + 6].value = 235
  <2>1. /\ mem_span[start + 0 + 1].value = n
        /\ \A k \in 1..3 : mem_span[start + k + 1].value = 0
    BY <1>3, <1>4, <1>5
  <2>2. mem_span[start + 4 + 1].value = 80 /\ mem_span[start + 5 + 1].value = 235
    BY <1>3, <1>4, <1>5
  <2> QED
    BY <1>6, <2>1, <2>2
<1>8. start + 9 <= start + n
  BY <1>1, <1>2
<1> QED
  BY <1>2, <1>7, <1>8 DEF start, item, n

\* Adding up from the first, as validate_checksum does
AddsUp(g, v, n) == g = [k \in 0..n |-> IF k = 0 THEN 0 ELSE g[k - 1] + v[k - 1]]

LEMMA SumsExist ==
    ASSUME NEW n \in Nat, NEW v, \A k \in 0..(n - 1) : v[k] \in Nat
    PROVE  \E g : AddsUp(g, v, n)
<1> DEFINE step == [i \in Nat |-> [x \in Nat |-> IF i \in 0..(n - 1) THEN x + v[i] ELSE x]]
<1>1. step \in [Nat -> [Nat -> Nat]]
  OBVIOUS
<1>2. \A i \in Nat, x \in Nat : i \in 0..(n - 1) => step[i][x] = x + v[i]
  OBVIOUS
<1> HIDE DEF step
<1>3. PICK f : Iterates(f, Nat, 0, step)
  BY <1>1, Recursion
<1>4. f \in [Nat -> Nat] /\ f[0] = 0 /\ \A i \in Nat : f[i + 1] = step[i][f[i]]
  BY <1>3 DEF Iterates
<1> DEFINE h == [k \in 0..n |-> f[k]]
<1>5. AddsUp(h, v, n)
  <2>1. ASSUME NEW k \in 0..n
        PROVE  h[k] = IF k = 0 THEN 0 ELSE h[k - 1] + v[k - 1]
    <3>1. CASE k = 0
      BY <1>4, <3>1
    <3>2. CASE k # 0
      <4>1. k - 1 \in Nat /\ k - 1 \in 0..n /\ (k - 1) + 1 = k /\ k - 1 \in 0..(n - 1)
        BY <3>2
      <4>2. f[(k - 1) + 1] = step[k - 1][f[k - 1]] /\ f[k - 1] \in Nat
        BY <1>4, <4>1
      <4>3. step[k - 1][f[k - 1]] = f[k - 1] + v[k - 1]
        BY <1>2, <4>1, <4>2
      <4> QED
        BY <3>2, <4>1, <4>2, <4>3
    <3> QED
      BY <3>1, <3>2
  <2>2. h = [k \in 0..n |-> h[k]]
    OBVIOUS
  <2> HIDE DEF h
  <2> QED
    BY <2>1, <2>2, Zenon DEF AddsUp
<1> QED
  BY <1>5

LEMMA RunningSum ==
    ASSUME NEW n \in Nat, NEW v, \A k \in 0..(n - 1) : v[k] \in Nat,
           NEW sum, AddsUp(sum, v, n)
    PROVE  /\ sum[0] = 0
           /\ \A k \in 1..n : sum[k] = sum[k - 1] + v[k - 1]
           /\ \A k \in 0..n : sum[k] \in Nat
<1>1. sum = [k \in 0..n |-> IF k = 0 THEN 0 ELSE sum[k - 1] + v[k - 1]]
  BY DEF AddsUp
<1>2. sum[0] = 0
  <2>1. 0 \in 0..n
    OBVIOUS
  <2> QED
    BY <1>1, <2>1
<1>3. \A k \in 1..n : sum[k] = sum[k - 1] + v[k - 1]
  <2> SUFFICES ASSUME NEW k \in 1..n PROVE sum[k] = sum[k - 1] + v[k - 1]
    OBVIOUS
  <2>1. k \in 0..n /\ k # 0
    OBVIOUS
  <2> QED
    BY <1>1, <2>1
<1> DEFINE S == {k \in Nat : k <= n => sum[k] \in Nat}
<1>4. 0 \in S
  BY <1>2
<1>5. ASSUME NEW k \in Nat, k \in S
       PROVE  k + 1 \in S
  <2> SUFFICES ASSUME k + 1 <= n PROVE sum[k + 1] \in Nat
    OBVIOUS
  <2>1. k + 1 \in 1..n /\ (k + 1) - 1 = k /\ k \in 0..(n - 1) /\ sum[k] \in Nat
    BY <1>5
  <2>2. sum[k + 1] = sum[k] + v[k]
    BY <1>3, <2>1
  <2> QED
    BY <2>1, <2>2
<1>6. \A k \in 0..n : sum[k] \in Nat
  <2> HIDE DEF S
  <2>1. Nat \subseteq S
    BY <1>4, <1>5, Induction
  <2> QED
    BY <2>1 DEF S
<1> QED
  BY <1>2, <1>3, <1>6

\* In a whole message the sum tells whether its checksum is right.
LEMMA ChecksumTells ==
    ASSUME Ground, ~NotRunning, NEW m \in 1..Len(wire), wire[m].header,
           msg_length = wire[m].length, Holds(m, msg_length)
    PROVE  validate_checksum <=> wire[m].checksum
<1> DEFINE item == wire[m]
           n == msg_length
           v == [k \in 0..(n - 4) |-> buffer_span[k].value]
           sum == CHOOSE g : g = [k \in 0..(n - 3) |->
                                   IF k = 0 THEN 0 ELSE g[k - 1] + buffer_span[k - 1].value]
           d(k) == buffer_span[n - k].value - 48
<1>1. GoodItem(item) /\ n = item.length /\ item.fill \in 0..255
      /\ item.checksum \in BOOLEAN
  BY ItemsGood, WireTyped
<1>n. n \in 9..255
  BY <1>1 DEF GoodItem
<1>2. ASSUME NEW k \in 0..(n - 1) PROVE buffer_span[k].value = ItemByte(item, k)
  <2>1. mem_span[Ends(m - 1) + k + 1].value = ItemByte(item, k)
    BY StreamValue
  <2> QED
    BY <2>1 DEF Holds
<1>3. validate_checksum <=> sum[n - 3] % 256 = (d(3) * 100 + d(2) * 10 + d(1)) % 256
  BY DEF validate_checksum
<1> HIDE DEF sum, d, n, item
<1>4. n - 3 \in Nat /\ (n - 3) - 1 = n - 4
  BY <1>n
<1>5. \A k \in 0..(n - 4) : v[k] = ItemByte(item, k) /\ v[k] \in Nat
  <2> SUFFICES ASSUME NEW k \in 0..(n - 4) PROVE v[k] = ItemByte(item, k) /\ v[k] \in Nat
    OBVIOUS
  <2>1. k \in 0..(n - 1) /\ k \in 0..(item.length - 1)
    BY <1>n, <1>1
  <2>2. ItemByte(item, k) \in 0..255
    BY <1>1, <2>1, ByteInRange
  <2>3. v[k] = buffer_span[k].value
    OBVIOUS
  <2>4. v[k] = ItemByte(item, k)
    BY <1>2, <2>1, <2>3
  <2>5. 0..255 \subseteq Nat
    OBVIOUS
  <2> HIDE DEF v
  <2> QED
    BY <2>2, <2>4, <2>5
<1>6. AddsUp(sum, v, n - 3)
  <2> DEFINE r == n - 3
             Q(g) == g = [k \in 0..r |->
                            IF k = 0 THEN 0 ELSE g[k - 1] + buffer_span[k - 1].value]
  <2>1. r \in Nat /\ \A k \in 0..(r - 1) : v[k] \in Nat
    BY <1>4, <1>5
  <2>2. \A k \in 0..r : k # 0 => v[k - 1] = buffer_span[k - 1].value
    BY <1>4
  <2>3. sum = CHOOSE g : Q(g)
    BY DEF sum
  <2> HIDE DEF v, r
  <2>4. PICK h : AddsUp(h, v, r)
    BY <2>1, SumsExist
  <2>5. \A g : Q(g) <=> AddsUp(g, v, r)
    BY <2>2 DEF AddsUp
  <2> HIDE DEF Q
  <2>6. Q(h)
    BY <2>4, <2>5
  <2>7. Q(sum)
    BY <2>3, <2>6
  <2>8. AddsUp(sum, v, r)
    BY <2>5, <2>7
  <2> QED
    BY <2>8 DEF r
<1> HIDE DEF v
<1>7. /\ sum[0] = 0 /\ \A k \in 1..(n - 3) : sum[k] = sum[k - 1] + v[k - 1]
      /\ \A k \in 0..(n - 3) : sum[k] \in Nat
  <2> DEFINE r == n - 3
  <2>1. r \in Nat /\ \A k \in 0..(r - 1) : v[k] \in Nat
    BY <1>4, <1>5
  <2>2. AddsUp(sum, v, r)
    BY <1>6
  <2> HIDE DEF r
  <2>3. /\ sum[0] = 0 /\ \A k \in 1..r : sum[k] = sum[k - 1] + v[k - 1]
        /\ \A k \in 0..r : sum[k] \in Nat
    BY <2>1, <2>2, RunningSum
  <2> QED
    BY <2>3 DEF r
<1> DEFINE fill == item.fill
<1>8. /\ v[0] = n /\ v[1] = 0 /\ v[2] = 0 /\ v[3] = 0 /\ v[4] = 80 /\ v[5] = 235
      /\ \A k \in 6..(n - 4) : v[k] = fill
  <2>1. item.header
    BY DEF item
  <2>2. \A k \in 0..(item.length - 1) :
          /\ k = 0 => ItemByte(item, k) = item.length
          /\ k \in 1..3 => ItemByte(item, k) = 0
          /\ k = 4 => ItemByte(item, k) = 80
          /\ k = 5 => ItemByte(item, k) = 235
          /\ k \in 6..(item.length - 4) => ItemByte(item, k) = item.fill
    BY <1>1, <2>1, ByteValues
  <2>3. /\ 0 \in 0..(n - 4) /\ 1 \in 0..(n - 4) /\ 2 \in 0..(n - 4) /\ 3 \in 0..(n - 4)
        /\ 4 \in 0..(n - 4) /\ 5 \in 0..(n - 4)
        /\ \A k \in 0..(n - 4) : k \in 0..(n - 1)
        /\ \A k \in 6..(n - 4) : k \in 0..(n - 4)
        /\ 1 \in 1..3 /\ 2 \in 1..3 /\ 3 \in 1..3
    BY <1>n
  <2>4. \A k \in 0..(n - 4) :
          /\ k = 0 => v[k] = n
          /\ k \in 1..3 => v[k] = 0
          /\ k = 4 => v[k] = 80
          /\ k = 5 => v[k] = 235
          /\ k \in 6..(n - 4) => v[k] = fill
    BY <1>1, <1>5, <2>2, <2>3
  <2> QED
    BY <2>3, <2>4
<1> HIDE DEF fill
<1>9. sum[6] = n + 315
  <2>1. /\ 1 \in 1..(n - 3) /\ 2 \in 1..(n - 3) /\ 3 \in 1..(n - 3) /\ 4 \in 1..(n - 3)
        /\ 5 \in 1..(n - 3) /\ 6 \in 1..(n - 3)
        /\ 1 - 1 = 0 /\ 2 - 1 = 1 /\ 3 - 1 = 2 /\ 4 - 1 = 3 /\ 5 - 1 = 4 /\ 6 - 1 = 5
    BY <1>n
  <2>2. /\ sum[1] = sum[0] + v[0] /\ sum[2] = sum[1] + v[1] /\ sum[3] = sum[2] + v[2]
        /\ sum[4] = sum[3] + v[3] /\ sum[5] = sum[4] + v[4] /\ sum[6] = sum[5] + v[5]
    BY <1>7, <2>1
  <2> QED
    BY <1>n, <1>7, <1>8, <2>2
<1>10. fill \in Nat
  <2>1. fill \in 0..255
    BY <1>1 DEF fill
  <2> QED
    BY <2>1
<1> DEFINE S == {j \in Nat : 6 + j <= n - 3 => sum[6 + j] = n + 315 + fill * j}
<1>11. 0 \in S
  <2>1. fill * 0 = 0 /\ 6 + 0 = 6
    BY <1>10
  <2> QED
    BY <1>n, <1>9, <2>1
<1>12. ASSUME NEW j \in Nat, j \in S
       PROVE  j + 1 \in S
  <2> SUFFICES ASSUME 6 + (j + 1) <= n - 3
               PROVE  sum[6 + (j + 1)] = n + 315 + fill * (j + 1)
    OBVIOUS
  <2>1. /\ 6 + (j + 1) \in 1..(n - 3) /\ (6 + (j + 1)) - 1 = 6 + j
        /\ 6 + j \in 6..(n - 4) /\ 6 + j <= n - 3
    BY <1>n
  <2>2. sum[6 + (j + 1)] = sum[6 + j] + v[6 + j]
    BY <1>7, <2>1
  <2>3. sum[6 + j] = n + 315 + fill * j /\ v[6 + j] = fill
    BY <1>8, <1>12, <2>1
  <2>4. fill * (j + 1) = fill * j + fill /\ fill * j \in Nat
    BY <1>10, Product
  <2> DEFINE x == fill * j
             y == fill * (j + 1)
  <2> HIDE DEF x, y
  <2>5. y = x + fill /\ x \in Nat
    BY <2>4 DEF x, y
  <2>6. sum[6 + (j + 1)] = (n + 315 + x) + fill
    BY <2>2, <2>3 DEF x
  <2>7. (n + 315 + x) + fill = n + 315 + y
    BY <1>n, <1>10, <2>5
  <2> QED
    BY <2>6, <2>7 DEF y
<1>13. sum[n - 3] = SumOf(item)
  <2> HIDE DEF S
  <2>1. Nat \subseteq S
    BY <1>11, <1>12, Induction
  <2>2. n - 9 \in Nat /\ 6 + (n - 9) = n - 3 /\ n - 3 <= n - 3
    BY <1>n
  <2>3. sum[n - 3] = n + 315 + fill * (n - 9)
    BY <2>1, <2>2 DEF S
  <2>4. SumOf(item) = n + 80 + 235 + fill * (n - 9)
    BY <1>1 DEF SumOf, fill
  <2>5. fill * (n - 9) \in Nat
    BY <1>10, <2>2, Product
  <2> DEFINE x == fill * (n - 9)
  <2> HIDE DEF x
  <2>6. n + 315 + x = n + 80 + 235 + x
    BY <1>n, <2>5 DEF x
  <2> QED
    BY <2>3, <2>4, <2>6 DEF x
<1>14. d(3) * 100 + d(2) * 10 + d(1) = Stored(item)
  <2>1. /\ n - 3 \in 0..(n - 1) /\ n - 2 \in 0..(n - 1) /\ n - 1 \in 0..(n - 1)
        /\ n - 3 \in (n - 3)..(n - 1) /\ n - 2 \in (n - 3)..(n - 1)
        /\ n - 1 \in (n - 3)..(n - 1)
        /\ (n - 3) - n + 4 = 1 /\ (n - 2) - n + 4 = 2 /\ (n - 1) - n + 4 = 3
    BY <1>n
  <2>2. item.header
    BY DEF item
  <2>3. \A k \in 0..(n - 1) : k \in (n - 3)..(n - 1) =>
           ItemByte(item, k) = insert_checksum(item, k - n + 4)
    BY <1>1, <2>2, ByteValues
  <2>4. /\ d(3) = insert_checksum(item, 1) - 48 /\ d(2) = insert_checksum(item, 2) - 48
        /\ d(1) = insert_checksum(item, 3) - 48
    BY <1>2, <2>1, <2>3 DEF d
  <2>5. (insert_checksum(item, 1) - 48) * 100 + (insert_checksum(item, 2) - 48) * 10
            + (insert_checksum(item, 3) - 48) = Stored(item)
    BY <1>1, <2>2, ChecksumDigits
  <2> QED
    BY <2>4, <2>5
<1>15. SumOf(item) \in Nat /\ Stored(item) \in 0..255
  <2>1. item.header
    BY DEF item
  <2> QED
    BY <1>1, <2>1, ChecksumDigits
<1>16. Stored(item) % 256 = Stored(item)
  <2> DEFINE x == Stored(item)
  <2>1. x \in 0..255
    BY <1>15
  <2> HIDE DEF x
  <2>2. x % 256 = x
    BY <2>1
  <2> QED
    BY <2>2 DEF x
<1>17. validate_checksum <=> SumOf(item) % 256 = Stored(item)
  BY <1>3, <1>13, <1>14, <1>16
<1>18. SumOf(item) % 256 = Stored(item) <=> item.checksum
  <2> DEFINE t == SumOf(item)
  <2>1. t \in Nat
    BY <1>15
  <2> HIDE DEF t
  <2>2. t + 0 = t /\ (t + 1) % 256 # t % 256
    BY <2>1
  <2>3. Stored(item) = (t + (IF item.checksum THEN 0 ELSE 1)) % 256
    BY DEF Stored, t
  <2> QED
    BY <1>1, <2>2, <2>3 DEF t
<1> QED
  BY <1>17, <1>18 DEF item

-----------------------------------------------------------------------------
(***************************************************************************)
(* Each step of read_next_message keeps its place in the stream.           *)
(***************************************************************************)
\* What a step of the running program leaves as it is
Fixed == UNCHANGED <<MsgClassPack, layout, wire, mem_span>>

LEMMA FixedKeeps ==
    ASSUME Fixed
    PROVE  /\ header_length' = header_length /\ delimit_offset' = delimit_offset
           /\ delimit_value' = delimit_value /\ length_offset' = length_offset
           /\ buffer_size' = buffer_size
           /\ shortest_msg_size' = shortest_msg_size
           /\ bytes_to_keep' = bytes_to_keep /\ scan_length' = scan_length
           /\ mem_size' = mem_size /\ MsgLengths' = MsgLengths
           /\ Len(wire)' = Len(wire)
           /\ \A n : Ends(n)' = Ends(n)
           /\ \A n : Messages(n)' = Messages(n)
           /\ \A n, m : Ahead(n, m)' <=> Ahead(n, m)
           /\ \A m : Kept(m)' = Kept(m)
           /\ \A i, answer : Answers(i, answer)' <=> Answers(i, answer)
BY DEF Fixed, header_length, delimit_offset, delimit_value, length_offset, buffer_size,
       shortest_msg_size, bytes_to_keep, scan_length, mem_size, MsgLengths, Ends,
       Messages, Ahead, Kept, Answers, construct_variant, Constructed

\* The numbers when there is something on the wire
LEMMA Numbers ==
    ASSUME Ground, ~NotRunning, wire # <<>>
    PROVE  /\ header_length = 6 /\ delimit_offset = 4 /\ bytes_to_keep = 5
           /\ shortest_msg_size \in Nat /\ shortest_msg_size >= 9
           /\ buffer_size \in Nat /\ shortest_msg_size <= buffer_size
           /\ scan_length = shortest_msg_size - 5
           /\ mem_size \in Nat /\ mem_size > 0
           /\ mem_size = Ends(Len(wire))
           /\ Len(wire) \in Nat /\ Len(wire) > 0
<1>1. header_length = 6 /\ delimit_offset = 4
  BY WireIsGood
<1>2. shortest_msg_size \in Nat /\ shortest_msg_size >= 9
  BY WireIsGood
<1>3. buffer_size \in Nat /\ shortest_msg_size <= buffer_size
  <2>1. 1 \in DOMAIN MsgClassPack
    BY Compiled
  <2>2. /\ MsgClassPack[1].msg_length <= buffer_size
        /\ shortest_msg_size <= MsgClassPack[1].msg_length
        /\ buffer_size \in Nat
    BY <2>1, SizesFound
  <2>3. MsgClassPack[1].msg_length \in MsgLengths
    BY <2>1 DEF MsgLengths
  <2>4. MsgClassPack[1].msg_length \in Nat
    BY <2>3, SizesFound
  <2> QED
    BY <1>2, <2>2, <2>4
<1>4. bytes_to_keep = 5 /\ scan_length = shortest_msg_size - 5
  BY <1>1 DEF bytes_to_keep, scan_length
<1>5. Len(wire) \in Nat /\ Len(wire) # 0
  BY WireTyped
<1>6. mem_size = Ends(Len(wire)) /\ mem_size \in Nat
  BY StreamIs
<1>7. Ends(0) < Ends(Len(wire)) /\ Ends(0) = 0
  <2>1. 0 \in 0..Len(wire) /\ Len(wire) \in 0..Len(wire) /\ 0 < Len(wire)
    BY <1>5
  <2> QED
    BY <2>1, EndsRise, EndsAre
<1> QED
  BY <1>1, <1>2, <1>3, <1>4, <1>5, <1>6, <1>7

\* What recv does to the place in the stream and the flag
LEMMA ConsumeTells ==
    ASSUME Ground, ~NotRunning, FlagTells, Fixed, NEW len \in Int, Consume(len),
           len >= 0, len > 0 \/ wire # <<>>
    PROVE  /\ FlagTells'
           /\ read_index' = read_index + len /\ read_index' <= mem_size
<1>1. /\ read_index \in 0..mem_size /\ end_of_buffer \in BOOLEAN
      /\ end_of_buffer = TRUE <=> read_index = mem_size /\ read_index > 0
  BY DEF FlagTells
<1>2. /\ read_index + len \in 0..mem_size
      /\ read_index' = read_index + len
      /\ end_of_buffer' = (end_of_buffer \/ read_index' = mem_size)
  BY DEF Consume, Fits
<1>3. mem_size \in Nat /\ mem_size' = mem_size
  BY StreamIs, FixedKeeps
<1>4. wire # <<>> => mem_size > 0
  BY Numbers
<1>5. read_index' \in 0..mem_size
  BY <1>1, <1>2, <1>3
<1>6. end_of_buffer' \in BOOLEAN
  BY <1>1, <1>2
<1>7. end_of_buffer' = TRUE <=> read_index' = mem_size /\ read_index' > 0
  <2>1. read_index' = mem_size => read_index' > 0
    BY <1>1, <1>2, <1>3, <1>4
  <2>2. read_index = mem_size => read_index' = mem_size
    BY <1>1, <1>2, <1>3
  <2> QED
    BY <1>1, <1>2, <2>1, <2>2
<1> QED
  BY <1>2, <1>3, <1>5, <1>6, <1>7 DEF FlagTells

LEMMA FlagKept ==
    ASSUME FlagTells, Fixed, UNCHANGED <<read_index, end_of_buffer>>
    PROVE  FlagTells'
BY FixedKeeps DEF FlagTells

\* The place is kept when the calls answered and the message ahead are.
LEMMA PlaceKept ==
    ASSUME Fixed, UNCHANGED returned
    PROVE  \A n : Answered(n)' <=> Answered(n)
BY FixedKeeps DEF Answered

LEMMA CallStep ==
    ASSUME Ground, ~NotRunning, FlagTells, InStream, Fixed, Call
    PROVE  InStream' /\ FlagTells'
<1>1. /\ pc = "idle" /\ ~end_of_buffer /\ pc' = "header"
      /\ UNCHANGED <<read_index, end_of_buffer, returned>>
  BY DEF Call, socket
<1>2. PICK n \in 0..Len(wire) : Answered(n) /\ read_index = Ends(n)
  BY <1>1 DEF InStream
<1>3. Answered(n)' /\ read_index' = Ends(n)' /\ Len(wire)' = Len(wire)
  BY <1>1, <1>2, PlaceKept, FixedKeeps
<1> QED
  BY <1>1, <1>2, <1>3, FlagKept DEF InStream, InMessage

LEMMA TerminateStep ==
    ASSUME FlagTells, Fixed, Terminate
    PROVE  InStream' /\ FlagTells'
<1>1. pc' = "terminated" /\ UNCHANGED <<read_index, end_of_buffer>>
  BY DEF Terminate, socket
<1> QED
  BY <1>1, FlagKept DEF InStream, InMessage

LEMMA InPlace ==
    ASSUME Fixed, pc' \in InMessage,
           NEW n \in 0..Len(wire), NEW m \in 1..(Len(wire) + 1), Framing(n, m)'
    PROVE  InStream'
BY FixedKeeps DEF InStream, InMessage

LEMMA ReceivedIs ==
    ASSUME NEW b, NEW dest, NEW len, NEW k \in DOMAIN b
    PROVE  /\ k \in dest..(dest + len - 1) =>
                Received(b, dest, len)[k] = mem_span[read_index + k - dest + 1]
           /\ k \notin dest..(dest + len - 1) => Received(b, dest, len)[k] = b[k]
BY DEF Received

LEMMA ShiftedIs ==
    ASSUME NEW b, NEW n, NEW k \in DOMAIN b, n >= 0, k + n < shortest_msg_size
    PROVE  ShiftLeft(b, n)[k] = b[k + n]
BY DEF ShiftLeft

LEMMA ReadHeaderStep ==
    ASSUME Ground, ~NotRunning, FlagTells, InStream, Fixed, ReadHeader
    PROVE  InStream' /\ FlagTells'
<1> DEFINE L == Len(wire)
           s == shortest_msg_size
           b == Received(buffer_span, 0, header_length)
<1>1. /\ pc = "header" /\ Consume(header_length) /\ bytes_read' = header_length
      /\ returned' = returned
      /\ IF DelimiterAt(b, delimit_offset)
         THEN pc' = "length" /\ buffer_span' = b
         ELSE pc' = "scan" /\ buffer_span' = ShiftLeft(b, 1)
  BY DEF ReadHeader
<1>2. header_length \in Nat /\ header_length > 0
  BY SizesFound
<1>3. FlagTells' /\ read_index' = read_index + header_length /\ read_index' <= mem_size
  BY <1>1, <1>2, ConsumeTells
<1>4. PICK n \in 0..Len(wire) : Answered(n) /\ read_index = Ends(n)
  BY <1>1 DEF InStream
<1>5. Ends(n) \in Nat /\ mem_size = Ends(L) /\ L \in Nat /\ mem_size \in Nat
  BY <1>4, WireTyped, EndsAre, StreamIs
<1>6. wire # <<>> /\ n < L
  <2>1. n # L
    BY <1>2, <1>3, <1>4, <1>5
  <2>2. n < L
    BY <1>5, <2>1
  <2>3. wire = <<>> => Len(wire) = 0
    OBVIOUS
  <2> QED
    BY <2>2, <2>3
<1>7. /\ header_length = 6 /\ delimit_offset = 4 /\ bytes_to_keep = 5
      /\ s \in Nat /\ s >= 9 /\ buffer_size \in Nat /\ s <= buffer_size
      /\ header_length' = 6 /\ bytes_to_keep' = 5
  BY <1>6, Numbers, FixedKeeps
<1>8. read_index' = Ends(n) + 6
  BY <1>3, <1>4, <1>7
<1>9. PICK m \in 1..(Len(wire) + 1) : Ahead(n, m)
  BY NextMessage
<1>10. /\ m \in (n + 1)..(L + 1) /\ \A i \in (n + 1)..(m - 1) : ~wire[i].header
       /\ m <= L => wire[m].header
  BY <1>9 DEF Ahead
<1>11. /\ wire' # <<>> /\ Answered(n)' /\ Ahead(n, m)'
       /\ Ends(n)' = Ends(n) /\ Ends(m - 1)' = Ends(m - 1)
  BY <1>1, <1>4, <1>6, <1>9, PlaceKept, FixedKeeps DEF Fixed
<1>12. mem_span' = mem_span
  BY DEF Fixed
<1>13. DOMAIN buffer_span = 0..(buffer_size - 1) /\ DOMAIN b = 0..(buffer_size - 1)
  BY DEF Ground, Received
<1>14. ASSUME NEW k \in 0..5 PROVE b[k] = mem_span[Ends(n) + k + 1]
  <2>1. k \in 0..(buffer_size - 1) /\ k \in 0..(0 + 6 - 1)
    BY <1>7
  <2>2. b[k] = mem_span[read_index + k - 0 + 1]
    BY <1>7, <1>13, <2>1, ReceivedIs
  <2>3. read_index + k - 0 + 1 = Ends(n) + k + 1
    BY <1>4, <1>5
  <2> QED
    BY <2>2, <2>3
<1>15. delimit_value = <<80, 235>>
  BY <1>6, WireIsGood
<1>16. DelimiterAt(b, delimit_offset) <=>
         mem_span[Ends(n) + 5].value = 80 /\ mem_span[Ends(n) + 6].value = 235
  <2>1. Ends(n) + 4 + 1 = Ends(n) + 5 /\ Ends(n) + 5 + 1 = Ends(n) + 6
    BY <1>5
  <2>2. b[4] = mem_span[Ends(n) + 5] /\ b[5] = mem_span[Ends(n) + 6]
    BY <1>14, <2>1
  <2> HIDE DEF b
  <2>3. 4 + 1 = 5 /\ delimit_value[1] = 80 /\ delimit_value[2] = 235
    BY <1>15
  <2> QED
    BY <1>7, <2>2, <2>3 DEF DelimiterAt
<1> HIDE DEF b
<1>17. CASE DelimiterAt(b, delimit_offset)
  <2>1. pc' = "length" /\ buffer_span' = b
    BY <1>1, <1>17
  <2> DEFINE p == Ends(n) + 5
  <2>2. p \in 1..mem_size /\ p + 1 = Ends(n) + 6
    BY <1>3, <1>5, <1>8
  <2>3. PICK i \in 1..Len(wire) : wire[i].header /\ p = Ends(i - 1) + 5
    <3>1. mem_span[p].value = 80 /\ mem_span[p + 1].value = 235
      BY <1>16, <1>17, <2>2
    <3> HIDE DEF p
    <3> QED
      BY <2>2, <3>1, DelimiterIsHeader
  <2>4. i - 1 \in 0..L /\ Ends(i - 1) \in Nat
    BY <1>5, EndsAre
  <2>5. Ends(i - 1) = Ends(n)
    BY <1>5, <2>3, <2>4
  <2>6. i - 1 = n
    <3>1. i - 1 < n => Ends(i - 1) < Ends(n)
      BY <2>4, EndsRise
    <3>2. n < i - 1 => Ends(n) < Ends(i - 1)
      BY <2>4, EndsRise
    <3> QED
      BY <1>5, <2>4, <2>5, <3>1, <3>2
  <2>7. m = n + 1 /\ m <= L /\ m - 1 = n
    <3>1. i = n + 1
      BY <1>5, <2>6
    <3>2. i \notin (n + 1)..(m - 1)
      BY <1>10, <2>3
    <3> QED
      BY <1>5, <1>10, <3>1, <3>2
  <2>8. Found(m)'
    <3>1. bytes_read' = 6 /\ s' = s /\ L' = L
      BY <1>1, <1>7, FixedKeeps
    <3>2. 6 \in 6..s
      BY <1>7
    <3> QED
      BY <1>7, <2>7, <3>1, <3>2 DEF Found
  <2>9. read_index' = Ends(m - 1)' + bytes_read'
    BY <1>1, <1>7, <1>8, <1>11, <2>7
  <2>10. Holds(m, bytes_read)'
    <3>1. bytes_read' = 6 /\ Ends(m - 1) = Ends(n)
      BY <1>1, <1>7, <2>7
    <3>2. \A k \in 0..(6 - 1) : k \in 0..5
      OBVIOUS
    <3> QED
      BY <1>11, <1>12, <1>14, <2>1, <3>1, <3>2 DEF Holds
  <2>11. Framing(n, m)'
    BY <1>11, <2>1, <2>8, <2>9, <2>10 DEF Framing
  <2>12. pc' \in InMessage
    BY <2>1 DEF InMessage
  <2> QED
    BY <1>3, <2>11, <2>12, InPlace
<1>18. CASE ~DelimiterAt(b, delimit_offset)
  <2>1. pc' = "scan" /\ buffer_span' = ShiftLeft(b, 1)
    BY <1>1, <1>18
  <2>2. m # n + 1
    <3> SUFFICES ASSUME m = n + 1 PROVE FALSE
      OBVIOUS
    <3>1. m \in 1..Len(wire) /\ wire[m].header /\ m - 1 = n
      BY <1>5, <1>6, <1>10
    <3>2. mem_span[Ends(m - 1) + 5].value = 80 /\ mem_span[Ends(m - 1) + 6].value = 235
      BY <3>1, HeaderValues
    <3> QED
      BY <1>16, <1>18, <3>1, <3>2
  <2>3. m - 1 \in 0..L /\ n < m - 1
    BY <1>5, <1>10, <2>2
  <2>4. Ends(n) < Ends(m - 1) /\ Ends(m - 1) \in Nat
    BY <2>3, EndsRise
  <2>5. Searching(n, m, read_index)'
    <3>1. Ends(n) + 6 <= read_index' /\ read_index' <= Ends(m - 1) + 6 - 1
      BY <1>5, <1>8, <2>4
    <3> QED
      BY <1>7, <1>11, <3>1 DEF Searching
  <2>6. HoldsLast(bytes_to_keep)'
    <3> SUFFICES ASSUME NEW k \in 0..(5 - 1)
                 PROVE  buffer_span'[k] = mem_span[read_index' - 5 + k + 1]
      BY <1>7, <1>12 DEF HoldsLast
    <3>1. k \in 0..(buffer_size - 1) /\ 1 >= 0 /\ k + 1 < s /\ k + 1 \in 0..5
      BY <1>7
    <3>2. ShiftLeft(b, 1)[k] = b[k + 1]
      <4>1. k \in DOMAIN b /\ k + 1 < shortest_msg_size
        BY <1>13, <3>1
      <4> HIDE DEF b
      <4> QED
        BY <3>1, <4>1, ShiftedIs, Zenon
    <3>3. b[k + 1] = mem_span[Ends(n) + (k + 1) + 1]
      BY <1>14, <3>1
    <3>4. Ends(n) + (k + 1) + 1 = read_index' - 5 + k + 1
      BY <1>5, <1>8
    <3> QED
      BY <2>1, <3>2, <3>3, <3>4
  <2>7. Framing(n, m)'
    BY <1>11, <2>1, <2>5, <2>6 DEF Framing
  <2>8. pc' \in InMessage
    BY <2>1 DEF InMessage
  <2> QED
    BY <1>3, <2>7, <2>8, InPlace
<1> QED
  BY <1>17, <1>18

\* The place of a step of the search
LEMMA SearchPlace ==
    ASSUME Ground, ~NotRunning, InStream, NEW r, NEW n \in 0..Len(wire),
           NEW m \in 1..(Len(wire) + 1), Ahead(n, m), Searching(n, m, r), wire # <<>>
    PROVE  /\ m - 1 \in 0..Len(wire) /\ m \in Int
           /\ Ends(n) \in Nat /\ Ends(m - 1) \in Nat /\ Ends(m - 1) <= mem_size
           /\ Ends(n) + 6 <= r /\ r <= Ends(m - 1) + 5
<1>1. m - 1 \in 0..Len(wire) /\ Len(wire) \in 0..Len(wire) /\ m \in Int
      /\ m - 1 <= Len(wire)
  BY WireTyped
<1>2. Ends(n) \in Nat /\ Ends(m - 1) \in Nat /\ Ends(m - 1) <= mem_size
  BY <1>1, EndsRise, Numbers
<1>3. header_length = 6
  BY Numbers
<1>4. Ends(n) + 6 <= r /\ r <= Ends(m - 1) + 6 - 1
  BY <1>3 DEF Searching
<1> QED
  BY <1>1, <1>2, <1>4

LEMMA ScanStep ==
    ASSUME Ground, ~NotRunning, FlagTells, InStream, Fixed, Scan
    PROVE  InStream' /\ FlagTells'
<1> DEFINE s == shortest_msg_size
<1>1. /\ pc = "scan" /\ Consume(scan_length) /\ pc' = "search" /\ returned' = returned
      /\ buffer_span' = Received(buffer_span, bytes_to_keep, scan_length)
  BY DEF Scan
<1>2. PICK n \in 0..Len(wire) : \E m \in 1..(Len(wire) + 1) : Framing(n, m)
  BY <1>1 DEF InStream, InMessage
<1>3. PICK m \in 1..(Len(wire) + 1) : Framing(n, m)
  BY <1>2
<1>4. /\ wire # <<>> /\ Answered(n) /\ Ahead(n, m)
      /\ Searching(n, m, read_index) /\ HoldsLast(bytes_to_keep)
  BY <1>1, <1>3 DEF Framing
<1>5. /\ bytes_to_keep = 5 /\ scan_length = s - 5 /\ s \in Nat /\ s >= 9
      /\ buffer_size \in Nat /\ s <= buffer_size
  BY <1>4, Numbers
<1> HIDE DEF s
<1>6. FlagTells' /\ read_index' = read_index + (s - 5) /\ read_index' <= mem_size
  BY <1>1, <1>4, <1>5, ConsumeTells
<1>7. read_index \in Nat
  BY StreamIs DEF FlagTells
<1>8. /\ wire' # <<>> /\ Answered(n)' /\ Ahead(n, m)'
      /\ Ends(n)' = Ends(n) /\ Ends(m - 1)' = Ends(m - 1)
      /\ header_length' = header_length /\ scan_length' = s - 5 /\ s' = s
      /\ shortest_msg_size' = s /\ mem_span' = mem_span
  BY <1>1, <1>4, <1>5, PlaceKept, FixedKeeps DEF Fixed, s
<1>9. Searching(n, m, read_index - scan_length)'
  <2>1. (read_index - scan_length)' = read_index
    BY <1>5, <1>6, <1>7, <1>8
  <2> QED
    BY <1>4, <1>8, <2>1 DEF Searching
<1>10. HoldsLast(shortest_msg_size)'
  <2> SUFFICES ASSUME NEW k \in 0..(s - 1)
               PROVE  buffer_span'[k] = mem_span[read_index' - s + k + 1]
    BY <1>8 DEF HoldsLast
  <2>1. DOMAIN buffer_span = 0..(buffer_size - 1) /\ k \in 0..(buffer_size - 1)
    BY <1>5 DEF Ground
  <2>2. read_index' - s + k + 1 = read_index - 5 + k + 1
        /\ read_index' - s + k + 1 = read_index + k - 5 + 1
    BY <1>5, <1>6, <1>7
  <2>3. CASE k < 5
    <3>1. k \in 0..(5 - 1) /\ k \notin 5..(5 + (s - 5) - 1)
      BY <1>5, <2>3
    <3>2. buffer_span[k] = mem_span[read_index - 5 + k + 1]
      BY <1>4, <1>5, <3>1 DEF HoldsLast
    <3>3. buffer_span'[k] = buffer_span[k]
      BY <1>1, <1>5, <2>1, <3>1, ReceivedIs
    <3> QED
      BY <2>2, <3>2, <3>3
  <2>4. CASE k >= 5
    <3>1. k \in 5..(5 + (s - 5) - 1)
      BY <1>5, <2>4
    <3>2. buffer_span'[k] = mem_span[read_index + k - 5 + 1]
      BY <1>1, <1>5, <2>1, <3>1, ReceivedIs
    <3> QED
      BY <2>2, <3>2
  <2> QED
    BY <1>5, <2>3, <2>4
<1>11. Framing(n, m)'
  BY <1>1, <1>8, <1>9, <1>10 DEF Framing
<1>12. pc' \in InMessage
  BY <1>1 DEF InMessage
<1> QED
  BY <1>6, <1>11, <1>12, InPlace

\* The bytes of the buffer while it is searched, and the delimiter that is in it
\* when the header of the next message is
LEMMA SearchedBytes ==
    ASSUME Ground, ~NotRunning, FlagTells, InStream, wire # <<>>,
           NEW n \in 0..Len(wire), NEW m \in 1..(Len(wire) + 1), Ahead(n, m),
           Searching(n, m, read_index - scan_length), HoldsLast(shortest_msg_size)
    PROVE  /\ read_index \in Nat /\ read_index <= mem_size
           /\ Ends(n) + 1 + shortest_msg_size <= read_index
           /\ read_index <= Ends(m - 1) + shortest_msg_size
           /\ \A k \in 0..(shortest_msg_size - 2) : k \in Delimiters <=>
                 /\ mem_span[read_index - shortest_msg_size + k + 1].value = 80
                 /\ mem_span[read_index - shortest_msg_size + k + 2].value = 235
           /\ m <= Len(wire) /\ read_index >= Ends(m - 1) + 6 =>
                Ends(m - 1) + 4 - (read_index - shortest_msg_size) \in Delimiters
<1> DEFINE s == shortest_msg_size
           p == read_index
           e == Ends(m - 1)
           f == Ends(n)
<1>1. s \in Nat /\ s >= 9 /\ scan_length = s - 5 /\ mem_size \in Nat
  BY Numbers
<1>2. p \in Nat /\ p <= mem_size
  BY <1>1 DEF FlagTells
<1>3. e \in Nat /\ f \in Nat /\ f + 6 <= p - scan_length /\ p - scan_length <= e + 5
  BY SearchPlace
<1>4. f + 1 + s <= p /\ p <= e + s
  <2> HIDE DEF s, p, e, f
  <2> QED
    BY <1>1, <1>2, <1>3
<1>5. ASSUME NEW k \in 0..(s - 1)
      PROVE  buffer_span[k] = mem_span[p - s + k + 1]
  BY DEF HoldsLast
<1>6. delimit_value[1] = 80 /\ delimit_value[2] = 235
  BY WireIsGood
<1>7. \A k \in 0..(s - 2) : k \in Delimiters <=>
         mem_span[p - s + k + 1].value = 80 /\ mem_span[p - s + k + 2].value = 235
  <2> SUFFICES ASSUME NEW k \in 0..(s - 2)
               PROVE  k \in Delimiters <=>
                        /\ mem_span[p - s + k + 1].value = 80
                        /\ mem_span[p - s + k + 2].value = 235
    OBVIOUS
  <2>1. k \in Delimiters <=> DelimiterAt(buffer_span, k)
    BY DEF Delimiters
  <2> HIDE DEF s, p
  <2>2. k \in 0..(s - 1) /\ k + 1 \in 0..(s - 1) /\ p - s + (k + 1) + 1 = p - s + k + 2
    BY <1>1, <1>2
  <2>3. buffer_span[k] = mem_span[p - s + k + 1]
        /\ buffer_span[k + 1] = mem_span[p - s + k + 2]
    BY <1>5, <2>2
  <2> QED
    BY <1>6, <2>1, <2>3 DEF DelimiterAt
<1>8. ASSUME m <= Len(wire), p >= e + 6
      PROVE  e + 4 - (p - s) \in Delimiters
  <2>1. m \in 1..Len(wire) /\ wire[m].header
    BY <1>8, WireTyped DEF Ahead
  <2>2. mem_span[e + 5].value = 80 /\ mem_span[e + 6].value = 235
    BY <2>1, HeaderValues
  <2> DEFINE k == e + 4 - (p - s)
  <2>3. k \in 0..(s - 2) /\ p - s + k + 1 = e + 5 /\ p - s + k + 2 = e + 6
    <3> HIDE DEF s, p, e, f
    <3> QED
      BY <1>1, <1>2, <1>3, <1>4, <1>8
  <2> HIDE DEF k
  <2>4. k \in Delimiters
    BY <1>7, <2>2, <2>3
  <2> QED
    BY <2>4 DEF k
<1> QED
  BY <1>2, <1>4, <1>7, <1>8

LEMMA NoDelimiterStep ==
    ASSUME Ground, ~NotRunning, FlagTells, InStream, Fixed, NoDelimiter
    PROVE  InStream' /\ FlagTells'
<1> DEFINE s == shortest_msg_size
           p == read_index
<1>1. /\ pc = "search" /\ Delimiters = {} /\ pc' = "scan"
      /\ UNCHANGED <<read_index, end_of_buffer, returned>>
      /\ buffer_span' = ShiftLeft(buffer_span, scan_length)
  BY DEF NoDelimiter, socket
<1>2. PICK n \in 0..Len(wire) : \E m \in 1..(Len(wire) + 1) : Framing(n, m)
  BY <1>1 DEF InStream, InMessage
<1>3. PICK m \in 1..(Len(wire) + 1) : Framing(n, m)
  BY <1>2
<1>4. /\ wire # <<>> /\ Answered(n) /\ Ahead(n, m)
      /\ Searching(n, m, read_index - scan_length) /\ HoldsLast(shortest_msg_size)
  BY <1>1, <1>3 DEF Framing
<1>5. /\ bytes_to_keep = 5 /\ scan_length = s - 5 /\ s \in Nat /\ s >= 9
      /\ buffer_size \in Nat /\ s <= buffer_size /\ header_length = 6
      /\ mem_size = Ends(Len(wire))
  BY <1>4, Numbers
<1>6. /\ p \in Nat /\ p <= mem_size /\ Ends(n) + 1 + s <= p
      /\ m <= Len(wire) => ~(p >= Ends(m - 1) + 6)
  BY <1>1, <1>4, SearchedBytes
<1>7. Ends(n) \in Nat /\ Ends(m - 1) \in Nat /\ m - 1 \in 0..Len(wire) /\ m \in Int
  BY <1>4, SearchPlace
<1>8. p <= Ends(m - 1) + 5
  <2>1. CASE m <= Len(wire)
    BY <1>6, <1>7, <2>1
  <2>2. CASE ~(m <= Len(wire))
    <3>1. m - 1 = Len(wire)
      BY <1>7, <2>2, WireTyped
    <3> QED
      BY <1>5, <1>6, <1>7, <3>1
  <2> QED
    BY <2>1, <2>2
<1>9. /\ wire' # <<>> /\ Answered(n)' /\ Ahead(n, m)'
      /\ Ends(n)' = Ends(n) /\ Ends(m - 1)' = Ends(m - 1)
      /\ header_length' = 6 /\ bytes_to_keep' = 5 /\ mem_span' = mem_span
  BY <1>1, <1>4, <1>5, PlaceKept, FixedKeeps DEF Fixed
<1> HIDE DEF s
<1>10. Searching(n, m, read_index)'
  <2>1. Ends(n) + 6 <= p /\ p <= Ends(m - 1) + 6 - 1
    BY <1>5, <1>6, <1>7, <1>8
  <2> QED
    BY <1>1, <1>9, <2>1 DEF Searching
<1>11. HoldsLast(bytes_to_keep)'
  <2> SUFFICES ASSUME NEW k \in 0..(5 - 1)
               PROVE  buffer_span'[k] = mem_span[p - 5 + k + 1]
    BY <1>1, <1>9 DEF HoldsLast
  <2> HIDE DEF p
  <2> DEFINE d == s - 5
  <2>1. /\ k \in 0..(buffer_size - 1) /\ d >= 0 /\ k + d < s
        /\ k + d \in 0..(s - 1) /\ p - s + (k + d) + 1 = p - 5 + k + 1
    BY <1>5, <1>6
  <2>2. DOMAIN buffer_span = 0..(buffer_size - 1)
    BY DEF Ground
  <2> HIDE DEF d
  <2>3. ShiftLeft(buffer_span, d)[k] = buffer_span[k + d]
    <3>1. k \in DOMAIN buffer_span /\ d >= 0 /\ k + d < shortest_msg_size
      BY <2>1, <2>2 DEF s
    <3> QED
      BY <3>1, ShiftedIs, Zenon
  <2>4. buffer_span[k + d] = mem_span[p - s + (k + d) + 1]
    BY <1>4, <2>1 DEF HoldsLast, s, p
  <2> QED
    BY <1>1, <1>5, <2>1, <2>3, <2>4 DEF d
<1>12. Framing(n, m)'
  BY <1>1, <1>9, <1>10, <1>11 DEF Framing
<1>13. pc' \in InMessage
  BY <1>1 DEF InMessage
<1> QED
  BY <1>1, <1>12, <1>13, InPlace, FlagKept

\* The least number of a set
LEMMA LeastIsMin ==
    ASSUME NEW S \in SUBSET Nat, S # {}
    PROVE  Min(S) \in S /\ \A x \in S : Min(S) <= x
<1>0. IsWellFoundedOn(LessThan, Nat)
  BY NatLessThanWellFounded DEF LessThan, OpToRel
<1>1. PICK k \in S : \A j \in S : ~(<<j, k>> \in LessThan)
  BY <1>0, WFMin
<1>2. \A j \in S : j >= k
  <2> SUFFICES ASSUME NEW j \in S PROVE j >= k
    OBVIOUS
  <2>1. j \in Nat /\ k \in Nat /\ <<j, k>> \notin LessThan
    BY <1>1
  <2>2. ~(j < k)
    BY <2>1 DEF LessThan
  <2> QED
    BY <2>1, <2>2
<1>3. Min(S) = k
  BY <1>2, IsMin
<1> QED
  BY <1>2, <1>3

LEMMA DelimiterFoundStep ==
    ASSUME Ground, ~NotRunning, FlagTells, InStream, Fixed, DelimiterFound
    PROVE  InStream' /\ FlagTells'
<1> DEFINE s == shortest_msg_size
           p == read_index
           k == Min(Delimiters)
<1>1. /\ pc = "search" /\ Delimiters # {} /\ pc' = "length"
      /\ UNCHANGED <<read_index, end_of_buffer, returned>>
      /\ buffer_span' = ShiftLeft(buffer_span, k - delimit_offset)
      /\ bytes_read' = s - (k - delimit_offset)
  BY DEF DelimiterFound, socket
<1>2. PICK n \in 0..Len(wire) : \E m \in 1..(Len(wire) + 1) : Framing(n, m)
  BY <1>1 DEF InStream, InMessage
<1>3. PICK m \in 1..(Len(wire) + 1) : Framing(n, m)
  BY <1>2
<1>4. /\ wire # <<>> /\ Answered(n) /\ Ahead(n, m)
      /\ Searching(n, m, read_index - scan_length) /\ HoldsLast(shortest_msg_size)
  BY <1>1, <1>3 DEF Framing
<1> DEFINE e == Ends(m - 1)
           f == Ends(n)
           L == Len(wire)
<1>5. /\ delimit_offset = 4 /\ s \in Nat /\ s >= 9 /\ mem_size \in Nat
      /\ buffer_size \in Nat /\ s <= buffer_size /\ header_length = 6 /\ L \in Nat
  BY <1>4, Numbers
<1>6. /\ p \in Nat /\ p <= mem_size /\ f + 1 + s <= p /\ p <= e + s
      /\ \A i \in 0..(s - 2) : i \in Delimiters <=>
            mem_span[p - s + i + 1].value = 80 /\ mem_span[p - s + i + 2].value = 235
      /\ m <= L /\ p >= e + 6 => e + 4 - (p - s) \in Delimiters
  BY <1>4, SearchedBytes
<1>7. f \in Nat /\ e \in Nat /\ m - 1 \in 0..L /\ m \in Int
  BY <1>4, SearchPlace
<1>8. /\ k \in 0..(s - 2) /\ k \in Delimiters /\ \A j \in Delimiters : k <= j
  <2>1. Delimiters \in SUBSET (0..(s - 2)) /\ 0..(s - 2) \subseteq Nat
    BY <1>5 DEF Delimiters
  <2> HIDE DEF s
  <2>2. Delimiters \in SUBSET Nat
    BY <2>1
  <2>3. k \in Delimiters /\ \A j \in Delimiters : k <= j
    BY <1>1, <2>2, LeastIsMin
  <2> QED
    BY <2>1, <2>3
<1> HIDE DEF k, s, p, e, f, L
<1> DEFINE q == p - s + k + 1
<1>9. q \in 1..mem_size /\ q + 1 = p - s + k + 2 /\ q >= f + 2
  BY <1>5, <1>6, <1>7, <1>8
<1>10. mem_span[q].value = 80 /\ mem_span[q + 1].value = 235
  BY <1>6, <1>8, <1>9
<1>11. PICK i \in 1..Len(wire) : wire[i].header /\ q = Ends(i - 1) + 5
  <2> HIDE DEF q
  <2> QED
    BY <1>9, <1>10, DelimiterIsHeader
<1>12. i \in 1..L /\ i - 1 \in 0..L /\ i \in 0..L /\ n \in 0..L
  BY <1>5 DEF L
<1>13. Ends(i - 1) \in Nat /\ Ends(i) \in Nat /\ Ends(i - 1) + 9 <= Ends(i)
  <2>1. Ends(i - 1) + 9 <= Ends(i)
    BY <1>11, HeaderValues
  <2> QED
    BY <1>12, <2>1, EndsAre DEF L
<1>14. i > n
  <2> SUFFICES ASSUME i <= n PROVE FALSE
    BY <1>5, <1>12
  <2>1. Ends(i) <= f
    BY <1>12, EndsRise DEF L, f
  <2> QED
    BY <1>7, <1>9, <1>11, <1>13, <2>1
<1>15. m <= i
  <2>1. i \notin (n + 1)..(m - 1)
    BY <1>4, <1>11 DEF Ahead
  <2> QED
    BY <1>5, <1>7, <1>12, <1>14, <2>1
<1>16. i = m
  <2> SUFFICES ASSUME m < i PROVE FALSE
    BY <1>7, <1>12, <1>15
  <2>1. m - 1 \in 0..L /\ m - 1 < i - 1 /\ m <= L
    BY <1>5, <1>7, <1>12
  <2>2. e < Ends(i - 1)
    BY <1>12, <2>1, EndsRise DEF L, e
  <2>3. p >= e + 6 /\ e + 4 - (p - s) < k
    BY <1>5, <1>6, <1>7, <1>8, <1>11, <1>13, <2>2
  <2>4. e + 4 - (p - s) \in Delimiters
    BY <1>6, <2>1, <2>3
  <2>5. k <= e + 4 - (p - s)
    BY <1>8, <2>4
  <2> QED
    BY <1>5, <1>6, <1>7, <1>8, <2>3, <2>5
<1>17. p - s + k + 1 = e + 5
  BY <1>11, <1>16 DEF e
<1> DEFINE d == k - 4
<1>18. /\ d = e - (p - s) /\ d >= 0 /\ s - d = p - e /\ s - d \in 6..s
  BY <1>5, <1>6, <1>7, <1>8, <1>17
<1>19. buffer_span' = ShiftLeft(buffer_span, d) /\ bytes_read' = s - d
  BY <1>1, <1>5 DEF k, s
<1>20. /\ wire' # <<>> /\ Answered(n)' /\ Ahead(n, m)'
       /\ Ends(m - 1)' = e /\ Len(wire)' = L
       /\ header_length' = 6 /\ shortest_msg_size' = s /\ mem_span' = mem_span
  BY <1>1, <1>4, <1>5, PlaceKept, FixedKeeps DEF Fixed, s, e, L
<1>21. Found(m)'
  <2>1. m <= L
    BY <1>12, <1>16
  <2> QED
    BY <1>18, <1>19, <1>20, <2>1 DEF Found
<1>22. read_index' = Ends(m - 1)' + bytes_read'
  <2>1. p = e + (s - d)
    BY <1>5, <1>6, <1>7, <1>8, <1>18
  <2> QED
    BY <1>1, <1>19, <1>20, <2>1 DEF p
<1>23. Holds(m, bytes_read)'
  <2> SUFFICES ASSUME NEW j \in 0..(s - d - 1)
               PROVE  buffer_span'[j] = mem_span[e + j + 1]
    BY <1>19, <1>20 DEF Holds
  <2>1. /\ j \in 0..(buffer_size - 1) /\ d >= 0 /\ j + d < s /\ j + d \in 0..(s - 1)
        /\ p - s + (j + d) + 1 = e + j + 1
    BY <1>5, <1>6, <1>7, <1>8, <1>18
  <2>2. DOMAIN buffer_span = 0..(buffer_size - 1)
    BY DEF Ground
  <2> HIDE DEF d
  <2>3. ShiftLeft(buffer_span, d)[j] = buffer_span[j + d]
    <3>1. j \in DOMAIN buffer_span /\ d >= 0 /\ j + d < shortest_msg_size
      BY <2>1, <2>2 DEF s
    <3> QED
      BY <3>1, ShiftedIs, Zenon
  <2>4. buffer_span[j + d] = mem_span[p - s + (j + d) + 1]
    BY <1>4, <2>1 DEF HoldsLast, s, p
  <2> QED
    BY <1>19, <2>1, <2>3, <2>4
<1>24. Framing(n, m)'
  BY <1>1, <1>20, <1>21, <1>22, <1>23 DEF Framing
<1>25. pc' \in InMessage
  BY <1>1 DEF InMessage
<1> QED
  BY <1>1, <1>24, <1>25, InPlace, FlagKept

\* What the handler keeps of a message is no less than it reads ahead.
LEMMA MessagePlace ==
    ASSUME Ground, ~NotRunning, wire # <<>>,
           NEW n \in 0..Len(wire), NEW m \in 1..(Len(wire) + 1), Ahead(n, m), Found(m)
    PROVE  /\ m \in 1..Len(wire) /\ m \in 0..Len(wire) /\ m - 1 \in 0..Len(wire)
           /\ wire[m].header
           /\ wire[m].length \in Nat /\ wire[m].length \in shortest_msg_size..255
           /\ Ends(m - 1) \in Nat /\ Ends(m) = Ends(m - 1) + wire[m].length
           /\ bytes_read \in Nat /\ bytes_read >= 6 /\ bytes_read <= shortest_msg_size
           /\ shortest_msg_size \in Nat /\ buffer_size \in Nat
           /\ shortest_msg_size <= buffer_size
           /\ wire[m].length <= buffer_size => Kept(m) = wire[m].length
           /\ wire[m].length > buffer_size => Kept(m) = buffer_size
           /\ Kept(m) \in Nat /\ bytes_read <= Kept(m) /\ Kept(m) <= buffer_size
<1> DEFINE len == wire[m].length
           s == shortest_msg_size
<1>1. /\ header_length = 6 /\ s \in Nat /\ s >= 9 /\ buffer_size \in Nat
      /\ s <= buffer_size
  BY Numbers
<1>2. bytes_read \in 6..s
  BY <1>1 DEF Found
<1>3. m \in 1..Len(wire) /\ m \in 0..Len(wire) /\ m - 1 \in 0..Len(wire)
  BY WireTyped DEF Found
<1>4. wire[m].header
  BY <1>3 DEF Ahead, Found
<1>5. len \in s..255 /\ len \in Nat
  BY <1>3, <1>4, WireIsGood, WireTyped
<1>6. Ends(m - 1) \in Nat /\ Ends(m) = Ends(m - 1) + len
  BY <1>3, EndsAre
<1>7. /\ len <= buffer_size => Kept(m) = len
      /\ len > buffer_size => Kept(m) = buffer_size
  <2> DEFINE size == buffer_size
  <2>1. size \in Nat /\ Kept(m) = Min({len, size})
    BY <1>1 DEF Kept
  <2> HIDE DEF len, size
  <2>2. len <= size => Min({len, size}) = len
    <3> DEFINE T == {len, size}
    <3>1. len <= size => T \in SUBSET Nat /\ len \in T /\ \A x \in T : x >= len
      BY <1>5, <2>1
    <3> HIDE DEF T
    <3>2. len <= size => Min(T) = len
      BY <3>1, IsMin
    <3> QED
      BY <3>2 DEF T
  <2>3. len > size => Min({len, size}) = size
    <3> DEFINE T == {len, size}
    <3>1. len > size => T \in SUBSET Nat /\ size \in T /\ \A x \in T : x >= size
      BY <1>5, <2>1
    <3> HIDE DEF T
    <3>2. len > size => Min(T) = size
      BY <3>1, IsMin
    <3> QED
      BY <3>2 DEF T
  <2> QED
    BY <2>1, <2>2, <2>3 DEF size
<1> HIDE DEF len, s
<1>8. Kept(m) \in Nat /\ bytes_read <= Kept(m) /\ Kept(m) <= buffer_size
  BY <1>1, <1>2, <1>5, <1>7
<1> QED
  BY <1>1, <1>2, <1>3, <1>4, <1>5, <1>6, <1>7, <1>8 DEF len, s

LEMMA GetLengthStep ==
    ASSUME Ground, ~NotRunning, FlagTells, InStream, Fixed, GetLength
    PROVE  /\ InStream' /\ FlagTells'
           /\ msg_length' \in 0..255 /\ excess_bytes' \in Int
<1>1. /\ pc = "length" /\ msg_length' = LengthField
      /\ excess_bytes' = LengthField - buffer_size
      /\ pc' = IF LengthField <= buffer_size THEN "rest" ELSE "discard"
      /\ UNCHANGED <<read_index, end_of_buffer, returned, buffer_span, bytes_read>>
  BY DEF GetLength, socket
<1>2. PICK n \in 0..Len(wire) : \E m \in 1..(Len(wire) + 1) : Framing(n, m)
  BY <1>1 DEF InStream, InMessage
<1>3. PICK m \in 1..(Len(wire) + 1) : Framing(n, m)
  BY <1>2
<1>4. /\ wire # <<>> /\ Answered(n) /\ Ahead(n, m) /\ Found(m)
      /\ read_index = Ends(m - 1) + bytes_read /\ Holds(m, bytes_read)
  BY <1>1, <1>3 DEF Framing
<1> DEFINE len == wire[m].length
           e == Ends(m - 1)
<1>5. /\ m \in 1..Len(wire) /\ wire[m].header /\ len \in Nat
      /\ len \in shortest_msg_size..255 /\ e \in Nat /\ Ends(m) = e + len
      /\ bytes_read \in Nat /\ bytes_read >= 6 /\ bytes_read <= shortest_msg_size
      /\ shortest_msg_size \in Nat /\ buffer_size \in Nat
      /\ len <= buffer_size => Kept(m) = len
      /\ len > buffer_size => Kept(m) = buffer_size
  BY <1>4, MessagePlace
<1>6. LengthField = len
  <2>1. \A k \in 0..3 : k \in 0..(bytes_read - 1)
    BY <1>5
  <2>2. \A k \in 0..3 : buffer_span[k] = mem_span[e + k + 1]
    BY <1>4, <2>1 DEF Holds
  <2>3. e + 0 + 1 = e + 1
    BY <1>5
  <2>4. mem_span[e + 1].value = len /\ \A k \in 1..3 : mem_span[e + k + 1].value = 0
    BY <1>5, HeaderValues
  <2> HIDE DEF len, e
  <2>5. buffer_span[0].value = len /\ \A k \in 1..3 : buffer_span[k].value = 0
    BY <2>2, <2>3, <2>4
  <2>6. length_offset = 0
    BY <1>4, WireIsGood
  <2>7. /\ length_offset + 0 = 0 /\ length_offset + 1 = 1
        /\ length_offset + 2 = 2 /\ length_offset + 3 = 3
    BY <2>6
  <2>8. LengthField = buffer_span[0].value
          + 256 * (buffer_span[1].value
                     + 256 * (buffer_span[2].value + 256 * buffer_span[3].value))
    BY <2>7, Zenon DEF LengthField
  <2> QED
    BY <1>5, <2>5, <2>8
<1>7. /\ wire' # <<>> /\ Answered(n)' /\ Ahead(n, m)'
      /\ Ends(m)' = Ends(m) /\ Ends(m - 1)' = e /\ mem_span' = mem_span
      /\ wire' = wire /\ buffer_size' = buffer_size /\ Kept(m)' = Kept(m)
      /\ header_length' = header_length /\ shortest_msg_size' = shortest_msg_size
  BY <1>1, <1>4, PlaceKept, FixedKeeps DEF Fixed
<1>8. Found(m)'
  BY <1>1, <1>4, <1>7 DEF Found
<1> HIDE DEF len, e
<1>9. len \in 0..255
  <2> DEFINE s == shortest_msg_size
  <2>1. s \in Nat /\ len \in s..255
    BY <1>5
  <2> HIDE DEF s
  <2> QED
    BY <2>1
<1>10. msg_length' \in 0..255 /\ excess_bytes' \in Int
  BY <1>1, <1>5, <1>6, <1>9
<1>11. CASE len <= buffer_size
  <2>1. pc' = "rest" /\ msg_length' = len
    BY <1>1, <1>6, <1>11
  <2>2. msg_length' = Kept(m)'
    BY <1>5, <1>7, <1>11, <2>1
  <2>3. read_index' + (msg_length' - bytes_read') = Ends(m)'
    BY <1>1, <1>4, <1>5, <1>7, <2>1 DEF e
  <2>4. Holds(m, bytes_read)'
    BY <1>1, <1>4, <1>7 DEF Holds, e
  <2>5. Framing(n, m)'
    BY <1>7, <1>8, <2>1, <2>2, <2>3, <2>4 DEF Framing
  <2>6. pc' \in InMessage
    BY <2>1 DEF InMessage
  <2> QED
    BY <1>1, <1>10, <2>5, <2>6, InPlace, FlagKept
<1>12. CASE ~(len <= buffer_size)
  <2>1. pc' = "discard" /\ excess_bytes' = len - buffer_size
    BY <1>1, <1>6, <1>12
  <2>2. len > buffer_size /\ excess_bytes' > 0
    BY <1>5, <1>12, <2>1
  <2>3. read_index' + excess_bytes' + (buffer_size' - bytes_read') = Ends(m)'
    <3>1. (e + bytes_read) + (len - buffer_size) + (buffer_size - bytes_read) = e + len
      BY <1>5
    <3>2. read_index' = e + bytes_read /\ bytes_read' = bytes_read /\ Ends(m)' = e + len
      BY <1>1, <1>4, <1>5, <1>7 DEF e
    <3> QED
      BY <1>7, <2>1, <3>1, <3>2
  <2>4. Framing(n, m)'
    BY <1>7, <1>8, <2>1, <2>2, <2>3 DEF Framing, len
  <2>5. pc' \in InMessage
    BY <2>1 DEF InMessage
  <2> QED
    BY <1>1, <1>10, <2>4, <2>5, InPlace, FlagKept
<1> QED
  BY <1>11, <1>12

\* A turn of discard_long_msg reads something, and no more than there is room for.
LEMMA TurnReads ==
    ASSUME Ground, ~NotRunning, wire # <<>>, excess_bytes \in Int, excess_bytes > 0
    PROVE  /\ DiscardLength \in Nat /\ DiscardLength > 0
           /\ DiscardLength <= excess_bytes
           /\ DiscardLength <= buffer_size - header_length
<1> DEFINE room == buffer_size - header_length
           T == {room, excess_bytes}
<1>1. room \in Nat /\ room > 0
  BY Numbers
<1>2. DiscardLength = Min(T)
  BY DEF DiscardLength
<1> HIDE DEF room
<1>3. T \in SUBSET Nat /\ T # {} /\ \A x \in T : x > 0
  BY <1>1
<1>4. Min(T) \in T /\ \A x \in T : Min(T) <= x
  <2> HIDE DEF T
  <2> QED
    BY <1>3, LeastIsMin
<1>5. Min(T) \in Nat /\ Min(T) > 0 /\ Min(T) <= room /\ Min(T) <= excess_bytes
  <2>1. room \in T /\ excess_bytes \in T
    OBVIOUS
  <2> HIDE DEF T
  <2> QED
    BY <1>3, <1>4, <2>1
<1> QED
  BY <1>2, <1>5 DEF room

LEMMA DiscardStep ==
    ASSUME Ground, ~NotRunning, FlagTells, InStream, excess_bytes \in Int,
           msg_length \in 0..255, Fixed, Discard
    PROVE  /\ InStream' /\ FlagTells'
           /\ msg_length' \in 0..255 /\ excess_bytes' \in Int
<1> DEFINE d == DiscardLength
           x == excess_bytes
<1>1. /\ pc = "discard" /\ Consume(d) /\ excess_bytes' = x - d
      /\ IF excess_bytes' > 0
         THEN UNCHANGED <<pc, msg_length>>
         ELSE pc' = "rest" /\ msg_length' = buffer_size
      /\ UNCHANGED <<bytes_read, returned>>
  BY DEF Discard
<1>2. PICK n \in 0..Len(wire) : \E m \in 1..(Len(wire) + 1) : Framing(n, m)
  BY <1>1 DEF InStream, InMessage
<1>3. PICK m \in 1..(Len(wire) + 1) : Framing(n, m)
  BY <1>2
<1> DEFINE len == wire[m].length
           size == buffer_size
           p == read_index
           end == Ends(m)
<1>4. /\ wire # <<>> /\ Answered(n) /\ Ahead(n, m) /\ Found(m)
      /\ len > size /\ x > 0 /\ p + x + (size - bytes_read) = end
  BY <1>1, <1>3 DEF Framing
<1>5. /\ d \in Nat /\ d > 0 /\ d <= x
  BY <1>4, TurnReads
<1>6. /\ len \in Nat /\ len \in shortest_msg_size..255 /\ size \in Nat
      /\ len > size => Kept(m) = size
      /\ bytes_read \in Nat
  BY <1>4, MessagePlace
<1> HIDE DEF d
<1>7. FlagTells' /\ read_index' = p + d
  <2>1. d \in Int /\ d >= 0
    BY <1>5
  <2> QED
    BY <1>1, <1>4, <2>1, ConsumeTells
<1>8. p \in Nat
  BY StreamIs DEF FlagTells
<1>9. /\ wire' # <<>> /\ Answered(n)' /\ Ahead(n, m)'
      /\ Ends(m)' = end /\ wire' = wire /\ buffer_size' = size /\ Kept(m)' = Kept(m)
      /\ header_length' = header_length /\ shortest_msg_size' = shortest_msg_size
  BY <1>1, <1>4, PlaceKept, FixedKeeps DEF Fixed
<1>10. Found(m)'
  BY <1>1, <1>4, <1>9 DEF Found
<1> HIDE DEF len, size, p, x, end
<1>11. size \in 0..255
  <2> DEFINE s == shortest_msg_size
  <2>1. len \in s..255 /\ s \in Nat
    BY <1>4, <1>6, Numbers
  <2> HIDE DEF s
  <2>2. len <= 255
    BY <2>1
  <2> QED
    BY <1>4, <1>6, <2>2
<1>12. x \in Int /\ x - d \in Int /\ x - d >= 0
  <2>1. x \in Int
    BY DEF x
  <2> QED
    BY <1>5, <2>1
<1>13. CASE excess_bytes' > 0
  <2>1. pc' = "discard" /\ msg_length' = msg_length
    BY <1>1, <1>13
  <2>2. read_index' + excess_bytes' + (buffer_size' - bytes_read') = Ends(m)'
    <3>1. (p + d) + (x - d) + (size - bytes_read) = p + x + (size - bytes_read)
      BY <1>5, <1>6, <1>8, <1>12
    <3> QED
      BY <1>1, <1>4, <1>7, <1>9, <3>1
  <2>3. Framing(n, m)'
    BY <1>4, <1>9, <1>10, <1>13, <2>1, <2>2 DEF Framing, len
  <2>4. pc' \in InMessage
    BY <2>1 DEF InMessage
  <2> QED
    BY <1>1, <1>7, <1>12, <2>1, <2>3, <2>4, InPlace
<1>14. CASE ~(excess_bytes' > 0)
  <2>1. pc' = "rest" /\ msg_length' = size
    BY <1>1, <1>14 DEF size
  <2>2. x - d = 0
    BY <1>1, <1>12, <1>14
  <2>3. read_index' + (msg_length' - bytes_read') = Ends(m)'
    <3>1. (p + d) + (size - bytes_read) = p + x + (size - bytes_read)
      BY <1>5, <1>6, <1>8, <1>12, <2>2
    <3> QED
      BY <1>1, <1>4, <1>7, <1>9, <2>1, <3>1
  <2>4. msg_length' = Kept(m)'
    BY <1>4, <1>6, <1>9, <2>1
  <2>5. ~(wire'[m].length <= buffer_size')
    BY <1>4, <1>6, <1>9 DEF len
  <2>6. Framing(n, m)'
    BY <1>9, <1>10, <2>1, <2>3, <2>4, <2>5 DEF Framing
  <2>7. pc' \in InMessage
    BY <2>1 DEF InMessage
  <2> QED
    BY <1>1, <1>7, <1>11, <1>12, <2>1, <2>6, <2>7, InPlace
<1> QED
  BY <1>13, <1>14

LEMMA ReadRestStep ==
    ASSUME Ground, ~NotRunning, FlagTells, InStream, Fixed, ReadRest
    PROVE  InStream' /\ FlagTells'
<1> DEFINE more == msg_length - bytes_read
           p == read_index
           r == bytes_read
           l == msg_length
<1>1. /\ pc = "rest" /\ Consume(more) /\ pc' = "return"
      /\ buffer_span' = Received(buffer_span, r, more)
      /\ UNCHANGED <<bytes_read, msg_length, returned>>
  BY DEF ReadRest
<1>2. PICK n \in 0..Len(wire) : \E m \in 1..(Len(wire) + 1) : Framing(n, m)
  BY <1>1 DEF InStream, InMessage
<1>3. PICK m \in 1..(Len(wire) + 1) : Framing(n, m)
  BY <1>2
<1> DEFINE len == wire[m].length
           size == buffer_size
           e == Ends(m - 1)
           end == Ends(m)
<1>4. /\ wire # <<>> /\ Answered(n) /\ Ahead(n, m) /\ Found(m)
      /\ l = Kept(m) /\ p + more = end
      /\ len <= size => Holds(m, r)
  BY <1>1, <1>3 DEF Framing
<1>5. /\ len \in Nat /\ size \in Nat
      /\ len <= size => Kept(m) = len
      /\ Kept(m) \in Nat /\ r <= Kept(m) /\ Kept(m) <= size
      /\ r \in Nat /\ e \in Nat /\ end = e + len
  BY <1>4, MessagePlace
<1>6. more \in Int /\ more >= 0
  BY <1>4, <1>5
<1>7. FlagTells' /\ read_index' = p + more
  <2> HIDE DEF more
  <2> QED
    BY <1>1, <1>4, <1>6, ConsumeTells
<1>8. p \in Nat
  BY StreamIs DEF FlagTells
<1>9. /\ wire' # <<>> /\ Answered(n)' /\ Ahead(n, m)'
      /\ Ends(m)' = end /\ Ends(m - 1)' = e /\ wire' = wire /\ buffer_size' = size
      /\ Kept(m)' = Kept(m) /\ mem_span' = mem_span
      /\ header_length' = header_length /\ shortest_msg_size' = shortest_msg_size
  BY <1>1, <1>4, PlaceKept, FixedKeeps DEF Fixed
<1>10. Found(m)'
  BY <1>1, <1>4, <1>9 DEF Found
<1>11. len <= size => Holds(m, msg_length)'
  <2> SUFFICES ASSUME len <= size, NEW k \in 0..(l - 1)
               PROVE  buffer_span'[k] = mem_span[e + k + 1]
    BY <1>1, <1>9 DEF Holds
  <2>1. l = len /\ Holds(m, r)
    BY <1>4, <1>5
  <2>2. DOMAIN buffer_span = 0..(size - 1)
    BY DEF Ground
  <2> HIDE DEF e, end, len, size, p, r, l
  <2>3. k \in 0..(size - 1) /\ r + more = l /\ r + (l - r) = l
    BY <1>4, <1>5, <2>1 DEF r, l
  <2>k. k \in DOMAIN buffer_span
    BY <2>2, <2>3
  <2>e. p + (len - r) = e + len
    BY <1>4, <1>5, <2>1 DEF r, l
  <2> HIDE DEF more
  <2>4. CASE k < r
    <3>1. k \in 0..(r - 1) /\ k \notin r..(r + more - 1)
      BY <1>5, <1>6, <2>3, <2>4
    <3>2. Received(buffer_span, r, more)[k] = buffer_span[k]
      BY <2>k, <3>1, ReceivedIs
    <3>3. buffer_span[k] = mem_span[e + k + 1]
      BY <2>1, <3>1 DEF Holds, e, r
    <3> QED
      BY <1>1, <3>2, <3>3
  <2>5. CASE k >= r
    <3>1. k \in r..(r + more - 1)
      BY <1>4, <1>5, <1>6, <2>1, <2>3, <2>5
    <3>2. Received(buffer_span, r, more)[k] = mem_span[read_index + k - r + 1]
      BY <2>k, <3>1, ReceivedIs
    <3>3. p + k - r + 1 = e + k + 1
      BY <1>5, <1>8, <2>e DEF p
    <3> QED
      BY <1>1, <3>2, <3>3 DEF p
  <2> QED
    BY <1>5, <2>4, <2>5 DEF r
<1>12. read_index' = Ends(m)' /\ msg_length' = Kept(m)'
  BY <1>1, <1>4, <1>7, <1>9
<1>13. Framing(n, m)'
  BY <1>1, <1>9, <1>10, <1>11, <1>12 DEF Framing
<1>14. pc' \in InMessage
  BY <1>1 DEF InMessage
<1> QED
  BY <1>7, <1>13, <1>14, InPlace

\* The type of a length, when one has it
LEMMA TypeFound ==
    ASSUME Ground, ~NotRunning, NEW l
    PROVE  /\ l \in MsgLengths => /\ determine_msg_type(l) \in DOMAIN MsgClassPack
                                  /\ determine_msg_type(l) # 0
                                  /\ MsgClassPack[determine_msg_type(l)].msg_length = l
           /\ l \notin MsgLengths => determine_msg_type(l) = 0
<1> DEFINE pack == MsgClassPack
           with == {i \in DOMAIN pack : pack[i].msg_length = l}
           T == {0} \cup with
<1>1. determine_msg_type(l) = Max(T)
  BY DEF determine_msg_type
<1>2. DOMAIN pack = 1..Len(pack) /\ Len(pack) \in Nat /\ Consistent
  BY Compiled
<1>3. ASSUME l \in MsgLengths
      PROVE  Max(T) \in DOMAIN pack /\ Max(T) # 0 /\ pack[Max(T)].msg_length = l
  <2>1. PICK i \in DOMAIN pack : pack[i].msg_length = l
    BY <1>3 DEF MsgLengths
  <2>2. \A j \in with : j = i
    BY <1>2, <2>1 DEF Consistent
  <2>3. i \in Nat /\ i # 0 /\ T = {0, i}
    BY <1>2, <2>1, <2>2
  <2> HIDE DEF T
  <2>4. T \in SUBSET Nat /\ i \in T /\ \A x \in T : x <= i
    BY <2>3
  <2>5. Max(T) = i
    BY <2>4, IsMax
  <2> QED
    BY <2>1, <2>3, <2>5
<1>4. ASSUME l \notin MsgLengths
      PROVE  Max(T) = 0
  <2>1. T = {0}
    BY <1>4 DEF MsgLengths
  <2> HIDE DEF T
  <2>2. T \in SUBSET Nat /\ 0 \in T /\ \A x \in T : x <= 0
    BY <2>1
  <2> QED
    BY <2>2, IsMax
<1> QED
  BY <1>1, <1>3, <1>4

LEMMA LengthOfType ==
    ASSUME Ground, ~NotRunning, NEW type \in DOMAIN MsgClassPack
    PROVE  /\ MsgClassPack[type].payload \subseteq 0..(MsgClassPack[type].msg_length - 1)
           /\ MsgClassPack[type].msg_length <= buffer_size
BY Compiled, SizesFound DEF GoodPack

\* What is returned is an answer to the message whose bytes the buffer holds.
LEMMA AnswerRight ==
    ASSUME Ground, ~NotRunning, wire # <<>>,
           NEW n \in 0..Len(wire), NEW m \in 1..(Len(wire) + 1), Ahead(n, m), Found(m),
           msg_length = Kept(m),
           wire[m].length <= buffer_size => Holds(m, msg_length)
    PROVE  Answers(m, Result)
<1> DEFINE item == wire[m]
           len == item.length
           size == buffer_size
           type == determine_msg_type(msg_length)
<1>1. /\ m \in 1..Len(wire) /\ item.header /\ len \in Nat /\ size \in Nat
      /\ len <= size => Kept(m) = len
      /\ len > size => Kept(m) = size
  <2>1. /\ m \in 1..Len(wire) /\ item.header /\ len \in Nat /\ size \in Nat
    BY MessagePlace
  <2>2. /\ len <= size => Kept(m) = len
        /\ len > size => Kept(m) = size
    BY MessagePlace
  <2> QED
    BY <2>1, <2>2
<1>2. \A x \in MsgLengths : x <= size
  BY SizesFound DEF MsgLengths
<1>3. CASE len <= size
  <2>1. msg_length = len /\ Holds(m, msg_length)
    BY <1>1, <1>3
  <2>2. validate_checksum <=> item.checksum
    BY <1>1, <2>1, ChecksumTells
  <2>3. Result = IF type # 0 /\ validate_checksum
                 THEN {construct_variant(type, buffer_span)} ELSE {}
    BY DEF Result
  <2>4. CASE len \in MsgLengths /\ item.checksum
    <3> DEFINE whole == [k \in 0..(len - 1) |-> Bytes(wire, m)[k + 1]]
               payload == MsgClassPack[type].payload
    <3>1. /\ type \in DOMAIN MsgClassPack /\ type # 0
          /\ MsgClassPack[type].msg_length = len
      BY <2>1, <2>4, TypeFound
    <3>2. Result = {construct_variant(type, buffer_span)}
      BY <2>2, <2>3, <2>4, <3>1
    <3>3. payload \subseteq 0..(len - 1)
      BY <3>1, LengthOfType
    <3>4. ASSUME NEW k \in 0..(len - 1) PROVE buffer_span[k] = whole[k]
      <4>1. buffer_span[k] = mem_span[Ends(m - 1) + k + 1]
        BY <2>1 DEF Holds
      <4>2. mem_span[Ends(m - 1) + k + 1]
              = [item |-> m, at |-> k, value |-> ItemByte(item, k)]
        BY <1>1, StreamIs
      <4>3. k + 1 \in 1..len /\ (k + 1) - 1 = k
        BY <1>1
      <4>4. Bytes(wire, m)[k + 1] = [item |-> m, at |-> k, value |-> ItemByte(item, k)]
        BY <4>3 DEF Bytes
      <4> QED
        BY <4>1, <4>2, <4>4
    <3> HIDE DEF whole, type
    <3>5. Constructed(MsgClassPack[type], buffer_span)
            = Constructed(MsgClassPack[type], whole)
      BY <3>3, <3>4 DEF Constructed
    <3>6. construct_variant(type, buffer_span) = construct_variant(type, whole)
      BY <3>5 DEF construct_variant
    <3>7. Result = {construct_variant(type, whole)}
      BY <3>2, <3>6
    <3> QED
      BY <2>4, <3>1, <3>7 DEF Answers, whole
  <2>5. CASE ~(len \in MsgLengths /\ item.checksum)
    <3>1. Result = {}
      <4>1. CASE len \notin MsgLengths
        <5>1. type = 0
          BY <2>1, <4>1, TypeFound
        <5> QED
          BY <2>3, <5>1
      <4>2. CASE len \in MsgLengths
        BY <2>2, <2>3, <2>5, <4>2
      <4> QED
        BY <4>1, <4>2
    <3> QED
      BY <2>5, <3>1 DEF Answers
  <2> QED
    BY <2>4, <2>5
<1>4. CASE ~(len <= size)
  <2>1. len > size /\ len \notin MsgLengths
    BY <1>1, <1>2, <1>4
  <2>2. msg_length = size
    BY <1>1, <2>1
  <2>3. ASSUME NEW result \in Result
        PROVE  MsgClassPack[result.type].msg_length = size
    <3>1. type # 0 /\ result = construct_variant(type, buffer_span)
      BY <2>3 DEF Result
    <3>2. result.type = type
      BY <3>1 DEF construct_variant
    <3>3. MsgClassPack[type].msg_length = msg_length
      BY <3>1, TypeFound
    <3> QED
      BY <2>2, <3>2, <3>3
  <2> QED
    BY <2>1, <2>3 DEF Answers
<1> QED
  BY <1>3, <1>4

\* A sequence of whatever it consists of
IsSequence(s) == s \in Seq(Range(s))

LEMMA AppendIs ==
    ASSUME NEW s, IsSequence(s), NEW x
    PROVE  /\ IsSequence(Append(s, x))
           /\ Len(s) \in Nat /\ DOMAIN s = 1..Len(s)
           /\ Len(Append(s, x)) = Len(s) + 1 /\ DOMAIN Append(s, x) = 1..(Len(s) + 1)
           /\ \A j \in 1..Len(s) : Append(s, x)[j] = s[j]
           /\ Append(s, x)[Len(s) + 1] = x
<1> DEFINE T == Range(s) \cup {x}
           t == Append(s, x)
           n == Len(s)
<1>1. s \in Seq(Range(s))
  BY DEF IsSequence
<1>2. n \in Nat /\ DOMAIN s = 1..n /\ \A j \in 1..n : s[j] \in Range(s)
  <2> DEFINE R == Range(s)
  <2> HIDE DEF R
  <2>1. s \in Seq(R)
    BY <1>1 DEF R
  <2>2. \A j \in 1..n : s[j] \in R
    BY <2>1, Elements
  <2> QED
    BY <2>1, <2>2 DEF R
<1>3. s = [j \in 1..n |-> s[j]]
  BY <1>1
<1>4. s \in Seq(T)
  <2>1. \A j \in 1..n : s[j] \in T
    BY <1>2
  <2> HIDE DEF T, n
  <2> QED
    BY <1>2, <1>3, <2>1, ManyElements
<1>5. /\ t \in Seq(T) /\ Len(t) = n + 1 /\ DOMAIN t = 1..(n + 1)
      /\ \A j \in 1..n : t[j] = s[j]
      /\ t[n + 1] = x
  <2>1. x \in T
    OBVIOUS
  <2> HIDE DEF T
  <2> QED
    BY <1>4, <2>1
<1>6. \A j \in 1..(n + 1) : t[j] \in Range(t)
  <2> HIDE DEF t
  <2> QED
    BY <1>5 DEF Range
<1>7. t = [j \in 1..(n + 1) |-> t[j]]
  <2> HIDE DEF t, n
  <2> QED
    BY <1>5
<1>8. t \in Seq(Range(t))
  <2> DEFINE R == Range(t)
             k == n + 1
  <2>1. k \in Nat /\ t = [j \in 1..k |-> t[j]] /\ \A j \in 1..k : t[j] \in R
    BY <1>2, <1>6, <1>7
  <2> HIDE DEF R, k, t
  <2>2. t \in Seq(R)
    BY <2>1, ManyElements
  <2> QED
    BY <2>2 DEF R
<1> QED
  BY <1>2, <1>5, <1>8 DEF IsSequence

LEMMA ReturnStep ==
    ASSUME Ground, ~NotRunning, FlagTells, InStream, Fixed, IsSequence(returned), Return
    PROVE  InStream' /\ FlagTells' /\ IsSequence(returned)'
<1>1. /\ pc = "return" /\ pc' = "idle" /\ returned' = Append(returned, Result)
      /\ UNCHANGED <<read_index, end_of_buffer>>
  BY DEF Return, socket
<1>2. PICK n \in 0..Len(wire) : \E m \in 1..(Len(wire) + 1) : Framing(n, m)
  BY <1>1 DEF InStream, InMessage
<1>3. PICK m \in 1..(Len(wire) + 1) : Framing(n, m)
  BY <1>2
<1>4. /\ wire # <<>> /\ Answered(n) /\ Ahead(n, m) /\ Found(m)
      /\ msg_length = Kept(m) /\ read_index = Ends(m)
      /\ wire[m].length <= buffer_size => Holds(m, msg_length)
  BY <1>1, <1>3 DEF Framing
<1>5. m \in 0..Len(wire) /\ m <= Len(wire)
  BY <1>4, MessagePlace DEF Found
<1>6. Answers(m, Result)
  <2>1. msg_length = Kept(m) /\ (wire[m].length <= buffer_size => Holds(m, msg_length))
    BY <1>4
  <2> QED
    BY <1>4, <2>1, AnswerRight
<1>7. Messages(m) = Append(Messages(n), m)
  BY <1>4, <1>5, MessagesSkip
<1>8. /\ Messages(n) \in Seq(1..Len(wire)) /\ m \in 1..Len(wire)
  BY <1>4, MessagesAre, MessagePlace
<1> DEFINE l == Len(returned)
           M == Messages(n)
           R == Append(returned, Result)
<1>9. /\ IsSequence(R) /\ l \in Nat /\ DOMAIN returned = 1..l
      /\ Len(R) = l + 1 /\ DOMAIN R = 1..(l + 1)
      /\ \A j \in 1..l : R[j] = returned[j]
      /\ R[l + 1] = Result
  BY AppendIs
<1>10. /\ l = Len(M) /\ \A j \in 1..l : Answers(M[j], returned[j])
  BY <1>4, <1>9 DEF Answered
<1>11. /\ Len(Messages(m)) = l + 1
       /\ \A j \in 1..l : Messages(m)[j] = M[j]
       /\ Messages(m)[l + 1] = m
  <2> HIDE DEF M, l, R
  <2>1. M \in Seq(1..Len(wire)) /\ Messages(m) = Append(M, m)
    BY <1>7, <1>8 DEF M
  <2> QED
    BY <1>8, <1>10, <2>1
<1> HIDE DEF l, M, R
<1>12. \A j \in 1..(l + 1) : Answers(Messages(m)[j], R[j])
  <2> SUFFICES ASSUME NEW j \in 1..(l + 1) PROVE Answers(Messages(m)[j], R[j])
    OBVIOUS
  <2>1. CASE j \in 1..l
    BY <1>9, <1>10, <1>11, <2>1
  <2>2. CASE j = l + 1
    BY <1>6, <1>9, <1>11, <2>2
  <2> QED
    BY <1>9, <2>1, <2>2
<1>13. Answered(m)'
  <2>1. returned' = R /\ Len(wire)' = Len(wire) /\ Messages(m)' = Messages(m)
        /\ \A i, answer : Answers(i, answer)' <=> Answers(i, answer)
    BY <1>1, FixedKeeps DEF R
  <2>2. Len(returned') = Len(Messages(m)')
    BY <1>9, <1>11, <2>1
  <2>3. ASSUME NEW j \in DOMAIN returned'
        PROVE  Answers(Messages(m)[j], returned[j])'
    <3>1. PICK i : i = Messages(m)'[j]
      OBVIOUS
    <3>2. PICK a : a = returned'[j]
      OBVIOUS
    <3>3. Answers(i, a)
      BY <1>9, <1>12, <2>1, <3>1, <3>2
    <3>4. Answers(i, a)'
      BY <2>1, <3>3
    <3> QED
      BY <3>1, <3>2, <3>4 DEF Answers
  <2> QED
    BY <1>5, <2>1, <2>2, <2>3 DEF Answered
<1>14. read_index' = Ends(m)' /\ Len(wire)' = Len(wire)
  BY <1>1, <1>4, FixedKeeps
<1>15. InStream'
  BY <1>1, <1>5, <1>13, <1>14 DEF InStream, InMessage
<1>16. IsSequence(returned)'
  BY <1>1, <1>9 DEF R
<1> QED
  BY <1>1, <1>15, <1>16, FlagKept

\* The buffer has bytes of the stream, or none yet.
Readable == Range(mem_span) \cup {Unwritten}

LEMMA ReceivedRange ==
    ASSUME Ground, ~NotRunning, FlagTells, NEW b, DOMAIN b = 0..(buffer_size - 1),
           Range(b) \subseteq Readable, NEW dest \in Int, NEW len \in Int, Fits(len)
    PROVE  /\ Range(Received(b, dest, len)) \subseteq Readable
           /\ DOMAIN Received(b, dest, len) = 0..(buffer_size - 1)
<1> DEFINE c == Received(b, dest, len)
           p == read_index
<1>1. DOMAIN c = DOMAIN b
  BY DEF Received
<1>2. /\ mem_size \in Nat /\ DOMAIN mem_span = 1..mem_size
  BY StreamIs DEF mem_size
<1>3. p \in Nat /\ p + len <= mem_size
  BY <1>2 DEF FlagTells, Fits
<1>4. \A j \in 1..mem_size : mem_span[j] \in Readable
  BY <1>2 DEF Readable, Range
<1>5. \A k \in DOMAIN b : b[k] \in Readable
  BY DEF Range
<1>6. ASSUME NEW k \in DOMAIN b PROVE c[k] \in Readable
  <2>1. k \in Int
    <3> DEFINE size == buffer_size
    <3>1. k \in 0..(size - 1) /\ size \in Nat
      BY SizesFound
    <3> HIDE DEF size
    <3> QED
      BY <3>1
  <2>2. CASE k \in dest..(dest + len - 1)
    <3>1. c[k] = mem_span[p + k - dest + 1]
      BY <2>2 DEF Received
    <3>2. p + k - dest + 1 \in 1..mem_size
      BY <1>2, <1>3, <2>1, <2>2
    <3> QED
      BY <1>4, <3>1, <3>2
  <2>3. CASE k \notin dest..(dest + len - 1)
    <3>1. c[k] = b[k]
      BY <2>3 DEF Received
    <3> QED
      BY <1>5, <3>1
  <2> QED
    BY <2>2, <2>3
<1> HIDE DEF c
<1>7. Range(c) \subseteq Readable
  BY <1>1, <1>6 DEF Range
<1> QED
  BY <1>1, <1>7 DEF c

LEMMA ShiftedRange ==
    ASSUME Ground, ~NotRunning, NEW b, DOMAIN b = 0..(buffer_size - 1),
           Range(b) \subseteq Readable, NEW n \in Int
    PROVE  Range(ShiftLeft(b, n)) \subseteq Readable
<1> DEFINE s == shortest_msg_size
           size == buffer_size
           c == ShiftLeft(b, n)
<1>1. s \in Nat /\ size \in Nat /\ s <= size
  <2>1. 1 \in DOMAIN MsgClassPack
    BY Compiled
  <2>2. /\ MsgClassPack[1].msg_length <= size /\ s <= MsgClassPack[1].msg_length
        /\ size \in Nat /\ s \in Nat
    BY <2>1, SizesFound
  <2>3. MsgClassPack[1].msg_length \in MsgLengths
    BY <2>1 DEF MsgLengths
  <2>4. MsgClassPack[1].msg_length \in Nat
    BY <2>3, SizesFound
  <2> QED
    BY <2>2, <2>4
<1>2. \A k \in DOMAIN b : c[k] = IF n >= 0 /\ k + n < s THEN b[k + n] ELSE b[k]
  BY DEF ShiftLeft
<1>3. DOMAIN c = DOMAIN b
  BY DEF ShiftLeft
<1>4. \A k \in DOMAIN b : b[k] \in Readable
  BY DEF Range
<1> HIDE DEF s, size, c
<1>5. \A k \in 0..(size - 1) : n >= 0 /\ k + n < s => k + n \in 0..(size - 1)
  BY <1>1
<1>6. DOMAIN b = 0..(size - 1)
  BY DEF size
<1>7. \A k \in DOMAIN b : c[k] \in Readable
  BY <1>2, <1>4, <1>5, <1>6
<1> QED
  BY <1>3, <1>7 DEF Range, c

BufferTyped == Range(buffer_span) \subseteq Readable

LEMMA BufferStep ==
    ASSUME Ground, ~NotRunning, FlagTells, InStream, BufferTyped, excess_bytes \in Int,
           msg_length \in 0..255, bytes_read \in 0..shortest_msg_size, Fixed, Run
    PROVE  BufferTyped'
<1> DEFINE s == shortest_msg_size
<1>1. Readable' = Readable
  BY DEF Fixed, Readable, Unwritten
<1>2. /\ DOMAIN buffer_span = 0..(buffer_size - 1) /\ Range(buffer_span) \subseteq Readable
  BY DEF Ground, BufferTyped
<1>3. /\ header_length \in Int /\ delimit_offset \in Int /\ s \in Nat
      /\ buffer_size \in Int
  BY SizesFound
<1>4. bytes_read \in Int /\ msg_length \in Int
  <2>1. bytes_read \in 0..s /\ s \in Nat
    BY <1>3
  <2> HIDE DEF s
  <2> QED
    BY <2>1
<1>5. bytes_to_keep \in Int /\ scan_length \in Int
  BY <1>3 DEF bytes_to_keep, scan_length
<1>6. CASE ReadHeader
  <2> DEFINE b == Received(buffer_span, 0, header_length)
  <2>1. buffer_span' = b \/ buffer_span' = ShiftLeft(b, 1)
    BY <1>6 DEF ReadHeader
  <2>2. Fits(header_length)
    BY <1>6 DEF ReadHeader, Consume
  <2>3. Range(b) \subseteq Readable /\ DOMAIN b = 0..(buffer_size - 1)
    BY <1>2, <1>3, <2>2, ReceivedRange
  <2>4. Range(ShiftLeft(b, 1)) \subseteq Readable
    <3> HIDE DEF b
    <3> QED
      BY <2>3, ShiftedRange
  <2> QED
    BY <1>1, <2>1, <2>3, <2>4 DEF BufferTyped
<1>7. CASE Scan
  <2>1. Fits(scan_length) /\ buffer_span' = Received(buffer_span, bytes_to_keep, scan_length)
    BY <1>7 DEF Scan, Consume
  <2>2. Range(Received(buffer_span, bytes_to_keep, scan_length)) \subseteq Readable
    BY <1>2, <1>5, <2>1, ReceivedRange
  <2> QED
    BY <1>1, <2>1, <2>2 DEF BufferTyped
<1>8. CASE NoDelimiter
  <2>1. Range(ShiftLeft(buffer_span, scan_length)) \subseteq Readable
    BY <1>2, <1>5, ShiftedRange
  <2> QED
    BY <1>1, <1>8, <2>1 DEF BufferTyped, NoDelimiter
<1>9. CASE DelimiterFound
  <2> DEFINE n == Min(Delimiters) - delimit_offset
  <2>1. buffer_span' = ShiftLeft(buffer_span, n) /\ Delimiters # {}
    BY <1>9 DEF DelimiterFound
  <2>2. n \in Int
    <3>1. Delimiters \in SUBSET (0..(s - 2)) /\ 0..(s - 2) \subseteq Nat
      BY <1>3 DEF Delimiters
    <3>2. Min(Delimiters) \in Delimiters
      BY <2>1, <3>1, LeastIsMin
    <3>3. Min(Delimiters) \in Nat
      BY <3>1, <3>2
    <3> QED
      BY <1>3, <3>3
  <2> HIDE DEF n
  <2>3. Range(ShiftLeft(buffer_span, n)) \subseteq Readable
    BY <1>2, <2>2, ShiftedRange
  <2> QED
    BY <1>1, <2>1, <2>3 DEF BufferTyped
<1>10. CASE Discard
  <2> DEFINE d == DiscardLength
  <2>1. Fits(d) /\ buffer_span' = Received(buffer_span, header_length, d)
    BY <1>10 DEF Discard, Consume
  <2>2. d \in Int
    <3>1. wire # <<>> /\ excess_bytes > 0
      <4>1. pc = "discard"
        BY <1>10 DEF Discard
      <4>2. PICK n \in 0..Len(wire) : \E m \in 1..(Len(wire) + 1) : Framing(n, m)
        BY <4>1 DEF InStream, InMessage
      <4>3. PICK m \in 1..(Len(wire) + 1) : Framing(n, m)
        BY <4>2
      <4> QED
        BY <4>1, <4>3 DEF Framing
    <3> QED
      BY <3>1, TurnReads
  <2> HIDE DEF d
  <2>3. Range(Received(buffer_span, header_length, d)) \subseteq Readable
    BY <1>2, <1>3, <2>1, <2>2, ReceivedRange
  <2> QED
    BY <1>1, <2>1, <2>3 DEF BufferTyped
<1>11. CASE ReadRest
  <2> DEFINE d == msg_length - bytes_read
  <2>1. Fits(d) /\ buffer_span' = Received(buffer_span, bytes_read, d)
    BY <1>11 DEF ReadRest, Consume
  <2>2. d \in Int
    BY <1>4
  <2> HIDE DEF d
  <2>3. Range(Received(buffer_span, bytes_read, d)) \subseteq Readable
    BY <1>2, <1>4, <2>1, <2>2, ReceivedRange
  <2> QED
    BY <1>1, <2>1, <2>3 DEF BufferTyped
<1>12. CASE Call \/ GetLength \/ Return \/ Terminate
  <2>1. buffer_span' = buffer_span
    BY <1>12 DEF Call, GetLength, Return, Terminate
  <2> QED
    BY <1>1, <1>2, <2>1 DEF BufferTyped
<1> QED
  BY <1>6, <1>7, <1>8, <1>9, <1>10, <1>11, <1>12 DEF Run

\* The locals keep their types, and the search gives back no more than was read.
Registers ==
    /\ IsSequence(returned)
    /\ msg_length \in 0..255
    /\ excess_bytes \in Int
    /\ BufferTyped
    /\ ~NotRunning => bytes_read \in 0..shortest_msg_size

SizesTyped == ~NotRunning => mem_size \in Nat /\ shortest_msg_size \in Nat

LEMMA SizesAlways == Spec => []SizesTyped
<1>1. Ground => SizesTyped
  BY SizesFound, StreamIs DEF SizesTyped
<1> QED
  BY <1>1, GroundAlways, PTL

\* The inductive invariant of the handler, on top of Ground
SocketInv == InStream /\ FlagTells /\ Registers

LEMMA EmptySequence ==
    /\ IsSequence(<<>>) /\ Range(<<>>) \subseteq Readable /\ Len(<<>>) = 0
    /\ DOMAIN <<>> = {}
BY DEF IsSequence, Range

LEMMA SocketInit ==
    ASSUME Init
    PROVE  SocketInv
<1>1. /\ pc = "template" /\ mem_span = <<>> /\ buffer_span = <<>> /\ read_index = 0
      /\ end_of_buffer = FALSE /\ bytes_read = 0 /\ msg_length = 0 /\ excess_bytes = 0
      /\ returned = <<>>
  BY DEF Init
<1>2. InStream
  BY <1>1 DEF InStream, InMessage
<1>3. mem_size = 0
  BY <1>1 DEF mem_size
<1>4. FlagTells
  <2>1. read_index \in 0..mem_size /\ ~(read_index > 0)
    BY <1>1, <1>3
  <2>2. end_of_buffer \in BOOLEAN /\ end_of_buffer # TRUE
    BY <1>1
  <2> QED
    BY <2>1, <2>2 DEF FlagTells
<1>5. Registers
  BY <1>1, EmptySequence DEF Registers, BufferTyped, NotRunning
<1> QED
  BY <1>2, <1>4, <1>5 DEF SocketInv

LEMMA InstantiateStep ==
    ASSUME Ground, SocketInv, Ground', SizesTyped', Instantiate
    PROVE  SocketInv'
<1>1. /\ pc = "template"
      /\ UNCHANGED <<MsgClassPack, wire, read_index, end_of_buffer, bytes_read,
                     msg_length, excess_bytes, returned>>
      /\ \/ pc' = "idle" /\ buffer_span' = [k \in 0..(buffer_size' - 1) |-> Unwritten]
         \/ pc' = "refused" /\ UNCHANGED <<layout, mem_span, buffer_span>>
  BY DEF Instantiate
<1>2. /\ NotRunning /\ read_index = 0 /\ end_of_buffer = FALSE /\ returned = <<>>
      /\ bytes_read = 0 /\ msg_length = 0 /\ excess_bytes = 0
  BY <1>1 DEF NotRunning, Ground
<1>3. CASE pc' = "idle"
  <2>1. mem_size' \in Nat /\ shortest_msg_size' \in Nat /\ ~NotRunning'
    BY <1>3 DEF SizesTyped, NotRunning
  <2>2. 0 \in 0..Len(wire)' /\ Ends(0)' = Ends(0) /\ Messages(0)' = Messages(0)
    <3>1. wire' = wire /\ Len(wire) \in Nat
      BY <1>1, WireTyped
    <3> QED
      BY <3>1 DEF Ends, Messages
  <2>3. Ends(0)' = 0 /\ Messages(0)' = <<>>
    BY <2>2, EndsAre, MessagesAre
  <2>4. returned' = <<>> /\ read_index' = 0 /\ DOMAIN returned' = {} /\ Len(returned') = 0
    BY <1>1, <1>2, EmptySequence
  <2>5. Answered(0)'
    BY <2>2, <2>3, <2>4, EmptySequence DEF Answered
  <2>6. InStream'
    BY <1>3, <2>2, <2>3, <2>4, <2>5 DEF InStream, InMessage
  <2>7. FlagTells'
    <3>1. read_index' \in 0..mem_size' /\ ~(read_index' > 0)
      BY <2>1, <2>4
    <3>2. end_of_buffer' \in BOOLEAN /\ end_of_buffer' # TRUE
      BY <1>1, <1>2
    <3> QED
      BY <3>1, <3>2 DEF FlagTells
  <2>8. BufferTyped'
    <3>1. buffer_span' = [k \in 0..(buffer_size' - 1) |-> Unwritten]
      BY <1>1, <1>3
    <3>2. Range(buffer_span') \subseteq {Unwritten}
      BY <3>1 DEF Range
    <3>3. Unwritten' = Unwritten
      BY DEF Unwritten
    <3> QED
      BY <3>2, <3>3 DEF BufferTyped, Readable
  <2>9. Registers'
    <3>1. IsSequence(returned)' /\ msg_length' \in 0..255 /\ excess_bytes' \in Int
      BY <1>1, <1>2, EmptySequence DEF IsSequence
    <3>2. bytes_read' \in 0..shortest_msg_size'
      BY <1>1, <1>2, <2>1
    <3> QED
      BY <2>8, <3>1, <3>2 DEF Registers
  <2> QED
    BY <2>6, <2>7, <2>9 DEF SocketInv
<1>4. CASE pc' = "refused"
  <2>1. mem_span' = mem_span /\ buffer_span' = buffer_span
    BY <1>1, <1>4
  <2>2. InStream'
    BY <1>4 DEF InStream, InMessage
  <2>3. FlagTells'
    BY <1>1, <2>1 DEF SocketInv, FlagTells, mem_size
  <2>4. Registers'
    BY <1>1, <1>4, <2>1 DEF SocketInv, Registers, IsSequence, BufferTyped, Readable,
                             Unwritten, NotRunning
  <2> QED
    BY <2>2, <2>3, <2>4 DEF SocketInv
<1> QED
  BY <1>1, <1>3, <1>4

\* The bytes read, once a header was found
LEMMA ReadOfMessage ==
    ASSUME InStream', pc' \in {"length", "discard", "rest", "return"}
    PROVE  bytes_read' \in header_length'..shortest_msg_size'
<1>1. pc' \in InMessage
  BY DEF InMessage
<1>2. PICK n \in 0..Len(wire') : \E m \in 1..(Len(wire') + 1) : Framing(n, m)'
  BY <1>1 DEF InStream
<1>3. PICK m \in 1..(Len(wire') + 1) : Framing(n, m)'
  BY <1>2
<1>4. Found(m)'
  BY <1>3 DEF Framing
<1> QED
  BY <1>4 DEF Found

LEMMA RunStep ==
    ASSUME Ground, SocketInv, Run
    PROVE  SocketInv'
<1>1. ~NotRunning /\ Fixed /\ ~NotRunning'
  BY RunKeeps DEF Fixed
<1>2. /\ InStream /\ FlagTells /\ IsSequence(returned)
      /\ msg_length \in 0..255 /\ excess_bytes \in Int
      /\ BufferTyped /\ bytes_read \in 0..shortest_msg_size
  BY <1>1 DEF SocketInv, Registers
<1>3. BufferTyped'
  BY <1>1, <1>2, BufferStep
<1>4. /\ InStream' /\ FlagTells' /\ IsSequence(returned)'
      /\ msg_length' \in 0..255 /\ excess_bytes' \in Int
  <2>1. CASE Call
    <3>1. UNCHANGED <<msg_length, excess_bytes, returned>>
      BY <2>1 DEF Call
    <3>2. InStream' /\ FlagTells'
      BY <1>1, <1>2, <2>1, CallStep
    <3> QED
      BY <1>2, <3>1, <3>2 DEF IsSequence
  <2>2. CASE ReadHeader
    <3>1. UNCHANGED <<msg_length, excess_bytes, returned>>
      BY <2>2 DEF ReadHeader
    <3>2. InStream' /\ FlagTells'
      BY <1>1, <1>2, <2>2, ReadHeaderStep
    <3> QED
      BY <1>2, <3>1, <3>2 DEF IsSequence
  <2>3. CASE Scan
    <3>1. UNCHANGED <<msg_length, excess_bytes, returned>>
      BY <2>3 DEF Scan
    <3>2. InStream' /\ FlagTells'
      BY <1>1, <1>2, <2>3, ScanStep
    <3> QED
      BY <1>2, <3>1, <3>2 DEF IsSequence
  <2>4. CASE NoDelimiter
    <3>1. UNCHANGED <<msg_length, excess_bytes, returned>>
      BY <2>4 DEF NoDelimiter
    <3>2. InStream' /\ FlagTells'
      BY <1>1, <1>2, <2>4, NoDelimiterStep
    <3> QED
      BY <1>2, <3>1, <3>2 DEF IsSequence
  <2>5. CASE DelimiterFound
    <3>1. UNCHANGED <<msg_length, excess_bytes, returned>>
      BY <2>5 DEF DelimiterFound
    <3>2. InStream' /\ FlagTells'
      BY <1>1, <1>2, <2>5, DelimiterFoundStep
    <3> QED
      BY <1>2, <3>1, <3>2 DEF IsSequence
  <2>6. CASE GetLength
    <3>1. returned' = returned
      BY <2>6 DEF GetLength
    <3>2. InStream' /\ FlagTells' /\ msg_length' \in 0..255 /\ excess_bytes' \in Int
      BY <1>1, <1>2, <2>6, GetLengthStep
    <3> QED
      BY <1>2, <3>1, <3>2 DEF IsSequence
  <2>7. CASE Discard
    <3>1. returned' = returned
      BY <2>7 DEF Discard
    <3>2. InStream' /\ FlagTells' /\ msg_length' \in 0..255 /\ excess_bytes' \in Int
      BY <1>1, <1>2, <2>7, DiscardStep
    <3> QED
      BY <1>2, <3>1, <3>2 DEF IsSequence
  <2>8. CASE ReadRest
    <3>1. UNCHANGED <<msg_length, excess_bytes, returned>>
      BY <2>8 DEF ReadRest
    <3>2. InStream' /\ FlagTells'
      BY <1>1, <1>2, <2>8, ReadRestStep
    <3> QED
      BY <1>2, <3>1, <3>2 DEF IsSequence
  <2>9. CASE Return
    <3>1. UNCHANGED <<msg_length, excess_bytes>>
      BY <2>9 DEF Return
    <3>2. InStream' /\ FlagTells' /\ IsSequence(returned)'
      BY <1>1, <1>2, <2>9, ReturnStep
    <3> QED
      BY <1>2, <3>1, <3>2
  <2>10. CASE Terminate
    <3>1. UNCHANGED <<msg_length, excess_bytes, returned>>
      BY <2>10 DEF Terminate
    <3>2. InStream' /\ FlagTells'
      BY <1>1, <1>2, <2>10, TerminateStep
    <3> QED
      BY <1>2, <3>1, <3>2 DEF IsSequence
  <2> QED
    BY <2>1, <2>2, <2>3, <2>4, <2>5, <2>6, <2>7, <2>8, <2>9, <2>10 DEF Run
<1>5. bytes_read' \in 0..shortest_msg_size'
  <2>1. /\ shortest_msg_size' = shortest_msg_size /\ header_length' = header_length
        /\ shortest_msg_size \in Nat /\ header_length \in Nat
        /\ header_length + 2 < shortest_msg_size
    BY <1>1, FixedKeeps, SizesFound
  <2> DEFINE s == shortest_msg_size
             h == header_length
  <2>2. \A x \in h..s : x \in 0..s
    <3> HIDE DEF h, s
    <3> QED
      BY <2>1 DEF h, s
  <2>3. h \in 0..s
    <3>1. h \in Nat /\ s \in Nat /\ h + 2 < s
      BY <2>1
    <3> HIDE DEF h, s
    <3> QED
      BY <3>1
  <2>4. CASE DelimiterFound
    <3>1. pc' = "length"
      BY <2>4 DEF DelimiterFound
    <3>2. bytes_read' \in h..s
      BY <1>4, <2>1, <3>1, ReadOfMessage
    <3> QED
      BY <2>1, <2>2, <3>2
  <2>5. CASE ReadHeader
    BY <2>1, <2>3, <2>5 DEF ReadHeader
  <2>6. CASE ~DelimiterFound /\ ~ReadHeader
    <3>1. bytes_read' = bytes_read
      BY <2>6 DEF Run, Call, Scan, NoDelimiter, GetLength, Discard, ReadRest, Return,
                   Terminate
    <3> QED
      BY <1>2, <2>1, <3>1
  <2> QED
    BY <2>4, <2>5, <2>6
<1> QED
  BY <1>3, <1>4, <1>5 DEF SocketInv, Registers

LEMMA StutterStep ==
    ASSUME SocketInv, UNCHANGED vars
    PROVE  SocketInv'
<1>1. Fixed /\ UNCHANGED <<read_index, end_of_buffer, pc, buffer_span, bytes_read,
                           msg_length, excess_bytes, returned>>
  BY DEF vars, socket, Fixed
<1>2. FlagTells'
  BY <1>1, FlagKept DEF SocketInv
<1>3. Registers'
  BY <1>1 DEF Fixed, SocketInv, Registers, IsSequence, BufferTyped, Readable, Unwritten,
              NotRunning, shortest_msg_size
<1>4. \A n, m : Framing(n, m)' <=> Framing(n, m)
  BY <1>1, FixedKeeps, PlaceKept DEF Fixed, Framing, Searching, Found, HoldsLast, Holds
<1>5. InStream'
  BY <1>1, <1>4, FixedKeeps, PlaceKept DEF InStream, SocketInv
<1> QED
  BY <1>2, <1>3, <1>5 DEF SocketInv

\* The handler is where it should be in the stream at every step, and what it
\* holds are the bytes of the message it is at (FIXSocketHandler.hpp:102-200).
THEOREM HandlerInStream == Spec => []SocketInv
<1>1. Init => SocketInv
  BY SocketInit
<1>2. Ground /\ Ground' /\ SizesTyped' /\ SocketInv /\ [Next]_vars => SocketInv'
  BY InstantiateStep, RunStep, StutterStep DEF Next
<1> QED
  BY <1>1, <1>2, GroundAlways, SizesAlways, PTL DEF Spec

\* The values of the variables that a call changes, whatever the stream
THEOREM SocketTyped == Spec => []SocketTypeOK
<1>1. Ground /\ SocketInv => SocketTypeOK
  BY DEF Ground, SocketInv, FlagTells, Registers, BufferTyped, Readable, PcValues,
         NotRunning, SocketTypeOK
<1> QED
  BY <1>1, GroundAlways, HandlerInStream, PTL

\* Between two calls the socket stands at the end of an item and every message
\* before it was answered, whole and in order, however many they are and however
\* many bytes without a delimiter come between them; a message of no type or of
\* a wrong checksum is answered by nothing, unless it is longer than every type
\* and is taken for one of the longest (FIXSocketHandler.hpp:102-145).
THEOREM MessagesFramed == Spec => []Framed
<1>1. SocketInv => Framed
  BY DEF SocketInv, InStream, Answered, Framed
<1> QED
  BY <1>1, HandlerInStream, PTL

\* Every recv writes inside the buffer as long as the only delimiters of the
\* stream are those of its headers and a message has at most 255 bytes
\* (FIXSocketHandler.hpp:126-127, 168-169, 196-198).
THEOREM ReadsStayInBuffer == Spec => []StaysInBuffer
<1>1. Ground /\ SocketInv => StaysInBuffer
  <2> SUFFICES ASSUME Ground, SocketInv, NEW call \in RecvCall
               PROVE  call[2] >= 0 /\ call[1] + call[2] <= buffer_size
    BY DEF StaysInBuffer
  <2>1. InStream /\ Registers
    BY DEF SocketInv
  <2>2. pc \in {"header", "scan", "discard", "rest"}
    BY DEF RecvCall
  <2>3. ~NotRunning
    BY <2>2 DEF NotRunning
  <2> DEFINE s == shortest_msg_size
             h == header_length
             size == buffer_size
  <2>4. /\ s \in Nat /\ h \in Nat /\ size \in Nat /\ h + 2 < s /\ s <= size
    <3>1. 1 \in DOMAIN MsgClassPack
      BY <2>3, Compiled
    <3>2. /\ MsgClassPack[1].msg_length <= size /\ s <= MsgClassPack[1].msg_length
          /\ size \in Nat /\ s \in Nat /\ h \in Nat /\ h + 2 < s
      BY <2>3, <3>1, SizesFound
    <3>3. MsgClassPack[1].msg_length \in MsgLengths
      BY <3>1 DEF MsgLengths
    <3>4. MsgClassPack[1].msg_length \in Nat
      BY <2>3, <3>3, SizesFound
    <3> QED
      BY <3>2, <3>4
  <2>5. CASE pc = "header"
    <3>1. call = <<0, h>>
      BY <2>5 DEF RecvCall
    <3> HIDE DEF h, s, size
    <3> QED
      BY <2>4, <3>1 DEF size
  <2>6. CASE pc = "scan"
    <3>1. call = <<h - 1, s - (h - 1)>>
      BY <2>6 DEF RecvCall, bytes_to_keep, scan_length
    <3> HIDE DEF h, s, size
    <3> QED
      BY <2>4, <3>1 DEF size
  <2>7. CASE pc \in {"discard", "rest"}
    <3>1. pc \in InMessage
      BY <2>7 DEF InMessage
    <3>2. PICK n \in 0..Len(wire) : \E m \in 1..(Len(wire) + 1) : Framing(n, m)
      BY <2>1, <3>1 DEF InStream
    <3>3. PICK m \in 1..(Len(wire) + 1) : Framing(n, m)
      BY <3>2
    <3>4. wire # <<>> /\ Ahead(n, m) /\ Found(m)
      BY <2>7, <3>3 DEF Framing
    <3>5. CASE pc = "discard"
      <4> DEFINE d == DiscardLength
      <4>1. call = <<h, d>>
        BY <3>5 DEF RecvCall
      <4>2. excess_bytes > 0 /\ excess_bytes \in Int
        BY <2>1, <3>3, <3>5 DEF Framing, Registers
      <4>3. d \in Nat /\ d <= size - h
        BY <2>3, <3>4, <4>2, TurnReads
      <4> HIDE DEF h, s, size, d
      <4> QED
        BY <2>4, <4>1, <4>3 DEF size
    <3>6. CASE pc = "rest"
      <4> DEFINE r == bytes_read
                 l == msg_length
      <4>1. call = <<r, l - r>>
        BY <3>6 DEF RecvCall
      <4>2. l = Kept(m)
        BY <3>3, <3>6 DEF Framing
      <4>3. l \in Nat /\ r \in Nat /\ r <= l /\ l <= size
        BY <2>3, <3>4, <4>2, MessagePlace
      <4> HIDE DEF h, s, size, l, r
      <4> QED
        BY <2>4, <4>1, <4>3 DEF size
    <3> QED
      BY <2>7, <3>5, <3>6
  <2> QED
    BY <2>2, <2>5, <2>6, <2>7
<1> QED
  BY <1>1, GroundAlways, HandlerInStream, PTL

-----------------------------------------------------------------------------
(***************************************************************************)
(* The handler implements the source of messages.                          *)
(***************************************************************************)
\* The flag is set in a call, and then the message of the call is the last one,
\* or there is none left and the stream ends in other bytes.
EndIsReached ==
    pc \in InMessage /\ read_index = mem_size =>
        Len(returned) + (IF wire # <<>> /\ ~wire[Len(wire)].header THEN 0 ELSE 1)
            = Len(Messages(Len(wire)))

\* Of the messages of the whole stream, the next one is the one ahead.
LEMMA LastAhead ==
    ASSUME Ground, NEW n \in 0..Len(wire), NEW m, Ahead(n, m)
    PROVE  /\ m = Len(wire) + 1 => Messages(Len(wire)) = Messages(n)
           /\ m <= Len(wire) => /\ Len(Messages(m)) = Len(Messages(n)) + 1
                                /\ Messages(m)[Len(Messages(n)) + 1] = m
           /\ Len(Messages(n)) \in Nat
<1> DEFINE L == Len(wire)
           M == Messages(n)
<1>1. L \in Nat /\ m \in (n + 1)..(L + 1)
  BY WireTyped DEF Ahead
<1>2. /\ m - 1 \in 0..L /\ Messages(m - 1) = M
      /\ m <= L => Messages(m) = Append(M, m)
  BY MessagesSkip
<1>3. M \in Seq(1..L) /\ m \in Int
  BY <1>1, MessagesAre
<1>4. m = L + 1 => Messages(L) = M
  <2>1. m = L + 1 => m - 1 = L
    BY <1>1
  <2> QED
    BY <1>2, <2>1
<1> HIDE DEF L, M
<1>5. /\ m <= L => Len(Messages(m)) = Len(M) + 1 /\ Messages(m)[Len(M) + 1] = m
      /\ Len(M) \in Nat
  BY <1>2, <1>3
<1> QED
  BY <1>4, <1>5 DEF L, M

LEMMA EndReached ==
    ASSUME Ground, SocketInv
    PROVE  EndIsReached
<1> SUFFICES ASSUME pc \in InMessage, read_index = mem_size
             PROVE  Len(returned) + (IF wire # <<>> /\ ~wire[Len(wire)].header THEN 0 ELSE 1)
                      = Len(Messages(Len(wire)))
  BY DEF EndIsReached
<1>1. ~NotRunning /\ InStream /\ FlagTells
  BY DEF NotRunning, InMessage, SocketInv
<1>2. PICK n \in 0..Len(wire) : \E m \in 1..(Len(wire) + 1) : Framing(n, m)
  BY <1>1 DEF InStream
<1>3. PICK m \in 1..(Len(wire) + 1) : Framing(n, m)
  BY <1>2
<1>4. wire # <<>> /\ Answered(n) /\ Ahead(n, m)
  BY <1>3 DEF Framing
<1> DEFINE L == Len(wire)
           e == Ends(m - 1)
           p == read_index
           s == shortest_msg_size
<1>5. /\ s \in Nat /\ s >= 9 /\ scan_length = s - 5 /\ mem_size = Ends(L)
      /\ L \in Nat /\ L > 0 /\ mem_size \in Nat
  BY <1>1, <1>4, Numbers
<1>6. Len(returned) = Len(Messages(n))
  BY <1>4 DEF Answered
<1>7. /\ m \in (n + 1)..(L + 1) /\ \A i \in (n + 1)..(m - 1) : ~wire[i].header
      /\ m <= L => wire[m].header
  BY <1>4 DEF Ahead
<1>8. ASSUME m <= L
      PROVE  /\ m \in 0..L /\ m - 1 \in 0..L /\ e \in Nat /\ Ends(m) \in Nat
             /\ Ends(m) = e + wire[m].length /\ wire[m].length \in Nat
             /\ e + s <= Ends(m)
             /\ m < L => Ends(m) < p
  <2>1. m \in 1..L /\ m \in 0..L /\ m - 1 \in 0..L /\ L \in 0..L
    BY <1>5, <1>7, <1>8
  <2>2. e \in Nat /\ Ends(m) \in Nat /\ Ends(m) = e + wire[m].length
    BY <2>1, EndsAre
  <2>3. wire[m].length \in s..255 /\ wire[m].length \in Nat
    BY <1>1, <1>4, <1>7, <1>8, <2>1, WireIsGood, WireTyped
  <2>4. e + s <= Ends(m)
    <3> DEFINE len == wire[m].length
    <3>1. len \in s..255 /\ len \in Nat /\ Ends(m) = e + len
      BY <2>2, <2>3
    <3> HIDE DEF len, e, s
    <3> QED
      BY <1>5, <2>2, <3>1
  <2>5. m < L => Ends(m) < p
    BY <1>5, <2>1, EndsRise
  <2> QED
    BY <2>1, <2>2, <2>3, <2>4, <2>5
<1>9. m \in Int /\ n \in Int /\ m - 1 \in 0..L
  BY <1>5, <1>7
<1>10. CASE pc \in {"scan", "search"}
  <2> DEFINE r == IF pc = "scan" THEN p ELSE p - scan_length
  <2>1. Searching(n, m, r)
    BY <1>3, <1>10 DEF Framing
  <2>2. Ends(n) \in Nat /\ e \in Nat /\ Ends(n) + 6 <= r /\ r <= e + 5
    BY <1>1, <1>4, <2>1, SearchPlace
  <2>3. p <= e + s /\ Ends(n) < p
    <3>1. CASE pc = "scan"
      <4> HIDE DEF e, s
      <4> QED
        BY <1>5, <2>2, <3>1
    <3>2. CASE pc = "search"
      <4>1. r = p - (s - 5)
        BY <1>5, <3>2
      <4>2. p \in Nat
        BY <1>1, <1>5 DEF FlagTells
      <4>3. s \in Nat /\ s >= 9
        BY <1>5
      <4> HIDE DEF e, s, r, p
      <4> QED
        BY <2>2, <4>1, <4>2, <4>3
    <3> QED
      BY <1>10, <3>1, <3>2
  <2>4. n < L
    <3> SUFFICES ASSUME n = L PROVE FALSE
      BY <1>5
    <3> QED
      BY <1>5, <2>2, <2>3
  <2>5. CASE m <= L
    <3>1. m = L
      <4> SUFFICES ASSUME m < L PROVE FALSE
        BY <1>5, <1>9, <2>5
      <4>1. Ends(m) < p /\ e + s <= Ends(m) /\ Ends(m) \in Nat
        BY <1>8, <2>5
      <4> HIDE DEF e, s
      <4> QED
        BY <1>5, <2>2, <2>3, <4>1
    <3>2. wire[L].header /\ Len(Messages(L)) = Len(Messages(n)) + 1
      BY <1>4, <1>7, <2>5, <3>1, LastAhead
    <3> QED
      BY <1>6, <3>2
  <2>6. CASE ~(m <= L)
    <3>1. m = L + 1 /\ L \in (n + 1)..(m - 1)
      BY <1>5, <1>7, <1>9, <2>4, <2>6
    <3>2. ~wire[L].header
      BY <1>7, <3>1
    <3>3. Messages(L) = Messages(n) /\ Len(Messages(n)) \in Nat
      BY <1>4, <3>1, LastAhead
    <3> QED
      BY <1>4, <1>6, <3>2, <3>3
  <2> QED
    BY <2>5, <2>6
<1>11. CASE pc \in {"length", "discard", "rest", "return"}
  <2>1. Found(m) /\ m <= L
    BY <1>3, <1>11 DEF Framing, Found
  <2> DEFINE r == bytes_read
             x == excess_bytes
             size == buffer_size
             l == msg_length
             k == Kept(m)
  <2>2. /\ r \in Nat /\ r <= s /\ size \in Nat /\ s <= size /\ k \in Nat /\ r <= k
    BY <1>1, <1>4, <2>1, MessagePlace
  <2>3. x \in Int
    BY DEF SocketInv, Registers
  <2>4. e + s <= Ends(m) /\ Ends(m) \in Nat /\ e \in Nat /\ (m < L => Ends(m) < p)
    BY <1>8, <2>1
  <2>5. p \in Nat
    BY <1>5
  <2>6. /\ pc = "length" => p = e + r
        /\ pc = "discard" => x > 0 /\ p + x + (size - r) = Ends(m)
        /\ pc = "rest" => l = k /\ p + (l - r) = Ends(m)
        /\ pc = "return" => p = Ends(m)
    BY <1>3 DEF Framing
  <2> DEFINE end == Ends(m)
  <2> HIDE DEF end, e, s, r, x, size, l, k, p
  <2>7. p <= end
    <3>1. CASE pc = "length"
      BY <1>5, <2>2, <2>4, <2>6, <3>1 DEF end
    <3>2. CASE pc = "discard"
      BY <1>5, <2>2, <2>3, <2>4, <2>5, <2>6, <3>2 DEF end
    <3>3. CASE pc = "rest"
      <4>1. p + (k - r) = end
        BY <2>6, <3>3 DEF end
      <4>2. end \in Nat
        BY <2>4 DEF end
      <4> QED
        BY <2>2, <2>5, <4>1, <4>2
    <3>4. CASE pc = "return"
      BY <2>4, <2>5, <2>6, <3>4 DEF end
    <3> QED
      BY <1>11, <3>1, <3>2, <3>3, <3>4
  <2>8. m = L
    <3>1. end \in Nat /\ (m < L => end < p)
      BY <2>4 DEF end
    <3> QED
      BY <1>5, <1>9, <2>1, <2>5, <2>7, <3>1
  <2>9. wire[L].header /\ Len(Messages(L)) = Len(Messages(n)) + 1
    BY <1>4, <1>7, <2>1, <2>8, LastAhead
  <2> QED
    BY <1>6, <2>9
<1> QED
  BY <1>10, <1>11 DEF InMessage

LEMMA EndAlways == Spec => []EndIsReached
<1>1. Ground /\ SocketInv => EndIsReached
  BY EndReached
<1> QED
  BY <1>1, GroundAlways, HandlerInStream, PTL

\* What the caller sees of the handler
Verdicts == LET messages == Messages(Len(wire))
            IN [j \in DOMAIN messages |-> Verdict(wire[messages[j]])]
Noise == wire # <<>> /\ ~wire[Len(wire)].header
Reading == pc \notin {"template", "refused", "idle"}
Replies == [j \in DOMAIN returned |-> returned[j] # {}]

Seen == <<Verdicts, Noise, Reading, Replies, end_of_buffer>>

SourceStep == [Source!Call \/ Source!ReachEnd \/ Source!Return]_(Source!source)

LEMMA StutterSeen ==
    ASSUME UNCHANGED Seen
    PROVE  SourceStep
BY DEF SourceStep, Source!source, Seen, Verdicts, Noise, Reading, Replies

LEMMA CallSeen ==
    ASSUME ~Reading, ~end_of_buffer, Reading',
           UNCHANGED <<Verdicts, Noise, Replies, end_of_buffer>>
    PROVE  SourceStep
<1>1. (pc' \notin {"template", "refused", "idle"}) = TRUE
  BY DEF Reading
<1>2. Source!Call
  BY <1>1 DEF Source!Call, Verdicts, Noise, Reading, Replies
<1> QED
  BY <1>2 DEF SourceStep

LEMMA EndSeen ==
    ASSUME Reading, Len(Replies) + (IF Noise THEN 0 ELSE 1) = Len(Verdicts),
           end_of_buffer' = TRUE,
           UNCHANGED <<Verdicts, Noise, Reading, Replies>>
    PROVE  SourceStep
<1>1. Source!ReachEnd
  BY DEF Source!ReachEnd, Verdicts, Noise, Reading, Replies
<1> QED
  BY <1>1 DEF SourceStep

LEMMA ReturnSeen ==
    ASSUME Reading, ~Reading', Len(Replies) < Len(Verdicts),
           NEW answer \in Verdicts[Len(Replies) + 1],
           Replies' = Append(Replies, answer),
           Len(Replies') = Len(Verdicts) /\ ~Noise => end_of_buffer,
           UNCHANGED <<Verdicts, Noise, end_of_buffer>>
    PROVE  SourceStep
<1>1. (pc' \notin {"template", "refused", "idle"}) = FALSE
  BY DEF Reading
<1>2. Source!Return
  BY <1>1 DEF Source!Return, Verdicts, Noise, Reading, Replies
<1> QED
  BY <1>2 DEF SourceStep

\* There are as many verdicts as messages, and as many replies as answers.
LEMMA Counted ==
    ASSUME Ground, IsSequence(returned)
    PROVE  /\ Len(Verdicts) = Len(Messages(Len(wire)))
           /\ DOMAIN Verdicts = 1..Len(Messages(Len(wire)))
           /\ Len(Messages(Len(wire))) \in Nat
           /\ Len(Replies) = Len(returned) /\ IsSequence(Replies)
           /\ DOMAIN Replies = 1..Len(returned) /\ Len(returned) \in Nat
<1> DEFINE M == Messages(Len(wire))
           k == Len(M)
           l == Len(returned)
<1>1. M \in Seq(1..Len(wire))
  BY WireTyped, MessagesAre
<1>2. k \in Nat /\ DOMAIN M = 1..k
  BY <1>1
<1>3. l \in Nat /\ DOMAIN returned = 1..l
  BY AppendIs
<1>4. Verdicts = [j \in 1..k |-> Verdict(wire[M[j]])]
  BY <1>2 DEF Verdicts
<1>5. Replies = [j \in 1..l |-> returned[j] # {}]
  BY <1>3 DEF Replies
<1> HIDE DEF k, l, M
<1>6. Len(Verdicts) = k /\ DOMAIN Verdicts = 1..k
  <2> DEFINE v == Verdicts
             T == {v[j] : j \in 1..k}
  <2>1. v = [j \in 1..k |-> v[j]] /\ DOMAIN v = 1..k
    BY <1>4
  <2>2. \A j \in 1..k : v[j] \in T
    OBVIOUS
  <2> HIDE DEF v, T
  <2>3. Len(v) = k
    BY <1>2, <2>1, <2>2, ManyElements
  <2> QED
    BY <2>1, <2>3 DEF v
<1>7. Len(Replies) = l /\ DOMAIN Replies = 1..l /\ Replies \in Seq(Range(Replies))
  <2> DEFINE v == Replies
             T == Range(v)
  <2>1. v = [j \in 1..l |-> v[j]] /\ DOMAIN v = 1..l
    BY <1>5
  <2> HIDE DEF v
  <2>2. \A j \in 1..l : v[j] \in T
    BY <2>1 DEF Range
  <2> HIDE DEF T
  <2>3. v \in Seq(T) /\ Len(v) = l
    BY <1>3, <2>1, <2>2, ManyElements
  <2> QED
    BY <2>1, <2>3 DEF v, T
<1> QED
  BY <1>2, <1>3, <1>6, <1>7 DEF k, l, M, IsSequence

\* The stream does not change.
LEMMA StreamSeen ==
    ASSUME UNCHANGED <<MsgClassPack, wire>>
    PROVE  UNCHANGED <<Verdicts, Noise>>
BY DEF Verdicts, Noise, Verdict, Messages, MsgLengths

LEMMA ConsumeSeen ==
    ASSUME Ground, SocketInv, EndIsReached', Fixed, NEW len, Consume(len),
           pc \in InMessage \cup {"header"}, pc' \in InMessage, returned' = returned
    PROVE  SourceStep
<1>1. UNCHANGED <<Verdicts, Noise>> /\ UNCHANGED Replies /\ Reading /\ Reading'
  BY StreamSeen DEF Fixed, Replies, Reading, InMessage
<1>2. end_of_buffer \in BOOLEAN /\ IsSequence(returned)
  BY DEF SocketInv, FlagTells, Registers
<1>3. end_of_buffer' = (end_of_buffer \/ read_index' = mem_size)
  BY DEF Consume
<1>4. CASE end_of_buffer' = end_of_buffer
  BY <1>1, <1>4, StutterSeen DEF Seen
<1>5. CASE end_of_buffer' # end_of_buffer
  <2>1. end_of_buffer' = TRUE /\ read_index' = mem_size
    BY <1>2, <1>3, <1>5
  <2>2. mem_size' = mem_size /\ wire' = wire /\ Messages(Len(wire))' = Messages(Len(wire))
    BY FixedKeeps DEF Fixed, Messages
  <2>3. Len(returned) + (IF Noise THEN 0 ELSE 1) = Len(Messages(Len(wire)))
    BY <2>1, <2>2 DEF EndIsReached, Noise
  <2>4. Len(Replies) + (IF Noise THEN 0 ELSE 1) = Len(Verdicts)
    BY <1>2, <2>3, Counted
  <2>5. Reading' = Reading
    BY <1>1
  <2> QED
    BY <1>1, <2>1, <2>4, <2>5, EndSeen
<1> QED
  BY <1>4, <1>5

\* An answer that is right is one the source may give.
LEMMA VerdictRight ==
    ASSUME Ground, ~NotRunning, NEW m \in 1..Len(wire), NEW answer, Answers(m, answer),
           NEW x \in BOOLEAN, x <=> answer # {}
    PROVE  x \in Verdict(wire[m])
<1> DEFINE item == wire[m]
           size == Max(MsgLengths)
<1>1. buffer_size = size
  BY SizesFound
<1>2. CASE item.length \in MsgLengths /\ item.checksum
  <2>1. answer # {}
    BY <1>2 DEF Answers
  <2>2. x = TRUE
    BY <2>1
  <2>3. Verdict(item) = {TRUE}
    BY <1>2 DEF Verdict
  <2> QED
    BY <2>2, <2>3
<1>3. CASE ~(item.length \in MsgLengths /\ item.checksum)
  <2>1. item.length > size \/ answer = {}
    BY <1>1, <1>3 DEF Answers
  <2>2. CASE item.length > size
    <3>1. Verdict(item) = BOOLEAN
      BY <1>3, <2>2 DEF Verdict
    <3> QED
      BY <3>1
  <2>3. CASE ~(item.length > size)
    <3>1. x = FALSE
      BY <2>1, <2>3
    <3>2. Verdict(item) = {FALSE}
      BY <1>3, <2>3 DEF Verdict
    <3> QED
      BY <3>1, <3>2
  <2> QED
    BY <2>2, <2>3
<1> QED
  BY <1>2, <1>3

\* A call that returns answers the next message of the source, and the last one
\* of a stream that ends in it with the flag set.
LEMMA ReturnIsSeen ==
    ASSUME Ground, SocketInv, ~NotRunning, Fixed, Return
    PROVE  SourceStep
<1>1. /\ pc = "return" /\ pc' = "idle" /\ returned' = Append(returned, Result)
      /\ UNCHANGED <<read_index, end_of_buffer>>
  BY DEF Return, socket
<1>2. InStream /\ FlagTells /\ IsSequence(returned)
  BY DEF SocketInv, Registers
<1>3. PICK n \in 0..Len(wire) : \E m \in 1..(Len(wire) + 1) : Framing(n, m)
  BY <1>1, <1>2 DEF InStream, InMessage
<1>4. PICK m \in 1..(Len(wire) + 1) : Framing(n, m)
  BY <1>3
<1>5. /\ wire # <<>> /\ Answered(n) /\ Ahead(n, m) /\ Found(m)
      /\ msg_length = Kept(m) /\ read_index = Ends(m)
      /\ wire[m].length <= buffer_size => Holds(m, msg_length)
  BY <1>1, <1>4 DEF Framing
<1> DEFINE L == Len(wire)
           l == Len(returned)
           total == Len(Messages(L))
<1>6. m \in 1..L /\ m \in 0..L /\ L \in Nat /\ L \in 0..L /\ m <= L
  BY <1>5, MessagePlace, WireTyped DEF Found
<1>7. Answers(m, Result)
  <2>1. msg_length = Kept(m) /\ (wire[m].length <= buffer_size => Holds(m, msg_length))
    BY <1>5
  <2> QED
    BY <1>5, <2>1, AnswerRight
<1>8. /\ Len(Messages(m)) = l + 1 /\ Messages(m)[l + 1] = m /\ l \in Nat
  <2>1. l = Len(Messages(n))
    BY <1>5 DEF Answered
  <2> QED
    BY <1>5, <1>6, <2>1, LastAhead
<1>9. total \in Nat /\ l + 1 <= total /\ Messages(L)[l + 1] = m
  <2>1. /\ Len(Messages(m)) <= total /\ total \in Nat
        /\ \A k \in 1..Len(Messages(m)) : Messages(m)[k] = Messages(L)[k]
    BY <1>6, MessagesGrow
  <2>2. l + 1 \in 1..(l + 1)
    BY <1>8
  <2> QED
    BY <1>8, <2>1, <2>2
<1>10. PICK x \in BOOLEAN : x <=> Result # {}
  OBVIOUS
<1>11. /\ Len(Verdicts) = total /\ DOMAIN Verdicts = 1..total /\ Len(Replies) = l
       /\ IsSequence(Replies) /\ DOMAIN returned = 1..l /\ DOMAIN Replies = 1..l
  BY <1>2, Counted, AppendIs
<1> DEFINE M == Messages(L)
<1>12. DOMAIN Verdicts = DOMAIN M
  BY DEF Verdicts
<1>13. Verdicts[l + 1] = Verdict(wire[m])
  <2>1. l + 1 \in DOMAIN M
    BY <1>8, <1>9, <1>11, <1>12
  <2>2. Verdicts[l + 1] = Verdict(wire[M[l + 1]])
    BY <2>1 DEF Verdicts
  <2> QED
    BY <1>9, <2>2
<1>14. x \in Verdicts[Len(Replies) + 1]
  <2>1. x \in Verdict(wire[m])
    BY <1>6, <1>7, <1>10, VerdictRight
  <2> QED
    BY <1>11, <1>13, <2>1
<1>15. Replies' = Append(Replies, x) /\ Len(Replies') = l + 1
  <2> DEFINE R == Append(returned, Result)
             t == Append(Replies, x)
  <2>1. /\ DOMAIN R = 1..(l + 1) /\ \A j \in 1..l : R[j] = returned[j]
        /\ R[l + 1] = Result
    BY <1>2, AppendIs
  <2>2. /\ IsSequence(t) /\ DOMAIN t = 1..(l + 1) /\ Len(t) = l + 1
        /\ \A j \in 1..l : t[j] = Replies[j]
        /\ t[l + 1] = x
    BY <1>11, AppendIs
  <2>3. Replies' = [j \in DOMAIN R |-> R[j] # {}]
    BY <1>1 DEF Replies
  <2>4. \A j \in 1..l : Replies[j] = (returned[j] # {})
    BY <1>11 DEF Replies
  <2> HIDE DEF R, t, l
  <2>5. ASSUME NEW j \in 1..(l + 1) PROVE t[j] = (R[j] # {})
    <3>1. CASE j \in 1..l
      BY <2>1, <2>2, <2>4, <3>1
    <3>2. CASE j = l + 1
      BY <1>10, <2>1, <2>2, <3>2
    <3>3. j \in 1..l \/ j = l + 1
      BY <1>8
    <3> QED
      BY <3>1, <3>2, <3>3
  <2>6. t = [j \in 1..(l + 1) |-> t[j]]
    BY <2>2 DEF IsSequence
  <2>7. t = Replies'
    BY <2>1, <2>3, <2>5, <2>6
  <2> QED
    BY <2>2, <2>7 DEF t
<1>16. Len(Replies') = Len(Verdicts) /\ ~Noise => end_of_buffer
  <2> SUFFICES ASSUME l + 1 = total, wire[L].header PROVE end_of_buffer = TRUE
    BY <1>2, <1>5, <1>11, <1>15 DEF Noise, FlagTells
  <2>1. m = L
    <3> SUFFICES ASSUME m < L PROVE FALSE
      BY <1>6
    <3>1. L - 1 \in 0..L /\ m <= L - 1 /\ L \in 1..L
      BY <1>6
    <3>2. Len(Messages(m)) <= Len(Messages(L - 1)) /\ Len(Messages(L - 1)) \in Nat
      BY <1>6, <3>1, MessagesGrow
    <3>3. Messages(L) = Append(Messages(L - 1), L) /\ Messages(L - 1) \in Seq(1..L)
      BY <3>1, MessagesAre
    <3> DEFINE N == Messages(L - 1)
    <3>4. Len(Append(N, L)) = Len(N) + 1
      <4> HIDE DEF N
      <4> QED
        BY <3>1, <3>3 DEF N
    <3> QED
      BY <1>8, <3>2, <3>3, <3>4
  <2>2. read_index = mem_size /\ mem_size > 0
    BY <1>5, <2>1, Numbers
  <2> QED
    BY <1>2, <2>2, Numbers DEF FlagTells
<1>17. Reading /\ ~Reading' /\ UNCHANGED <<Verdicts, Noise, end_of_buffer>>
  BY <1>1, StreamSeen DEF Reading, Fixed
<1>18. Len(Replies) < Len(Verdicts)
  BY <1>8, <1>9, <1>11
<1> QED
  BY <1>14, <1>15, <1>16, <1>17, <1>18, ReturnSeen

LEMMA HandlerStepSeen ==
    ASSUME Ground, SocketInv, EndIsReached', [Next]_vars
    PROVE  SourceStep
<1>1. CASE Instantiate
  <2>1. /\ UNCHANGED <<MsgClassPack, wire, end_of_buffer, returned>>
        /\ pc = "template" /\ pc' \in {"idle", "refused"}
    BY <1>1 DEF Instantiate
  <2>2. UNCHANGED <<Verdicts, Noise, Reading, Replies, end_of_buffer>>
    BY <2>1, StreamSeen DEF Reading, Replies
  <2> QED
    BY <2>2, StutterSeen DEF Seen
<1>2. CASE UNCHANGED vars
  <2>1. UNCHANGED <<MsgClassPack, wire, end_of_buffer, returned, pc>>
    BY <1>2 DEF vars, socket
  <2>2. UNCHANGED <<Verdicts, Noise, Reading, Replies, end_of_buffer>>
    BY <2>1, StreamSeen DEF Reading, Replies
  <2> QED
    BY <2>2, StutterSeen DEF Seen
<1>3. CASE Run
  <2>1. ~NotRunning /\ Fixed
    BY <1>3, RunKeeps DEF Fixed
  <2>2. CASE Call
    <3>1. /\ pc = "idle" /\ pc' = "header" /\ ~end_of_buffer
          /\ UNCHANGED <<end_of_buffer, returned>>
      BY <2>2 DEF Call, socket
    <3>2. ~Reading /\ Reading' /\ UNCHANGED <<Verdicts, Noise, Replies, end_of_buffer>>
      BY <2>1, <3>1, StreamSeen DEF Reading, Replies, Fixed
    <3> QED
      BY <3>1, <3>2, CallSeen
  <2>3. CASE ReadHeader
    <3>1. /\ Consume(header_length) /\ pc \in InMessage \cup {"header"}
          /\ pc' \in InMessage /\ returned' = returned
      BY <2>3 DEF ReadHeader, InMessage
    <3> QED
      BY <2>1, <3>1, ConsumeSeen
  <2>4. CASE Scan
    <3>1. /\ Consume(scan_length) /\ pc \in InMessage \cup {"header"}
          /\ pc' \in InMessage /\ returned' = returned
      BY <2>4 DEF Scan, InMessage
    <3> QED
      BY <2>1, <3>1, ConsumeSeen
  <2>5. CASE Discard
    <3>1. /\ Consume(DiscardLength) /\ pc \in InMessage \cup {"header"}
          /\ pc' \in InMessage /\ returned' = returned
      BY <2>5 DEF Discard, InMessage
    <3> QED
      BY <2>1, <3>1, ConsumeSeen
  <2>6. CASE ReadRest
    <3>1. /\ Consume(msg_length - bytes_read) /\ pc \in InMessage \cup {"header"}
          /\ pc' \in InMessage /\ returned' = returned
      BY <2>6 DEF ReadRest, InMessage
    <3> DEFINE len == msg_length - bytes_read
    <3> HIDE DEF len
    <3>2. Consume(len)
      BY <3>1 DEF len
    <3> QED
      BY <2>1, <3>1, <3>2, ConsumeSeen
  <2>7. CASE Return
    BY <2>1, <2>7, ReturnIsSeen
  <2>8. CASE NoDelimiter \/ DelimiterFound \/ GetLength \/ Terminate
    <3>1. UNCHANGED <<end_of_buffer, returned>>
      BY <2>8 DEF NoDelimiter, DelimiterFound, GetLength, Terminate, socket
    <3>2. Reading /\ Reading'
      <4>1. CASE NoDelimiter \/ DelimiterFound \/ GetLength
        BY <4>1 DEF NoDelimiter, DelimiterFound, GetLength, Reading
      <4>2. CASE Terminate
        BY <4>2 DEF Terminate, RecvCall, Reading
      <4> QED
        BY <2>8, <4>1, <4>2
    <3>3. UNCHANGED <<Verdicts, Noise, Reading, Replies, end_of_buffer>>
      BY <2>1, <3>1, <3>2, StreamSeen DEF Replies, Fixed
    <3> QED
      BY <3>3, StutterSeen DEF Seen
  <2> QED
    BY <1>3, <2>2, <2>3, <2>4, <2>5, <2>6, <2>7, <2>8 DEF Run
<1> QED
  BY <1>1, <1>2, <1>3 DEF Next

\* The handler over its socket implements the source of messages: its calls
\* answer the messages one after the other, and the flag that ends the caller's
\* loop is set in the call that answers the last one, however far the search
\* reads ahead (FIXMockSocket.hpp:187-190, Record_latencies_multithreaded.cpp:74-76).
THEOREM HandlerIsSource == Spec => IsSource
<1>1. Init => Source!Init
  BY EmptySequence DEF Init, Source!Init
<1>2. Ground /\ SocketInv /\ EndIsReached' /\ [Next]_vars => SourceStep
  BY HandlerStepSeen
<1> QED
  BY <1>1, <1>2, GroundAlways, HandlerInStream, EndAlways, PTL
     DEF Spec, IsSource, Source!Spec, SourceStep
=============================================================================
