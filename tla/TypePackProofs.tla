--------------------------- MODULE TypePackProofs ---------------------------
(***************************************************************************)
(* Proofs about the compile-time checks of message types, for packs of     *)
(* every length: which groups of types a check is applied to, and what the *)
(* fold of its results comes to.                                           *)
(*                                                                         *)
(* Flattening and folding are recursive.  What they compute is shown by    *)
(* induction over the natural numbers, which here is the fact that every   *)
(* set of them has a least element.                                        *)
(***************************************************************************)
EXTENDS MsgTypeChecks, TLAPS, WellFoundedInduction

-----------------------------------------------------------------------------
(***************************************************************************)
(* Induction and recursion.                                                *)
(***************************************************************************)
LessThan == {ss \in Nat \X Nat : ss[1] < ss[2]}

\* A set of numbers that has 0, and with every number the next one, has all.
LEMMA Induction ==
    ASSUME NEW S, 0 \in S, \A n \in Nat : n \in S => n + 1 \in S
    PROVE  Nat \subseteq S
<1> SUFFICES ASSUME Nat \ S # {} PROVE FALSE
  OBVIOUS
<1>1. IsWellFoundedOn(LessThan, Nat)
  BY NatLessThanWellFounded DEF LessThan, OpToRel
<1>2. PICK x \in Nat \ S : \A y \in Nat \ S : ~ (<<y, x>> \in LessThan)
  BY <1>1, WFMin
<1>3. x - 1 \in Nat /\ x - 1 < x /\ (x - 1) + 1 = x
  <2>1. x # 0 /\ x \in Nat
    OBVIOUS
  <2> QED
    BY <2>1
<1>4. x - 1 \in S
  BY <1>2, <1>3 DEF LessThan
<1> QED
  BY <1>3, <1>4

\* f begins with a value of D and goes on by the step of each number.
Iterates(f, D, first, step) ==
    /\ f \in [Nat -> D]
    /\ f[0] = first
    /\ \A n \in Nat : f[n + 1] = step[n][f[n]]

\* A first value and a step make a function of the natural numbers.
LEMMA Recursion ==
    ASSUME NEW D, NEW first \in D, NEW step \in [Nat -> [D -> D]]
    PROVE  \E f : Iterates(f, D, first, step)
<1> DEFINE Begins(g, n) ==
             /\ g \in [0..n -> D] /\ g[0] = first
             /\ \A i \in 0..(n - 1) : g[i + 1] = step[i][g[i]]
           S == {n \in Nat : \E g : Begins(g, n)}
<1>1. 0 \in S
  <2>1. Begins([i \in 0..0 |-> first], 0)
    OBVIOUS
  <2> QED
    BY <2>1
<1>2. ASSUME NEW n \in Nat, n \in S
      PROVE  n + 1 \in S
  <2>1. PICK g : Begins(g, n)
    BY <1>2
  <2> DEFINE h == [i \in 0..(n + 1) |-> IF i = n + 1 THEN step[n][g[n]] ELSE g[i]]
  <2>2. h \in [0..(n + 1) -> D] /\ h[0] = first
    BY <2>1
  <2>3. ASSUME NEW i \in 0..n
        PROVE  h[i + 1] = step[i][h[i]]
    <3>1. h[i] = g[i]
      OBVIOUS
    <3>2. CASE i = n
      <4>1. h[i + 1] = step[n][g[n]]
        BY <3>2
      <4> HIDE DEF h
      <4> QED
        BY <3>1, <3>2, <4>1
    <3>3. CASE i # n
      <4>1. i \in 0..(n - 1) /\ i + 1 \in 0..(n + 1) /\ i + 1 # n + 1
        BY <3>3
      <4> QED
        BY <2>1, <3>1, <4>1
    <3> QED
      BY <3>2, <3>3
  <2>4. Begins(h, n + 1)
    <3> HIDE DEF h
    <3>1. (n + 1) - 1 = n
      OBVIOUS
    <3> QED
      BY <2>2, <2>3, <3>1
  <2> HIDE DEF Begins, h
  <2> QED
    BY <2>4
<1>3. \A n \in Nat : \E g : Begins(g, n)
  <2>1. Nat \subseteq S
    <3> HIDE DEF S
    <3> QED
      BY <1>1, <1>2, Induction
  <2> QED
    BY <2>1
<1> DEFINE G == [n \in Nat |-> CHOOSE g : Begins(g, n)]
<1>4. \A n \in Nat : Begins(G[n], n)
  BY <1>3
<1> HIDE DEF G
\* Two beginnings are the same as far as both go.
<1>5. \A m, n \in Nat : \A i \in Nat : i <= m /\ i <= n => G[m][i] = G[n][i]
  <2> SUFFICES ASSUME NEW m \in Nat, NEW n \in Nat
               PROVE  \A i \in Nat : i <= m /\ i <= n => G[m][i] = G[n][i]
    OBVIOUS
  <2> DEFINE T == {i \in Nat : i <= m /\ i <= n => G[m][i] = G[n][i]}
  <2>1. 0 \in T
    BY <1>4
  <2>2. ASSUME NEW i \in Nat, i \in T
        PROVE  i + 1 \in T
    <3> SUFFICES ASSUME i + 1 <= m, i + 1 <= n
                 PROVE  G[m][i + 1] = G[n][i + 1]
      OBVIOUS
    <3>1. i \in 0..(m - 1) /\ i \in 0..(n - 1) /\ i <= m /\ i <= n
      OBVIOUS
    <3>2. G[m][i] = G[n][i]
      BY <2>2, <3>1
    <3>3. G[m][i + 1] = step[i][G[m][i]] /\ G[n][i + 1] = step[i][G[n][i]]
      BY <1>4, <3>1
    <3> QED
      BY <3>2, <3>3
  <2> HIDE DEF T
  <2>3. Nat \subseteq T
    BY <2>1, <2>2, Induction
  <2> QED
    BY <2>3 DEF T
<1> DEFINE f == [n \in Nat |-> G[n][n]]
<1>6. f \in [Nat -> D] /\ f[0] = first
  BY <1>4
<1>7. ASSUME NEW n \in Nat
      PROVE  f[n + 1] = step[n][f[n]]
  <2>1. n \in 0..((n + 1) - 1) /\ n <= n + 1 /\ n + 1 \in Nat
    OBVIOUS
  <2>2. G[n + 1][n + 1] = step[n][G[n + 1][n]]
    BY <1>4, <2>1
  <2>3. G[n + 1][n] = G[n][n]
    BY <1>5, <2>1
  <2> QED
    BY <2>1, <2>2, <2>3
<1> HIDE DEF f
<1> QED
  BY <1>6, <1>7 DEF Iterates

(***************************************************************************)
(* FlattenSeq.                                                             *)
(***************************************************************************)
\* The length and the elements of two sequences put together
LEMMA Joined ==
    ASSUME NEW T, NEW a \in Seq(T), NEW b \in Seq(T)
    PROVE  /\ Len(a) \in Nat /\ Len(b) \in Nat
           /\ a \o b \in Seq(T) /\ Len(a \o b) = Len(a) + Len(b)
           /\ \A i \in 1..Len(a) : (a \o b)[i] = a[i]
           /\ \A i \in 1..Len(b) : (a \o b)[Len(a) + i] = b[i]
<1>1. Len(a) \in Nat /\ Len(b) \in Nat
  OBVIOUS
<1>2. a \o b \in Seq(T) /\ Len(a \o b) = Len(a) + Len(b)
  OBVIOUS
<1>3. \A i \in 1..Len(a) : (a \o b)[i] = a[i]
  BY <1>1
<1>4. ASSUME NEW i \in 1..Len(b)
      PROVE  (a \o b)[Len(a) + i] = b[i]
  <2>1. Len(a) + i \in 1..(Len(a) + Len(b)) /\ Len(a) + i > Len(a)
    BY <1>1
  <2> QED
    BY <1>1, <2>1
<1> QED
  BY <1>1, <1>2, <1>3, <1>4

\* A sequence is flattened one of its sequences after the other.
LEMMA FlattenSteps ==
    ASSUME NEW T, NEW seqs \in Seq(Seq(T))
    PROVE  \E f \in [Nat -> Seq(T)] :
             /\ f[0] = << >>
             /\ \A k \in 1..Len(seqs) : f[k] = f[k - 1] \o seqs[k]
             /\ FlattenSeq(seqs) = f[Len(seqs)]
<1> DEFINE n == Len(seqs)
<1>1. n \in Nat /\ \A k \in 1..n : seqs[k] \in Seq(T)
  OBVIOUS
<1> DEFINE D == Seq(T)
           step == [i \in Nat |-> [x \in D |->
                      IF i + 1 \in 1..n THEN x \o seqs[i + 1] ELSE x]]
<1>2. << >> \in D /\ step \in [Nat -> [D -> D]]
  BY <1>1
<1>3. \A i \in Nat, x \in D : i + 1 \in 1..n => step[i][x] = x \o seqs[i + 1]
  OBVIOUS
<1> HIDE DEF step, n, D
<1>4. PICK f : Iterates(f, D, << >>, step)
  BY <1>2, Recursion
<1> USE DEF D, Iterates
<1>5. ASSUME NEW k \in 1..n
      PROVE  f[k] = f[k - 1] \o seqs[k]
  <2>1. k - 1 \in Nat /\ (k - 1) + 1 = k
    BY <1>1
  <2>2. f[k - 1] \in Seq(T) /\ f[(k - 1) + 1] = step[k - 1][f[k - 1]]
    BY <1>4, <2>1
  <2>3. step[k - 1][f[k - 1]] = f[k - 1] \o seqs[(k - 1) + 1]
    BY <1>3, <2>1, <2>2
  <2> QED
    BY <2>1, <2>2, <2>3
<1>6. CASE n = 0
  <2>1. FlattenSeq(seqs) = seqs /\ seqs = << >>
    BY <1>6 DEF FlattenSeq, n
  <2>2. f \in [Nat -> Seq(T)] /\ f[0] = << >> /\ Len(seqs) = 0
    BY <1>4, <1>6 DEF n
  <2> QED
    BY <1>5, <2>1, <2>2 DEF n
<1>7. CASE n # 0
  <2> DEFINE Flattens(g) ==
               g = [i \in 1..n |-> IF i = 1 THEN seqs[i] ELSE g[i - 1] \o seqs[i]]
             flatten == CHOOSE g : Flattens(g)
             h == [i \in 1..n |-> f[i]]
  <2>1. Flattens(h)
    <3>1. f[1] = seqs[1]
      <4>1. 1 \in 1..n /\ seqs[1] \in Seq(T)
        BY <1>1, <1>7
      <4>2. f[1] = << >> \o seqs[1]
        <5>1. PICK k \in 1..n : k = 1
          BY <4>1
        <5>2. k - 1 = 0
          BY <5>1
        <5>3. f[k] = f[k - 1] \o seqs[k]
          BY <1>5
        <5>4. f[k] = << >> \o seqs[k]
          BY <1>4, <5>2, <5>3, Zenon
        <5> QED
          BY <5>1, <5>4
      <4> QED
        BY <4>1, <4>2
    <3>2. ASSUME NEW i \in 1..n
          PROVE  h[i] = IF i = 1 THEN seqs[i] ELSE h[i - 1] \o seqs[i]
      <4>1. CASE i = 1
        BY <3>1, <4>1
      <4>2. CASE i # 1
        <5>1. i - 1 \in 1..n
          BY <1>1, <4>2
        <5> QED
          BY <1>5, <4>2, <5>1
      <4> QED
        BY <4>1, <4>2
    <3> QED
      BY <3>2, Zenon
  <2> HIDE DEF h
  <2>2. Flattens(flatten)
    BY <2>1
  <2>3. FlattenSeq(seqs) = flatten[n]
    BY <1>7 DEF FlattenSeq, n
  <2> HIDE DEF flatten
  <2>4. \A i \in 1..n : flatten[i] = f[i]
    <3> DEFINE S == {i \in Nat : i + 1 \in 1..n => flatten[i + 1] = f[i + 1]}
    <3>1. 0 \in S
      <4>1. 0 + 1 = 1 /\ 1 \in 1..n
        BY <1>1, <1>7
      <4>2. flatten[1] = seqs[1] /\ h[1] = seqs[1] /\ h[1] = f[1]
        BY <2>1, <2>2, <4>1 DEF h
      <4> QED
        BY <4>1, <4>2
    <3>2. ASSUME NEW i \in Nat, i \in S
          PROVE  i + 1 \in S
      <4> SUFFICES ASSUME (i + 1) + 1 \in 1..n
                   PROVE  flatten[(i + 1) + 1] = f[(i + 1) + 1]
        OBVIOUS
      <4>1. i + 1 \in 1..n /\ (i + 1) + 1 # 1 /\ ((i + 1) + 1) - 1 = i + 1
        BY <1>1
      <4>2. flatten[(i + 1) + 1] = flatten[i + 1] \o seqs[(i + 1) + 1]
        BY <2>2, <4>1
      <4>3. f[(i + 1) + 1] = f[i + 1] \o seqs[(i + 1) + 1]
        BY <1>5, <4>1
      <4> QED
        BY <3>2, <4>1, <4>2, <4>3
    <3> HIDE DEF S
    <3>3. Nat \subseteq S
      BY <3>1, <3>2, Induction
    <3>4. \A i \in 1..n : i - 1 \in S /\ (i - 1) + 1 = i
      BY <1>1, <3>3
    <3> QED
      BY <3>4 DEF S
  <2>5. n \in 1..n
    BY <1>1, <1>7
  <2> QED
    BY <1>4, <1>5, <2>3, <2>4, <2>5 DEF n
<1> QED
  BY <1>6, <1>7

\* off[k] is the length of the first k sequences.
Offsets(off, seqs) ==
    /\ off \in [0..Len(seqs) -> Nat]
    /\ off[0] = 0
    /\ \A k \in 1..Len(seqs) : off[k] = off[k - 1] + Len(seqs[k])

\* Every element is where the offset of its sequence says.
Placed(flat, off, seqs) ==
    \A k \in 1..Len(seqs) : \A j \in 1..Len(seqs[k]) :
        /\ off[k - 1] + j \in 1..Len(flat)
        /\ flat[off[k - 1] + j] = seqs[k][j]

LEMMA FlattenPlaces ==
    ASSUME NEW T, NEW seqs \in Seq(Seq(T)), NEW off, Offsets(off, seqs)
    PROVE  /\ FlattenSeq(seqs) \in Seq(T)
           /\ Len(FlattenSeq(seqs)) = off[Len(seqs)]
           /\ Placed(FlattenSeq(seqs), off, seqs)
<1> DEFINE n == Len(seqs)
<1>1. /\ n \in Nat /\ \A k \in 1..n : seqs[k] \in Seq(T)
      /\ off \in [0..n -> Nat] /\ off[0] = 0
      /\ \A k \in 1..n : off[k] = off[k - 1] + Len(seqs[k])
  BY DEF Offsets
<1>2. PICK f \in [Nat -> Seq(T)] :
        /\ f[0] = << >>
        /\ \A k \in 1..n : f[k] = f[k - 1] \o seqs[k]
        /\ FlattenSeq(seqs) = f[n]
  BY FlattenSteps
<1> HIDE DEF n
<1> DEFINE At(m, k, j) == /\ off[k - 1] + j \in 1..off[m]
                          /\ f[m][off[k - 1] + j] = seqs[k][j]
           Fits(m) == /\ Len(f[m]) = off[m]
                      /\ \A k \in 1..m : \A j \in 1..Len(seqs[k]) : At(m, k, j)
           S == {m \in Nat : m <= n => Fits(m)}
<1>3. 0 \in S
  <2>1. 1..0 = {}
    OBVIOUS
  <2> QED
    BY <1>1, <1>2, <2>1
<1> HIDE DEF Fits
<1>4. ASSUME NEW m \in Nat, m \in S
      PROVE  m + 1 \in S
  <2> SUFFICES ASSUME m + 1 <= n PROVE Fits(m + 1)
    OBVIOUS
  <2> DEFINE l == m + 1
             a == f[m]
             b == seqs[l]
             from == off[m]
             to == off[l]
  <2>1. l \in 1..n /\ l \in Nat /\ l - 1 = m /\ m \in 0..n /\ l \in 0..n
    BY <1>1
  <2>2. Fits(m)
    BY <1>1, <1>4
  <2>3. f[l] = a \o b /\ to = from + Len(b)
    BY <1>1, <1>2, <2>1
  <2>4. a \in Seq(T) /\ b \in Seq(T)
    BY <1>1, <1>2, <2>1
  <2>5. from \in Nat /\ to \in Nat
    BY <1>1, <2>1
  <2> HIDE DEF l, a, b, from, to
  <2>6. Len(a) = from
    BY <2>2 DEF Fits, a, from
  <2>7. /\ Len(b) \in Nat /\ Len(f[l]) = to
        /\ \A i \in 1..from : f[l][i] = a[i]
        /\ \A j \in 1..Len(b) : f[l][from + j] = b[j]
    <3> DEFINE c == a \o b
    <3>1. /\ Len(b) \in Nat /\ Len(c) = Len(a) + Len(b)
          /\ \A i \in 1..Len(a) : c[i] = a[i]
          /\ \A j \in 1..Len(b) : c[Len(a) + j] = b[j]
      BY <2>4, Joined
    <3> HIDE DEF c
    <3>2. f[l] = c
      BY <2>3 DEF c
    <3>3. to = from + Len(b)
      BY <2>3
    <3> QED
      BY <2>6, <3>1, <3>2, <3>3, Zenon
  <2> DEFINE more == Len(b)
  <2>8. to = from + more /\ more \in Nat
    BY <2>3, <2>7
  <2> HIDE DEF more
  <2>9. /\ \A p \in 1..from : p \in 1..to
        /\ \A j \in 1..more : from + j \in 1..to
    BY <2>5, <2>8
  <2>10. ASSUME NEW k \in 1..l, NEW j \in 1..Len(seqs[k])
         PROVE  At(l, k, j)
    <3>1. CASE k = l
      <4>1. off[k - 1] = from /\ seqs[k] = b
        BY <2>1, <3>1 DEF from, b
      <4>2. j \in 1..more
        BY <4>1 DEF more
      <4> QED
        BY <2>7, <2>9, <4>1, <4>2 DEF more, to
    <3>2. CASE k # l
      <4>1. k \in 1..m
        BY <3>2 DEF l
      <4>2. At(m, k, j)
        BY <2>2, <4>1 DEF Fits
      <4> DEFINE p == off[k - 1] + j
      <4>3. p \in 1..from /\ a[p] = seqs[k][j]
        BY <4>2 DEF from, a
      <4> HIDE DEF p
      <4>4. p \in 1..to /\ f[l][p] = a[p]
        BY <2>7, <2>9, <4>3
      <4> QED
        BY <4>3, <4>4 DEF p, to
    <3> QED
      BY <3>1, <3>2
  <2> QED
    BY <2>7, <2>10 DEF Fits, l, to
<1>5. Fits(n)
  <2>1. Nat \subseteq S
    <3> HIDE DEF S
    <3> QED
      BY <1>3, <1>4, Induction
  <2> QED
    BY <1>1, <2>1
<1>6. f[n] \in Seq(T)
  BY <1>1, <1>2
<1> QED
  BY <1>2, <1>5, <1>6 DEF Placed, Fits, n

\* Every sequence of sequences has its offsets.
LEMMA OffsetsExist ==
    ASSUME NEW T, NEW seqs \in Seq(Seq(T))
    PROVE  \E off : Offsets(off, seqs)
<1> DEFINE n == Len(seqs)
<1>1. PICK f \in [Nat -> Seq(T)] :
        /\ f[0] = << >>
        /\ \A k \in 1..n : f[k] = f[k - 1] \o seqs[k]
  BY FlattenSteps
<1> DEFINE off == [k \in 0..n |-> Len(f[k])]
<1>2. n \in Nat /\ \A k \in 1..n : seqs[k] \in Seq(T)
  OBVIOUS
<1>3. off \in [0..n -> Nat] /\ off[0] = 0
  BY <1>1, <1>2
<1>4. ASSUME NEW k \in 1..n
      PROVE  off[k] = off[k - 1] + Len(seqs[k])
  <2>1. k - 1 \in 0..n /\ k \in 0..n /\ k - 1 \in Nat
    BY <1>2
  <2>2. f[k] = f[k - 1] \o seqs[k] /\ f[k - 1] \in Seq(T) /\ seqs[k] \in Seq(T)
    BY <1>1, <1>2, <2>1
  <2>3. Len(f[k - 1] \o seqs[k]) = Len(f[k - 1]) + Len(seqs[k])
    BY <2>2
  <2> QED
    BY <2>1, <2>2, <2>3
<1> HIDE DEF off
<1> QED
  BY <1>3, <1>4 DEF Offsets

\* Every place up to the last offset belongs to one element.
LEMMA EveryPlace ==
    ASSUME NEW n \in Nat, NEW off \in [0..n -> Nat], off[0] = 0,
           NEW p \in 1..off[n]
    PROVE  \E k \in 1..n : off[k - 1] < p /\ p <= off[k]
<1> SUFFICES ASSUME \A k \in 1..n : ~(off[k - 1] < p /\ p <= off[k])
             PROVE  FALSE
  OBVIOUS
<1> DEFINE S == {m \in Nat : m <= n => off[m] < p}
<1>1. 0 \in S
  OBVIOUS
<1>2. ASSUME NEW m \in Nat, m \in S
      PROVE  m + 1 \in S
  <2> SUFFICES ASSUME m + 1 <= n PROVE off[m + 1] < p
    OBVIOUS
  <2>1. m + 1 \in 1..n /\ (m + 1) - 1 = m /\ m \in 0..n /\ m + 1 \in 0..n
    OBVIOUS
  <2>2. off[m] < p /\ off[m] \in Nat /\ off[m + 1] \in Nat
    BY <1>2, <2>1
  <2> QED
    BY <2>1, <2>2
<1>3. n \in S
  <2> HIDE DEF S
  <2> QED
    BY <1>1, <1>2, Induction
<1> QED
  BY <1>3

\* The offsets rise.
LEMMA OffsetsRise ==
    ASSUME NEW n \in Nat, NEW off \in [0..n -> Nat],
           \A k \in 1..n : off[k - 1] <= off[k],
           NEW i \in 0..n, NEW j \in 0..n, i <= j
    PROVE  off[i] <= off[j]
<1> DEFINE S == {m \in Nat : i + m <= n => off[i] <= off[i + m]}
<1>1. 0 \in S
  OBVIOUS
<1>2. ASSUME NEW m \in Nat, m \in S
      PROVE  m + 1 \in S
  <2> SUFFICES ASSUME i + (m + 1) <= n PROVE off[i] <= off[i + (m + 1)]
    OBVIOUS
  <2> DEFINE k == i + (m + 1)
  <2>1. k \in 1..n /\ k - 1 = i + m /\ i + m \in 0..n /\ k \in 0..n
    OBVIOUS
  <2>2. off[i] <= off[k - 1]
    BY <1>2, <2>1
  <2>3. off[k - 1] <= off[k] /\ off[k - 1] \in Nat /\ off[k] \in Nat /\ off[i] \in Nat
    BY <2>1
  <2> HIDE DEF k
  <2>4. off[i] <= off[k]
    BY <2>2, <2>3
  <2> QED
    BY <2>4 DEF k
<1>3. j - i \in S
  <2> HIDE DEF S
  <2>1. j - i \in Nat
    OBVIOUS
  <2> QED
    BY <1>1, <1>2, <2>1, Induction
<1>4. i + (j - i) = j
  OBVIOUS
<1> QED
  BY <1>3, <1>4

(***************************************************************************)
(* fold_t.                                                                 *)
(***************************************************************************)
\* The greatest number of a set that reaches so far and no further
LEMMA GreatestIsMax ==
    ASSUME NEW k \in Nat, NEW s \in SUBSET (1..k), k \in s
    PROVE  Max(s) = k
<1>1. \A y \in s : k >= y
  OBVIOUS
<1>2. \A x \in s : (\A y \in s : x >= y) => x = k
  OBVIOUS
<1> QED
  BY <1>1, <1>2 DEF Max

\* g folds every set of places up to k, the last place last.
FoldsSets(g, k, F, init, pack) ==
    g = [s \in SUBSET (1..k) |->
           IF s = {} THEN init ELSE F[<<g[s \ {Max(s)}], pack[Max(s)]>>]]

LEMMA FoldsSetsExist ==
    ASSUME NEW F, NEW init, NEW pack
    PROVE  \A k \in Nat : \E g : FoldsSets(g, k, F, init, pack)
<1> DEFINE S == {k \in Nat : \E g : FoldsSets(g, k, F, init, pack)}
<1>1. 0 \in S
  <2> DEFINE g == [s \in SUBSET (1..0) |-> init]
  <2>1. \A s \in SUBSET (1..0) : s = {}
    OBVIOUS
  <2>2. FoldsSets(g, 0, F, init, pack)
    BY <2>1 DEF FoldsSets
  <2> QED
    BY <2>2
<1>2. ASSUME NEW k \in Nat, k \in S
      PROVE  k + 1 \in S
  <2>1. PICK g : FoldsSets(g, k, F, init, pack)
    BY <1>2
  <2> DEFINE l == k + 1
             h == [s \in SUBSET (1..l) |->
                     IF l \in s THEN F[<<g[s \ {l}], pack[l]>>] ELSE g[s]]
  <2>2. /\ \A s \in SUBSET (1..k) : s \in SUBSET (1..l) /\ l \notin s
        /\ \A s \in SUBSET (1..l) : l \notin s => s \in SUBSET (1..k)
        /\ \A s \in SUBSET (1..l) : s \ {l} \in SUBSET (1..k)
    OBVIOUS
  <2>3. l \in Nat
    OBVIOUS
  <2> HIDE DEF l
  <2>4. \A s \in SUBSET (1..k) : h[s] = g[s]
    BY <2>2
  <2>5. ASSUME NEW s \in SUBSET (1..l)
        PROVE  h[s] = IF s = {} THEN init ELSE F[<<h[s \ {Max(s)}], pack[Max(s)]>>]
    <3>1. CASE l \in s
      <4>1. Max(s) = l /\ s # {}
        BY <2>3, <3>1, GreatestIsMax
      <4>2. h[s] = F[<<g[s \ {l}], pack[l]>>]
        BY <3>1
      <4>3. h[s \ {l}] = g[s \ {l}]
        BY <2>2, <2>4
      <4> HIDE DEF h
      <4> QED
        BY <4>1, <4>2, <4>3
    <3>2. CASE l \notin s
      <4>1. s \in SUBSET (1..k)
        BY <2>2, <3>2
      <4>2. h[s] = g[s]
        BY <2>4, <4>1
      <4> HIDE DEF h
      <4>3. g[s] = IF s = {} THEN init ELSE F[<<g[s \ {Max(s)}], pack[Max(s)]>>]
        BY <2>1, <4>1, Zenon DEF FoldsSets
      <4>4. s \ {Max(s)} \in SUBSET (1..k)
        BY <4>1
      <4>5. h[s \ {Max(s)}] = g[s \ {Max(s)}]
        BY <2>4, <4>4
      <4> QED
        BY <4>2, <4>3, <4>5
    <3> QED
      BY <3>1, <3>2
  <2>6. FoldsSets(h, l, F, init, pack)
    <3>1. h = [s \in SUBSET (1..l) |-> h[s]]
      OBVIOUS
    <3> HIDE DEF h
    <3> QED
      BY <2>5, <3>1, Zenon DEF FoldsSets
  <2> HIDE DEF h
  <2> QED
    BY <2>3, <2>6 DEF l
<1>3. Nat \subseteq S
  <2> HIDE DEF S
  <2> QED
    BY <1>1, <1>2, Induction
<1> QED
  BY <1>3

\* f[i] is the fold of the first i types of a pack of n.
Folds(f, D, F, init, pack, n) ==
    /\ f \in [Nat -> D]
    /\ f[0] = init
    /\ \A i \in Nat : i + 1 \in 1..n => f[i + 1] = F[<<f[i], pack[i + 1]>>]
    /\ fold_t(F, init, pack) = f[n]

\* A pack is folded one type after the other.
LEMMA FoldSteps ==
    ASSUME NEW D, NEW F, NEW init \in D, NEW n \in Nat, NEW pack,
           DOMAIN pack = 1..n,
           \A x \in D : \A i \in 1..n : F[<<x, pack[i]>>] \in D
    PROVE  \E f : Folds(f, D, F, init, pack, n)
<1> DEFINE step == [i \in Nat |-> [x \in D |->
                      IF i + 1 \in 1..n THEN F[<<x, pack[i + 1]>>] ELSE x]]
<1>1. step \in [Nat -> [D -> D]]
  OBVIOUS
<1>2. \A i \in Nat, x \in D :
        i + 1 \in 1..n => step[i][x] = F[<<x, pack[i + 1]>>]
  OBVIOUS
<1> HIDE DEF step
<1>3. PICK f : Iterates(f, D, init, step)
  BY <1>1, Recursion
<1>4. f \in [Nat -> D] /\ f[0] = init
  BY <1>3 DEF Iterates
<1>5. ASSUME NEW i \in Nat, i + 1 \in 1..n
      PROVE  f[i + 1] = F[<<f[i], pack[i + 1]>>]
  <2>1. f[i + 1] = step[i][f[i]]
    BY <1>3 DEF Iterates
  <2>2. step[i][f[i]] = F[<<f[i], pack[i + 1]>>]
    BY <1>2, <1>4, <1>5
  <2> QED
    BY <2>1, <2>2
<1> DEFINE iter == CHOOSE g : FoldsSets(g, n, F, init, pack)
<1>6. FoldsSets(iter, n, F, init, pack)
  BY FoldsSetsExist
<1>7. fold_t(F, init, pack) = iter[1..n]
  BY DEF fold_t, FoldLeft, MapThenFoldSet, FoldsSets
<1> HIDE DEF iter
<1>8. iter[1..n] = f[n]
  <2> DEFINE S == {k \in Nat : k <= n => iter[1..k] = f[k]}
  <2>1. 0 \in S
    <3>1. 1..0 = {} /\ 1..0 \in SUBSET (1..n)
      OBVIOUS
    <3>2. iter[1..0] = init
      BY <1>6, <3>1, Zenon DEF FoldsSets
    <3> QED
      BY <1>4, <3>2
  <2>2. ASSUME NEW k \in Nat, k \in S
        PROVE  k + 1 \in S
    <3> SUFFICES ASSUME k + 1 <= n PROVE iter[1..(k + 1)] = f[k + 1]
      OBVIOUS
    <3> DEFINE s == 1..(k + 1)
    <3>1. /\ s \in SUBSET (1..n) /\ s \in SUBSET (1..(k + 1)) /\ s # {}
          /\ k + 1 \in s /\ s \ {k + 1} = 1..k /\ k + 1 \in 1..n
      OBVIOUS
    <3> HIDE DEF s
    <3>2. Max(s) = k + 1
      BY <3>1, GreatestIsMax
    <3>3. iter[s] = F[<<iter[s \ {Max(s)}], pack[Max(s)]>>]
      BY <1>6, <3>1, Zenon DEF FoldsSets
    <3>4. iter[1..k] = f[k]
      BY <2>2
    <3>5. iter[s \ {Max(s)}] = f[k]
      BY <3>1, <3>2, <3>4
    <3>6. iter[s] = F[<<f[k], pack[k + 1]>>]
      BY <3>2, <3>3, <3>5
    <3> QED
      BY <1>5, <3>1, <3>6 DEF s
  <2>3. n \in S
    <3> HIDE DEF S
    <3> QED
      BY <2>1, <2>2, Induction
  <2> QED
    BY <2>3
<1> QED
  BY <1>4, <1>5, <1>7, <1>8 DEF Folds

\* The checks but for the first
LEMMA Rest ==
    ASSUME NEW T, NEW checks \in Seq(T), Len(checks) # 0
    PROVE  LET rest == truncate_front_t(1, checks)
               n == Len(checks) - 1
           IN /\ n \in Nat /\ DOMAIN rest = 1..n
              /\ \A i \in 1..n : rest[i] = checks[i + 1] /\ checks[i + 1] \in T
<1> DEFINE n == Len(checks) - 1
           rest == SubSeq(checks, 1 + 1, Len(checks))
<1>1. Len(checks) \in Nat /\ n \in Nat /\ 1 + 1 = 2 /\ n + 1 = Len(checks)
  OBVIOUS
<1>2. /\ rest = [i \in 1..n |-> checks[i + 1]]
      /\ \A i \in 1..n : i + 1 \in 1..Len(checks)
  OBVIOUS
<1>3. \A i \in 1..n : checks[i + 1] \in T
  BY <1>2
<1> QED
  BY <1>1, <1>2, <1>3 DEF truncate_front_t

\* All the checks hold if the fold of their results does.
LEMMA FoldAnd ==
    ASSUME NEW checks \in Seq(BOOLEAN), Len(checks) # 0
    PROVE  LET fold == fold_t(And, index_t(0, checks), truncate_front_t(1, checks))
           IN /\ fold \in BOOLEAN
              /\ fold = TRUE <=> \A i \in 1..Len(checks) : checks[i] = TRUE
<1> DEFINE n == Len(checks) - 1
           rest == truncate_front_t(1, checks)
           first == index_t(0, checks)
<1>1. /\ n \in Nat /\ DOMAIN rest = 1..n /\ n + 1 = Len(checks)
      /\ \A i \in 1..n : rest[i] = checks[i + 1] /\ checks[i + 1] \in BOOLEAN
  BY Rest
<1>2. first = checks[1] /\ first \in BOOLEAN
  BY <1>1 DEF index_t
<1> HIDE DEF rest, first, n
<1>3. \A x, y \in BOOLEAN : /\ And[<<x, y>>] \in BOOLEAN
                            /\ And[<<x, y>>] = TRUE <=> x = TRUE /\ y = TRUE
  BY DEF And
<1>4. PICK f : Folds(f, BOOLEAN, And, first, rest, n)
  <2>1. \A x \in BOOLEAN : \A i \in 1..n : And[<<x, rest[i]>>] \in BOOLEAN
    BY <1>1, <1>3
  <2> QED
    BY <1>1, <1>2, <2>1, FoldSteps
<1>5. /\ f \in [Nat -> BOOLEAN] /\ f[0] = first /\ fold_t(And, first, rest) = f[n]
      /\ \A i \in Nat : i + 1 \in 1..n => f[i + 1] = And[<<f[i], rest[i + 1]>>]
  BY <1>4 DEF Folds
<1> DEFINE All(m) == \A i \in 1..m : checks[i] = TRUE
           Agrees(k) == f[k] = TRUE <=> All(k + 1)
           S == {k \in Nat : k <= n => Agrees(k)}
<1>6. 0 \in S
  <2>1. \A i \in 1..(0 + 1) : i = 1
    OBVIOUS
  <2>2. 1 \in 1..(0 + 1)
    OBVIOUS
  <2>3. Agrees(0)
    BY <1>2, <1>5, <2>1, <2>2
  <2> HIDE DEF Agrees
  <2> QED
    BY <2>3
<1>7. ASSUME NEW k \in Nat, k \in S
      PROVE  k + 1 \in S
  <2> HIDE DEF Agrees
  <2> SUFFICES ASSUME k + 1 <= n PROVE Agrees(k + 1)
    OBVIOUS
  <2>1. k + 1 \in 1..n /\ k <= n /\ (k + 1) + 1 \in 1..((k + 1) + 1)
    BY <1>1
  <2>2. All((k + 1) + 1) <=> All(k + 1) /\ checks[(k + 1) + 1] = TRUE
    <3>1. /\ \A i \in 1..((k + 1) + 1) : i \in 1..(k + 1) \/ i = (k + 1) + 1
          /\ \A i \in 1..(k + 1) : i \in 1..((k + 1) + 1)
      OBVIOUS
    <3> QED
      BY <2>1, <3>1
  <2>3. f[k] = TRUE <=> All(k + 1)
    BY <1>7, <2>1 DEF Agrees
  <2> HIDE DEF All
  <2>4. rest[k + 1] = checks[(k + 1) + 1] /\ rest[k + 1] \in BOOLEAN
    BY <1>1, <2>1
  <2>5. f[k + 1] = And[<<f[k], rest[k + 1]>>] /\ f[k] \in BOOLEAN
    BY <1>5, <2>1
  <2>6. f[k + 1] = TRUE <=> f[k] = TRUE /\ rest[k + 1] = TRUE
    BY <1>3, <2>4, <2>5
  <2> QED
    BY <2>2, <2>3, <2>4, <2>6 DEF Agrees
<1>8. n \in S
  <2> HIDE DEF S
  <2>1. Nat \subseteq S
    BY <1>6, <1>7, Induction
  <2> QED
    BY <1>1, <2>1
<1>9. f[n] = TRUE <=> \A i \in 1..(n + 1) : checks[i] = TRUE
  BY <1>1, <1>8
<1>10. f[n] \in BOOLEAN
  BY <1>1, <1>5
<1> QED
  BY <1>1, <1>5, <1>9, <1>10 DEF first, rest

\* The greatest and the least of a set, when it has them
LEMMA IsMax ==
    ASSUME NEW S \in SUBSET Nat, NEW m \in S, \A x \in S : x <= m
    PROVE  Max(S) = m
<1>1. \A x \in S : (\A y \in S : x >= y) => x = m
  OBVIOUS
<1>2. m \in S /\ \A y \in S : m >= y
  OBVIOUS
<1> QED
  BY <1>1, <1>2 DEF Max

LEMMA IsMin ==
    ASSUME NEW S \in SUBSET Nat, NEW m \in S, \A x \in S : x >= m
    PROVE  Min(S) = m
<1>1. \A x \in S : (\A y \in S : x =< y) => x = m
  OBVIOUS
<1>2. m \in S /\ \A y \in S : m =< y
  OBVIOUS
<1> QED
  BY <1>1, <1>2 DEF Min


\* The fold of the lengths by Longest is one of them and no less than any.
LEMMA FoldLongest ==
    ASSUME NEW lengths \in Seq(Nat), Len(lengths) # 0
    PROVE  LET fold == fold_t(Longest, index_t(0, lengths), truncate_front_t(1, lengths))
           IN /\ \E i \in 1..Len(lengths) : fold = lengths[i]
              /\ \A i \in 1..Len(lengths) : lengths[i] <= fold
<1> DEFINE n == Len(lengths) - 1
           rest == truncate_front_t(1, lengths)
           first == index_t(0, lengths)
<1>1. /\ n \in Nat /\ DOMAIN rest = 1..n /\ n + 1 = Len(lengths)
      /\ \A i \in 1..n : rest[i] = lengths[i + 1] /\ lengths[i + 1] \in Nat
  BY Rest
<1>2. first = lengths[1] /\ first \in Nat
  BY <1>1 DEF index_t
<1>3. \A i \in 1..(n + 1) : lengths[i] \in Nat
  BY <1>1
<1> HIDE DEF rest, first, n
<1>4. \A x, y \in Nat :
        LET best == Longest[<<x, y>>]
        IN best \in Nat /\ (best = x \/ best = y) /\ x <= best /\ y <= best
  <2> SUFFICES ASSUME NEW x \in Nat, NEW y \in Nat
               PROVE  LET best == Longest[<<x, y>>]
                      IN /\ best \in Nat /\ (best = x \/ best = y)
                         /\ x <= best /\ y <= best
    OBVIOUS
  <2> DEFINE pair == <<x, y>>
  <2>1. pair \in Nat \X Nat /\ pair[1] = x /\ pair[2] = y
    OBVIOUS
  <2> HIDE DEF pair
  <2>2. Longest[pair] = Max({pair[1], pair[2]})
    BY <2>1 DEF Longest
  <2>3. Longest[pair] = Max({x, y})
    BY <2>1, <2>2
  <2>4. CASE x <= y
    <3>1. Max({x, y}) = y
      BY <2>4, IsMax
    <3> QED
      BY <2>3, <2>4, <3>1 DEF pair
  <2>5. CASE y <= x
    <3>1. Max({x, y}) = x
      BY <2>5, IsMax
    <3> QED
      BY <2>3, <2>5, <3>1 DEF pair
  <2> QED
    BY <2>4, <2>5
<1>5. PICK f : Folds(f, Nat, Longest, first, rest, n)
  <2>1. \A x \in Nat : \A i \in 1..n : Longest[<<x, rest[i]>>] \in Nat
    BY <1>1, <1>4
  <2> QED
    BY <1>1, <1>2, <2>1, FoldSteps
<1>6. /\ f \in [Nat -> Nat] /\ f[0] = first /\ fold_t(Longest, first, rest) = f[n]
      /\ \A i \in Nat : i + 1 \in 1..n => f[i + 1] = Longest[<<f[i], rest[i + 1]>>]
  BY <1>5 DEF Folds
<1> DEFINE IsBest(m, best) == /\ \E i \in 1..m : best = lengths[i]
                              /\ \A i \in 1..m : lengths[i] <= best
           S == {k \in Nat : k <= n => IsBest(k + 1, f[k])}
<1>7. 0 \in S
  <2>1. \A i \in 1..(0 + 1) : i = 1
    OBVIOUS
  <2>2. 1 \in 1..(0 + 1)
    OBVIOUS
  <2>3. f[0] = lengths[1] /\ f[0] \in Nat
    BY <1>2, <1>6
  <2> DEFINE best == f[0]
  <2>4. IsBest(0 + 1, best)
    <3> HIDE DEF best
    <3>1. best = lengths[1] /\ best <= best
      BY <2>3 DEF best
    <3> QED
      BY <2>1, <2>2, <3>1
  <2> HIDE DEF IsBest
  <2> QED
    BY <2>4
<1>8. ASSUME NEW k \in Nat, k \in S
      PROVE  k + 1 \in S
  <2> HIDE DEF IsBest
  <2> SUFFICES ASSUME k + 1 <= n PROVE IsBest((k + 1) + 1, f[k + 1])
    OBVIOUS
  <2> DEFINE m == k + 1
             last == lengths[m + 1]
             so_far == f[k]
             best == f[k + 1]
  <2>1. m \in 1..n /\ k <= n /\ m + 1 \in 1..(m + 1) /\ m + 1 \in 1..(n + 1) /\ m \in Nat
    BY <1>1
  <2>2. IsBest(m, so_far)
    BY <1>8, <2>1
  <2>3. rest[m] = last /\ last \in Nat /\ so_far \in Nat
    BY <1>1, <1>6, <2>1
  <2>4. best = Longest[<<so_far, rest[m]>>]
    BY <1>6, <2>1
  <2>5. best \in Nat /\ (best = so_far \/ best = last) /\ so_far <= best /\ last <= best
    <3>1. best = Longest[<<so_far, last>>] /\ so_far \in Nat /\ last \in Nat
      BY <2>3, <2>4
    <3> HIDE DEF best, so_far, last
    <3>2. LET best_of == Longest[<<so_far, last>>]
          IN /\ best_of \in Nat /\ (best_of = so_far \/ best_of = last)
             /\ so_far <= best_of /\ last <= best_of
      BY <1>4, <3>1, Zenon
    <3> QED
      BY <3>1, <3>2, Zenon
  <2>6. /\ \A i \in 1..(m + 1) : i \in 1..m \/ i = m + 1
        /\ \A i \in 1..m : i \in 1..(m + 1) /\ i \in 1..(n + 1)
    BY <1>1, <2>1
  <2> HIDE DEF m, so_far, best
  <2>7. \A i \in 1..m : lengths[i] <= so_far /\ lengths[i] \in Nat
    BY <1>3, <2>2, <2>6 DEF IsBest
  <2>8. \A i \in 1..m : lengths[i] <= best
    <3>1. \A x, y, z \in Nat : x <= y /\ y <= z => x <= z
      OBVIOUS
    <3> QED
      BY <2>3, <2>5, <2>7, <3>1
  <2>9. \E i \in 1..(m + 1) : best = lengths[i]
    <3>1. CASE best = so_far
      BY <2>2, <2>6, <3>1 DEF IsBest
    <3>2. CASE best = last
      BY <2>1, <3>2
    <3> QED
      BY <2>5, <3>1, <3>2
  <2> QED
    BY <2>5, <2>6, <2>8, <2>9 DEF IsBest, m, best
<1>9. n \in S
  <2> HIDE DEF S
  <2>1. Nat \subseteq S
    BY <1>7, <1>8, Induction
  <2> QED
    BY <1>1, <2>1
<1>10. IsBest(n + 1, f[n])
  <2> HIDE DEF IsBest
  <2> QED
    BY <1>1, <1>9
<1> QED
  BY <1>1, <1>6, <1>10 DEF first, rest

\* The fold of the lengths by Shortest is one of them and no more than any.
LEMMA FoldShortest ==
    ASSUME NEW lengths \in Seq(Nat), Len(lengths) # 0
    PROVE  LET fold == fold_t(Shortest, index_t(0, lengths), truncate_front_t(1, lengths))
           IN /\ \E i \in 1..Len(lengths) : fold = lengths[i]
              /\ \A i \in 1..Len(lengths) : lengths[i] >= fold
<1> DEFINE n == Len(lengths) - 1
           rest == truncate_front_t(1, lengths)
           first == index_t(0, lengths)
<1>1. /\ n \in Nat /\ DOMAIN rest = 1..n /\ n + 1 = Len(lengths)
      /\ \A i \in 1..n : rest[i] = lengths[i + 1] /\ lengths[i + 1] \in Nat
  BY Rest
<1>2. first = lengths[1] /\ first \in Nat
  BY <1>1 DEF index_t
<1>3. \A i \in 1..(n + 1) : lengths[i] \in Nat
  BY <1>1
<1> HIDE DEF rest, first, n
<1>4. \A x, y \in Nat :
        LET best == Shortest[<<x, y>>]
        IN best \in Nat /\ (best = x \/ best = y) /\ x >= best /\ y >= best
  <2> SUFFICES ASSUME NEW x \in Nat, NEW y \in Nat
               PROVE  LET best == Shortest[<<x, y>>]
                      IN /\ best \in Nat /\ (best = x \/ best = y)
                         /\ x >= best /\ y >= best
    OBVIOUS
  <2> DEFINE pair == <<x, y>>
  <2>1. pair \in Nat \X Nat /\ pair[1] = x /\ pair[2] = y
    OBVIOUS
  <2> HIDE DEF pair
  <2>2. Shortest[pair] = Min({pair[1], pair[2]})
    BY <2>1 DEF Shortest
  <2>3. Shortest[pair] = Min({x, y})
    BY <2>1, <2>2
  <2>4. CASE x >= y
    <3>1. Min({x, y}) = y
      BY <2>4, IsMin
    <3> QED
      BY <2>3, <2>4, <3>1 DEF pair
  <2>5. CASE y >= x
    <3>1. Min({x, y}) = x
      BY <2>5, IsMin
    <3> QED
      BY <2>3, <2>5, <3>1 DEF pair
  <2> QED
    BY <2>4, <2>5
<1>5. PICK f : Folds(f, Nat, Shortest, first, rest, n)
  <2>1. \A x \in Nat : \A i \in 1..n : Shortest[<<x, rest[i]>>] \in Nat
    BY <1>1, <1>4
  <2> QED
    BY <1>1, <1>2, <2>1, FoldSteps
<1>6. /\ f \in [Nat -> Nat] /\ f[0] = first /\ fold_t(Shortest, first, rest) = f[n]
      /\ \A i \in Nat : i + 1 \in 1..n => f[i + 1] = Shortest[<<f[i], rest[i + 1]>>]
  BY <1>5 DEF Folds
<1> DEFINE IsBest(m, best) == /\ \E i \in 1..m : best = lengths[i]
                              /\ \A i \in 1..m : lengths[i] >= best
           S == {k \in Nat : k <= n => IsBest(k + 1, f[k])}
<1>7. 0 \in S
  <2>1. \A i \in 1..(0 + 1) : i = 1
    OBVIOUS
  <2>2. 1 \in 1..(0 + 1)
    OBVIOUS
  <2>3. f[0] = lengths[1] /\ f[0] \in Nat
    BY <1>2, <1>6
  <2> DEFINE best == f[0]
  <2>4. IsBest(0 + 1, best)
    <3> HIDE DEF best
    <3>1. best = lengths[1] /\ best >= best
      BY <2>3 DEF best
    <3> QED
      BY <2>1, <2>2, <3>1
  <2> HIDE DEF IsBest
  <2> QED
    BY <2>4
<1>8. ASSUME NEW k \in Nat, k \in S
      PROVE  k + 1 \in S
  <2> HIDE DEF IsBest
  <2> SUFFICES ASSUME k + 1 <= n PROVE IsBest((k + 1) + 1, f[k + 1])
    OBVIOUS
  <2> DEFINE m == k + 1
             last == lengths[m + 1]
             so_far == f[k]
             best == f[k + 1]
  <2>1. m \in 1..n /\ k <= n /\ m + 1 \in 1..(m + 1) /\ m + 1 \in 1..(n + 1) /\ m \in Nat
    BY <1>1
  <2>2. IsBest(m, so_far)
    BY <1>8, <2>1
  <2>3. rest[m] = last /\ last \in Nat /\ so_far \in Nat
    BY <1>1, <1>6, <2>1
  <2>4. best = Shortest[<<so_far, rest[m]>>]
    BY <1>6, <2>1
  <2>5. best \in Nat /\ (best = so_far \/ best = last) /\ so_far >= best /\ last >= best
    <3>1. best = Shortest[<<so_far, last>>] /\ so_far \in Nat /\ last \in Nat
      BY <2>3, <2>4
    <3> HIDE DEF best, so_far, last
    <3>2. LET best_of == Shortest[<<so_far, last>>]
          IN /\ best_of \in Nat /\ (best_of = so_far \/ best_of = last)
             /\ so_far >= best_of /\ last >= best_of
      BY <1>4, <3>1, Zenon
    <3> QED
      BY <3>1, <3>2, Zenon
  <2>6. /\ \A i \in 1..(m + 1) : i \in 1..m \/ i = m + 1
        /\ \A i \in 1..m : i \in 1..(m + 1) /\ i \in 1..(n + 1)
    BY <1>1, <2>1
  <2> HIDE DEF m, so_far, best
  <2>7. \A i \in 1..m : lengths[i] >= so_far /\ lengths[i] \in Nat
    BY <1>3, <2>2, <2>6 DEF IsBest
  <2>8. \A i \in 1..m : lengths[i] >= best
    <3>1. \A x, y, z \in Nat : x >= y /\ y >= z => x >= z
      OBVIOUS
    <3> QED
      BY <2>3, <2>5, <2>7, <3>1
  <2>9. \E i \in 1..(m + 1) : best = lengths[i]
    <3>1. CASE best = so_far
      BY <2>2, <2>6, <3>1 DEF IsBest
    <3>2. CASE best = last
      BY <2>1, <3>2
    <3> QED
      BY <2>5, <3>1, <3>2
  <2> QED
    BY <2>5, <2>6, <2>8, <2>9 DEF IsBest, m, best
<1>9. n \in S
  <2> HIDE DEF S
  <2>1. Nat \subseteq S
    BY <1>7, <1>8, Induction
  <2> QED
    BY <1>1, <2>1
<1>10. IsBest(n + 1, f[n])
  <2> HIDE DEF IsBest
  <2> QED
    BY <1>1, <1>9
<1> QED
  BY <1>1, <1>6, <1>10 DEF first, rest

(***************************************************************************)
(* The groups of types that a check is applied to.                         *)
(***************************************************************************)
LEMMA Elements ==
    ASSUME NEW T, NEW seq \in Seq(T)
    PROVE  \A k \in 1..Len(seq) : seq[k] \in T
OBVIOUS

\* The sequence of one sequence is flattened to it.
LEMMA FlattenOne ==
    ASSUME NEW T, NEW seqs \in Seq(Seq(T)), Len(seqs) = 1
    PROVE  FlattenSeq(seqs) = seqs[1]
<1> DEFINE one == seqs[1]
<1>1. PICK f \in [Nat -> Seq(T)] :
        /\ f[0] = << >>
        /\ \A k \in 1..Len(seqs) : f[k] = f[k - 1] \o seqs[k]
        /\ FlattenSeq(seqs) = f[Len(seqs)]
  BY FlattenSteps
<1>2. 1 \in 1..Len(seqs) /\ one \in Seq(T)
  <2>1. \A k \in 1..Len(seqs) : seqs[k] \in Seq(T)
    BY Elements
  <2>2. 1 \in 1..Len(seqs)
    OBVIOUS
  <2> QED
    BY <2>1, <2>2
<1>3. PICK k \in 1..Len(seqs) : k = 1
  BY <1>2
<1>4. f[k] = f[k - 1] \o seqs[k] /\ k - 1 = 0
  BY <1>1, <1>3
<1>5. f[1] = << >> \o one
  BY <1>1, <1>3, <1>4
<1> HIDE DEF one
<1>6. << >> \o one = one
  BY <1>2
<1> QED
  BY <1>1, <1>5, <1>6 DEF one

LEMMA OneElement ==
    ASSUME NEW T, NEW x \in T
    PROVE  LET one == [k \in 1..1 |-> x]
           IN one \in Seq(T) /\ Len(one) = 1 /\ one[1] = x
OBVIOUS

\* Groups of one are taken from the row of all indices.
LEMMA IndicesOfOne ==
    ASSUME NEW n \in Nat
    PROVE  non_rep_index_combinations(n, 1) = [i \in 1..n |-> i - 1]
<1> DEFINE row == [i \in 1..n |-> i - 1]
           rows == Cohort(n, n, 1)
           cohorts == [k \in 1..1 |-> Cohort(n, n, 2 - k)]
<1>1. row \in Seq(0..(n - 1)) /\ row \in Seq(Nat)
  OBVIOUS
<1>2. rows = [k \in 1..1 |-> row]
  <2>1. ASSUME NEW k \in 1..1
        PROVE  [i \in 1..n |-> calc_index(n, n, 1, i - 1) + (IF i = n THEN k - 1 ELSE 0)]
                 = row
    <3>1. \A i \in 1..n : calc_index(n, n, 1, i - 1) + (IF i = n THEN k - 1 ELSE 0) = i - 1
      BY DEF calc_index
    <3> QED
      BY <3>1
  <2>2. Rows(n, n, 1) = 1..1
    BY DEF Rows
  <2> HIDE DEF row
  <2> QED
    BY <2>1, <2>2 DEF Cohort
<1> HIDE DEF row
<1>3. rows \in Seq(Seq(Nat)) /\ Len(rows) = 1 /\ rows[1] = row
  BY <1>1, <1>2, OneElement
<1>4. cohorts \in Seq(Seq(Seq(Nat))) /\ Len(cohorts) = 1 /\ cohorts[1] = rows
  <2>1. \A k \in 1..1 : Cohort(n, n, 2 - k) = rows
    <3>1. \A k \in 1..1 : 2 - k = 1
      OBVIOUS
    <3> QED
      BY <3>1
  <2> HIDE DEF rows
  <2>2. cohorts = [k \in 1..1 |-> rows]
    BY <2>1
  <2> QED
    BY <1>3, <2>2, OneElement
<1>5. non_rep_index_combinations(n, 1) = FlattenSeq(FlattenSeq(cohorts))
  <2>1. n - n + 1 = 1 /\ 1 + 1 = 2
    OBVIOUS
  <2> QED
    BY <2>1 DEF non_rep_index_combinations
<1> HIDE DEF cohorts, rows
<1>6. FlattenSeq(cohorts) = rows
  BY <1>4, FlattenOne
<1>7. FlattenSeq(rows) = row
  BY <1>3, FlattenOne
<1> QED
  BY <1>5, <1>6, <1>7 DEF row

\* The groups of one are the types, one after the other.
LEMMA GroupsOfOne ==
    ASSUME NEW T, NEW pack \in Seq(T)
    PROVE  LET groups == nr_combs(pack, 1)
           IN /\ DOMAIN groups = 1..Len(pack) /\ Len(groups) = Len(pack)
              /\ \A g \in 1..Len(pack) : groups[g] = [i \in 1..1 |-> pack[g]]
<1> DEFINE n == Len(pack)
           indices == non_rep_index_combinations(n, 1)
           groups == nr_combs(pack, 1)
<1>1. n \in Nat
  OBVIOUS
<1> HIDE DEF n
<1>2. indices = [i \in 1..n |-> i - 1]
  BY <1>1, IndicesOfOne
<1> HIDE DEF indices
<1>3. Len(indices) = n /\ n \div 1 = n
  BY <1>1, <1>2
<1>4. groups = [g \in 1..n |-> [i \in 1..1 |-> index_t(indices[(g - 1) * 1 + i], pack)]]
  BY <1>3 DEF nr_combs, split_t, n, indices
<1>5. ASSUME NEW g \in 1..n
      PROVE  groups[g] = [i \in 1..1 |-> pack[g]]
  <2>1. \A i \in 1..1 : (g - 1) * 1 + i = g
    OBVIOUS
  <2>2. indices[g] + 1 = g
    BY <1>1, <1>2
  <2>3. \A i \in 1..1 : index_t(indices[(g - 1) * 1 + i], pack) = pack[g]
    BY <2>1, <2>2 DEF index_t
  <2> HIDE DEF groups
  <2> QED
    BY <1>4, <2>3
<1>6. DOMAIN groups = 1..n /\ Len(groups) = n
  <2> DEFINE group(g) == [i \in 1..1 |-> index_t(indices[(g - 1) * 1 + i], pack)]
  <2>1. groups = [g \in 1..n |-> group(g)]
    BY <1>4
  <2> HIDE DEF group, groups
  <2> QED
    BY <1>1, <2>1
<1> QED
  BY <1>5, <1>6 DEF n

\* Sequences of two elements each are flattened two by two.
LEMMA FlattenTwos ==
    ASSUME NEW T, NEW seqs \in Seq(Seq(T)),
           \A k \in 1..Len(seqs) : Len(seqs[k]) = 2
    PROVE  LET flat == FlattenSeq(seqs)
           IN /\ flat \in Seq(T) /\ Len(flat) = 2 * Len(seqs)
              /\ \A k \in 1..Len(seqs) : \A i \in 1..2 :
                    flat[(k - 1) * 2 + i] = seqs[k][i]
<1> DEFINE n == Len(seqs)
           off == [k \in 0..n |-> 2 * k]
<1>1. n \in Nat
  OBVIOUS
<1>2. \A k \in 1..n : Len(seqs[k]) = 2
  OBVIOUS
<1> HIDE DEF n
<1>3. off \in [0..n -> Nat] /\ off[0] = 0 /\ off[n] = 2 * n
  BY <1>1
<1>4. \A k \in 1..n : off[k] = off[k - 1] + 2 /\ off[k - 1] = (k - 1) * 2
  BY <1>1
<1> HIDE DEF off
<1>5. Offsets(off, seqs)
  BY <1>2, <1>3, <1>4 DEF Offsets, n
<1>6. /\ FlattenSeq(seqs) \in Seq(T) /\ Len(FlattenSeq(seqs)) = off[n]
      /\ Placed(FlattenSeq(seqs), off, seqs)
  BY <1>5, FlattenPlaces DEF n
<1>7. \A k \in 1..n : \A i \in 1..2 : FlattenSeq(seqs)[off[k - 1] + i] = seqs[k][i]
  BY <1>2, <1>6 DEF Placed, n
<1> QED
  BY <1>3, <1>4, <1>6, <1>7 DEF n

Pair(a, b) == [i \in 1..2 |-> IF i = 1 THEN a ELSE b]

LEMMA PairTypes ==
    ASSUME NEW T, NEW a \in T, NEW b \in T
    PROVE  /\ Pair(a, b) \in Seq(T) /\ Len(Pair(a, b)) = 2
           /\ Pair(a, b)[1] = a /\ Pair(a, b)[2] = b
BY DEF Pair

LEMMA PairLength ==
    ASSUME NEW a, NEW b
    PROVE  Len(Pair(a, b)) = 2
BY DEF Pair

LEMMA ManyElements ==
    ASSUME NEW T, NEW n \in Nat, NEW f, \A i \in 1..n : f[i] \in T,
           f = [i \in 1..n |-> f[i]]
    PROVE  f \in Seq(T) /\ Len(f) = n
OBVIOUS

\* A cohort of pairs has one first index; the second one runs.
LEMMA CohortOfTwo ==
    ASSUME NEW n \in Nat, NEW k \in 1..(n - 1)
    PROVE  LET rows == Cohort(n, 2, n - k)
           IN /\ rows \in Seq(Seq(0..(n - 1))) /\ Len(rows) = n - k
              /\ \A j \in 1..(n - k) : rows[j] = Pair(k - 1, k - 1 + j)
<1> DEFINE l == n - k
           row(j) == [i \in 1..2 |-> calc_index(n, 2, l, i - 1)
                                       + (IF i = 2 THEN j - 1 ELSE 0)]
           rows == [j \in 1..l |-> row(j)]
<1>1. l \in Nat /\ n - l = k
  OBVIOUS
<1>2. Cohort(n, 2, l) = rows
  BY DEF Cohort, Rows
<1>3. ASSUME NEW j \in 1..l
      PROVE  row(j) = Pair(k - 1, k - 1 + j)
  <2>1. \A i \in 1..2 : calc_index(n, 2, l, i - 1) + (IF i = 2 THEN j - 1 ELSE 0)
                          = IF i = 1 THEN k - 1 ELSE k - 1 + j
    BY DEF calc_index
  <2> QED
    BY <2>1 DEF Pair
<1>4. ASSUME NEW j \in 1..l
      PROVE  k - 1 \in 0..(n - 1) /\ k - 1 + j \in 0..(n - 1)
  OBVIOUS
<1>5. \A j \in 1..l : rows[j] = Pair(k - 1, k - 1 + j)
  <2> HIDE DEF row
  <2> QED
    BY <1>3
<1>6. \A j \in 1..l : rows[j] \in Seq(0..(n - 1))
  <2> HIDE DEF rows, l
  <2> SUFFICES ASSUME NEW j \in 1..l
               PROVE  rows[j] \in Seq(0..(n - 1))
    OBVIOUS
  <2>1. Pair(k - 1, k - 1 + j) \in Seq(0..(n - 1))
    BY <1>4, PairTypes, Zenon
  <2> QED
    BY <1>5, <2>1, Zenon
<1>7. rows = [j \in 1..l |-> rows[j]]
  <2> HIDE DEF row
  <2> QED
    OBVIOUS
<1> HIDE DEF rows
<1>8. rows \in Seq(Seq(0..(n - 1))) /\ Len(rows) = l
  <2> DEFINE T == Seq(0..(n - 1))
  <2>1. \A j \in 1..l : rows[j] \in T
    BY <1>6
  <2> HIDE DEF T, l
  <2>2. rows \in Seq(T) /\ Len(rows) = l
    BY <1>1, <1>7, <2>1, ManyElements
  <2> QED
    BY <2>2 DEF T
<1> QED
  BY <1>2, <1>5, <1>8

\* off[k] is the number of pairs in the first k cohorts for n types.
PairOffsets(off, n) ==
    /\ off \in [0..(n - 1) -> Nat]
    /\ off[0] = 0
    /\ \A k \in 1..(n - 1) : off[k] = off[k - 1] + (n - k)

\* The p-th two indices are those of two types, j places apart.
PairAt(indices, p, k, j) ==
    /\ indices[(p - 1) * 2 + 1] = k - 1
    /\ indices[(p - 1) * 2 + 2] = k - 1 + j

\* The pairs of indices, one after the other, two numbers each
PairsInPlace(indices, off, n) ==
    /\ indices \in Seq(0..(n - 1))
    /\ Len(indices) = 2 * off[n - 1]
    /\ \A k \in 1..(n - 1) : \A j \in 1..(n - k) :
          /\ off[k - 1] + j \in 1..off[n - 1]
          /\ PairAt(indices, off[k - 1] + j, k, j)

LEMMA IndicesOfTwo ==
    ASSUME NEW n \in Nat, n >= 2
    PROVE  \E off : /\ PairOffsets(off, n)
                    /\ PairsInPlace(non_rep_index_combinations(n, 2), off, n)
<1> DEFINE I == 0..(n - 1)
           m == n - 1
           cohorts == [k \in 1..m |-> Cohort(n, 2, n - k)]
           rows == FlattenSeq(cohorts)
           indices == FlattenSeq(rows)
           \* a name for what CohortOfTwo says
           IsCohort(c, k) == /\ c \in Seq(Seq(I)) /\ Len(c) = n - k
                             /\ \A j \in 1..(n - k) : c[j] = Pair(k - 1, k - 1 + j)
<1>1. m \in Nat /\ m # 0
  OBVIOUS
<1>2. non_rep_index_combinations(n, 2) = indices
  <2>1. n - 2 + 1 = m /\ \A k \in 1..m : m + 1 - k = n - k
    OBVIOUS
  <2>2. [k \in 1..m |-> Cohort(n, 2, m + 1 - k)] = cohorts
    BY <2>1
  <2> HIDE DEF m, cohorts
  <2>3. non_rep_index_combinations(n, 2)
          = FlattenSeq(FlattenSeq([k \in 1..m |-> Cohort(n, 2, m + 1 - k)]))
    BY <2>1 DEF non_rep_index_combinations
  <2> QED
    BY <2>2, <2>3
<1>3. \A k \in 1..m : IsCohort(cohorts[k], k)
  <2> SUFFICES ASSUME NEW k \in 1..m
               PROVE  IsCohort(cohorts[k], k)
    OBVIOUS
  <2>1. cohorts[k] = Cohort(n, 2, n - k)
    OBVIOUS
  <2>2. IsCohort(Cohort(n, 2, n - k), k)
    BY CohortOfTwo
  <2> HIDE DEF IsCohort, cohorts
  <2> QED
    BY <2>1, <2>2
<1>4. cohorts \in Seq(Seq(Seq(I))) /\ Len(cohorts) = m
  <2>1. cohorts = [k \in 1..m |-> cohorts[k]]
    OBVIOUS
  <2> DEFINE T == Seq(Seq(I))
  <2>2. \A k \in 1..m : cohorts[k] \in T
    BY <1>3
  <2> HIDE DEF cohorts, T, m
  <2>3. cohorts \in Seq(T) /\ Len(cohorts) = m
    BY <1>1, <2>1, <2>2, ManyElements
  <2> QED
    BY <2>3 DEF T
<1> HIDE DEF cohorts, I
<1>5. PICK off : Offsets(off, cohorts)
  BY <1>4, OffsetsExist
<1>6. PairOffsets(off, n)
  BY <1>3, <1>4, <1>5 DEF Offsets, PairOffsets
<1>7. /\ off \in [0..m -> Nat] /\ off[0] = 0
      /\ \A k \in 1..m : off[k] = off[k - 1] + (n - k)
  BY <1>6 DEF PairOffsets
<1> DEFINE all == off[m]
<1>8. all \in Nat
  BY <1>1, <1>7
<1>9. rows \in Seq(Seq(I)) /\ Len(rows) = all /\ Placed(rows, off, cohorts)
  BY <1>4, <1>5, FlattenPlaces
<1> HIDE DEF rows
<1>10. \A k \in 1..m : \A j \in 1..(n - k) :
         /\ off[k - 1] + j \in 1..all
         /\ rows[off[k - 1] + j] = Pair(k - 1, k - 1 + j)
  <2> SUFFICES ASSUME NEW k \in 1..m, NEW j \in 1..(n - k)
               PROVE  /\ off[k - 1] + j \in 1..all
                      /\ rows[off[k - 1] + j] = Pair(k - 1, k - 1 + j)
    OBVIOUS
  <2>1. Len(cohorts[k]) = n - k /\ cohorts[k][j] = Pair(k - 1, k - 1 + j)
    BY <1>3
  <2>2. off[k - 1] + j \in 1..Len(rows) /\ rows[off[k - 1] + j] = cohorts[k][j]
    BY <1>4, <1>9, <2>1 DEF Placed
  <2> QED
    BY <1>9, <2>1, <2>2
<1> HIDE DEF m, all
<1>11. ASSUME NEW p \in 1..all
       PROVE  Len(rows[p]) = 2
  <2>1. PICK k \in 1..m : off[k - 1] < p /\ p <= off[k]
    BY <1>1, <1>7, EveryPlace DEF all
  <2> DEFINE j == p - off[k - 1]
  <2>2. off[k - 1] \in Nat /\ off[k] \in Nat /\ off[k] = off[k - 1] + (n - k)
    BY <1>1, <1>7
  <2>3. j \in 1..(n - k) /\ off[k - 1] + j = p
    BY <1>1, <1>8, <2>1, <2>2
  <2> HIDE DEF j
  <2>4. rows[p] = Pair(k - 1, k - 1 + j)
    BY <1>10, <2>3
  <2>5. Len(Pair(k - 1, k - 1 + j)) = 2
    BY PairLength
  <2> QED
    BY <2>4, <2>5
<1> DEFINE Twos(flat) == \A p \in 1..all : \A i \in 1..2 : flat[(p - 1) * 2 + i] = rows[p][i]
<1>12. /\ indices \in Seq(I) /\ Len(indices) = 2 * all
       /\ Twos(indices)
  BY <1>9, <1>11, FlattenTwos
<1> HIDE DEF indices
<1>13. ASSUME NEW k \in 1..m, NEW j \in 1..(n - k)
       PROVE  off[k - 1] + j \in 1..all /\ PairAt(indices, off[k - 1] + j, k, j)
  <2> DEFINE p == off[k - 1] + j
  <2>1. p \in 1..all /\ rows[p] = Pair(k - 1, k - 1 + j)
    BY <1>10
  <2> HIDE DEF p
  <2>2. /\ indices[(p - 1) * 2 + 1] = rows[p][1]
        /\ indices[(p - 1) * 2 + 2] = rows[p][2]
    BY <1>12, <2>1
  <2>3. rows[p][1] = k - 1 /\ rows[p][2] = k - 1 + j
    BY <2>1 DEF Pair
  <2> QED
    BY <2>1, <2>2, <2>3 DEF p, PairAt
<1>14. PairsInPlace(indices, off, n)
  BY <1>12, <1>13 DEF PairsInPlace, I, m, all
<1> QED
  BY <1>2, <1>6, <1>14

\* The pairs of the types, in the same places
GroupsInPlace(groups, off, pack) ==
    LET n == Len(pack)
    IN /\ PairOffsets(off, n)
       /\ DOMAIN groups = 1..off[n - 1]
       /\ Len(groups) = off[n - 1]
       /\ \A k \in 1..(n - 1) : \A j \in 1..(n - k) :
             /\ off[k - 1] + j \in 1..off[n - 1]
             /\ groups[off[k - 1] + j] = Pair(pack[k], pack[k + j])

LEMMA GroupsOfTwo ==
    ASSUME NEW T, NEW pack \in Seq(T), Len(pack) >= 2
    PROVE  \E off : GroupsInPlace(nr_combs(pack, 2), off, pack)
<1> DEFINE n == Len(pack)
           indices == non_rep_index_combinations(n, 2)
           groups == nr_combs(pack, 2)
<1>1. n \in Nat /\ n >= 2
  OBVIOUS
<1> HIDE DEF n
<1>2. PICK off : PairOffsets(off, n) /\ PairsInPlace(indices, off, n)
  BY <1>1, IndicesOfTwo
<1> DEFINE all == off[n - 1]
<1>3. all \in Nat
  BY <1>1, <1>2 DEF PairOffsets
<1> HIDE DEF all
<1>4. Len(indices) = 2 * all
  BY <1>2 DEF PairsInPlace, all
<1>5. (2 * all) \div 2 = all
  BY <1>3
<1> HIDE DEF indices
<1>6. groups = [g \in 1..all |-> [i \in 1..2 |-> pack[indices[(g - 1) * 2 + i] + 1]]]
  BY <1>4, <1>5 DEF nr_combs, split_t, index_t, n, indices
<1>7. DOMAIN groups = 1..all /\ Len(groups) = all
  <2> DEFINE group(g) == [i \in 1..2 |-> pack[indices[(g - 1) * 2 + i] + 1]]
  <2>1. groups = [g \in 1..all |-> group(g)]
    BY <1>6
  <2> HIDE DEF group, groups
  <2> QED
    BY <1>3, <2>1
<1>8. ASSUME NEW k \in 1..(n - 1), NEW j \in 1..(n - k)
      PROVE  /\ off[k - 1] + j \in 1..all
             /\ groups[off[k - 1] + j] = Pair(pack[k], pack[k + j])
  <2> DEFINE p == off[k - 1] + j
  <2>0. p \in 1..all /\ PairAt(indices, p, k, j)
    BY <1>2 DEF PairsInPlace, all
  <2> HIDE DEF p
  <2>1. /\ p \in 1..all /\ indices[(p - 1) * 2 + 1] = k - 1
        /\ indices[(p - 1) * 2 + 2] = k - 1 + j
    BY <2>0 DEF PairAt
  <2>2. groups[p] = [i \in 1..2 |-> pack[indices[(p - 1) * 2 + i] + 1]]
    <3> HIDE DEF groups
    <3> QED
      BY <1>6, <2>1
  <2>3. (k - 1) + 1 = k /\ (k - 1 + j) + 1 = k + j
    BY <1>1
  <2>4. \A i \in 1..2 : pack[indices[(p - 1) * 2 + i] + 1]
                          = IF i = 1 THEN pack[k] ELSE pack[k + j]
    <3>1. pack[indices[(p - 1) * 2 + 1] + 1] = pack[k]
      BY <2>1, <2>3
    <3>2. pack[indices[(p - 1) * 2 + 2] + 1] = pack[k + j]
      BY <2>1, <2>3
    <3> QED
      BY <3>1, <3>2
  <2> QED
    BY <2>1, <2>2, <2>4 DEF Pair, p
<1> HIDE DEF groups
<1>9. GroupsInPlace(groups, off, pack)
  BY <1>2, <1>7, <1>8 DEF GroupsInPlace, n, all
<1> QED
  BY <1>9 DEF groups

(***************************************************************************)
(* What the checks come to.                                                *)
(***************************************************************************)
\* A check that is combined by And holds if it holds of every group.
LEMMA CheckedByAnd ==
    ASSUME NEW value, NEW order, NEW pack, NEW m \in Nat, m # 0,
           DOMAIN nr_combs(pack, order) = 1..m,
           \A g \in 1..m : value[nr_combs(pack, order)[g]] \in BOOLEAN
    PROVE  LET check == monoid_check(value, And, order, pack)
           IN /\ check \in BOOLEAN
              /\ check = TRUE <=>
                    \A g \in 1..m : value[nr_combs(pack, order)[g]] = TRUE
<1> DEFINE groups == nr_combs(pack, order)
           checks == functor_map_t(value, groups)
<1>1. DOMAIN groups = 1..m /\ \A g \in 1..m : value[groups[g]] \in BOOLEAN
  OBVIOUS
<1> HIDE DEF groups
<1>2. /\ checks = [g \in 1..m |-> checks[g]]
      /\ \A g \in 1..m : checks[g] = value[groups[g]] /\ checks[g] \in BOOLEAN
  BY <1>1 DEF functor_map_t
<1>3. monoid_check(value, And, order, pack)
        = fold_t(And, index_t(0, checks), truncate_front_t(1, checks))
  BY DEF monoid_check, groups
<1> HIDE DEF checks
<1>4. checks \in Seq(BOOLEAN) /\ Len(checks) = m
  BY <1>2, ManyElements
<1> DEFINE fold == fold_t(And, index_t(0, checks), truncate_front_t(1, checks))
<1>5. /\ fold \in BOOLEAN
      /\ fold = TRUE <=> \A i \in 1..Len(checks) : checks[i] = TRUE
  BY <1>4, FoldAnd
<1> HIDE DEF fold
<1>6. (\A i \in 1..m : checks[i] = TRUE) <=> (\A g \in 1..m : value[groups[g]] = TRUE)
  BY <1>2
<1> QED
  BY <1>3, <1>4, <1>5, <1>6 DEF fold, groups

\* The values of what a length is asked of are those of the types.
LEMMA LengthOfGroups ==
    ASSUME NEW pack \in Seq(MsgTypes), Len(pack) # 0
    PROVE  LET lengths == functor_map_t(msg_lengths(pack), nr_combs(pack, 1))
           IN /\ lengths \in Seq(Nat) /\ Len(lengths) = Len(pack)
              /\ \A i \in 1..Len(pack) : lengths[i] = pack[i].msg_length
<1> DEFINE n == Len(pack)
           groups == nr_combs(pack, 1)
           lengths == functor_map_t(msg_lengths(pack), groups)
<1>1. n \in Nat /\ \A i \in 1..n : pack[i] \in MsgTypes
  BY Elements
<1>2. DOMAIN groups = 1..n /\ \A i \in 1..n : groups[i] = [k \in 1..1 |-> pack[i]]
  BY GroupsOfOne
<1> HIDE DEF n, groups
<1>3. ASSUME NEW i \in 1..n
      PROVE  /\ msg_lengths(pack)[groups[i]] = pack[i].msg_length
             /\ pack[i].msg_length \in Nat
  <2>1. groups[i] \in Groups(pack, 1)
    BY <1>2 DEF Groups, Range, groups
  <2>2. msg_lengths(pack)[groups[i]] = groups[i][1].msg_length
    BY <2>1 DEF msg_lengths
  <2>3. groups[i][1] = pack[i]
    BY <1>2
  <2> QED
    BY <1>1, <2>2, <2>3 DEF MsgTypes
<1>4. /\ lengths = [i \in 1..n |-> lengths[i]]
      /\ \A i \in 1..n : lengths[i] = msg_lengths(pack)[groups[i]]
  BY <1>2 DEF functor_map_t
<1> HIDE DEF lengths
<1>5. lengths \in Seq(Nat) /\ Len(lengths) = n
  <2>1. \A i \in 1..n : lengths[i] \in Nat
    BY <1>3, <1>4
  <2> QED
    BY <1>1, <1>4, <2>1, ManyElements
<1> QED
  BY <1>3, <1>4, <1>5 DEF lengths, groups, n

\* The buffer is as long as the longest type, the search as the shortest.
LEMMA LengthsFound ==
    ASSUME NEW pack \in Seq(MsgTypes), Len(pack) # 0
    PROVE  LET lengths == {pack[i].msg_length : i \in DOMAIN pack}
               longest == determine_max_msg_len(pack)
               shortest == determine_min_msg_len(pack)
           IN /\ longest = Max(lengths) /\ shortest = Min(lengths)
              /\ longest \in lengths /\ shortest \in lengths
              /\ lengths \in SUBSET Nat
              /\ \A i \in DOMAIN pack : /\ pack[i].msg_length <= longest
                                        /\ shortest <= pack[i].msg_length
<1> DEFINE n == Len(pack)
           lengths == functor_map_t(msg_lengths(pack), nr_combs(pack, 1))
           all == {pack[i].msg_length : i \in DOMAIN pack}
<1>1. n \in Nat /\ n # 0 /\ DOMAIN pack = 1..n
  OBVIOUS
<1>2. lengths \in Seq(Nat) /\ Len(lengths) = n /\ \A i \in 1..n : lengths[i] = pack[i].msg_length
  BY LengthOfGroups
<1> HIDE DEF n, lengths
<1> DEFINE longest == fold_t(Longest, index_t(0, lengths), truncate_front_t(1, lengths))
           shortest == fold_t(Shortest, index_t(0, lengths), truncate_front_t(1, lengths))
<1>3. /\ \E i \in 1..n : longest = lengths[i]
      /\ \A i \in 1..n : lengths[i] <= longest
  BY <1>1, <1>2, FoldLongest
<1>4. /\ \E i \in 1..n : shortest = lengths[i]
      /\ \A i \in 1..n : lengths[i] >= shortest
  BY <1>1, <1>2, FoldShortest
<1>5. determine_max_msg_len(pack) = longest /\ determine_min_msg_len(pack) = shortest
  BY DEF determine_max_msg_len, determine_min_msg_len, monoid_check, lengths
<1> HIDE DEF longest, shortest
<1>6. all \in SUBSET Nat /\ all = {lengths[i] : i \in 1..n}
  <2>1. \A i \in 1..n : lengths[i] \in Nat
    BY <1>2, Elements
  <2> QED
    BY <1>1, <1>2, <2>1
<1>7. longest \in all /\ shortest \in all
  BY <1>3, <1>4, <1>6
<1>8. \A x \in all : x <= longest /\ x >= shortest
  BY <1>3, <1>4, <1>6
<1> HIDE DEF all
<1>9. Max(all) = longest /\ Min(all) = shortest
  <2>1. \A x \in all : shortest <= x
    BY <1>6, <1>7, <1>8
  <2> QED
    BY <1>6, <1>7, <1>8, <2>1, IsMax, IsMin
<1>10. \A i \in 1..n : pack[i].msg_length <= longest /\ shortest <= pack[i].msg_length
  <2> SUFFICES ASSUME NEW i \in 1..n
               PROVE  pack[i].msg_length <= longest /\ shortest <= pack[i].msg_length
    OBVIOUS
  <2>1. pack[i].msg_length \in all
    BY <1>1 DEF all
  <2> QED
    BY <1>6, <1>7, <1>8, <2>1
<1> QED
  BY <1>1, <1>5, <1>6, <1>7, <1>9, <1>10 DEF all

\* The pairs in the groups are those of a type and one behind it.
LEMMA PairsOfTypes ==
    ASSUME NEW T, NEW pack \in Seq(T), Len(pack) >= 2
    PROVE  LET n == Len(pack)
               groups == nr_combs(pack, 2)
               m == Len(groups)
           IN /\ DOMAIN groups = 1..m /\ m \in Nat /\ m # 0
              /\ m >= n <=> n >= 3
              /\ \A g \in 1..m : \E k \in 1..n : \E l \in 1..n :
                    k < l /\ groups[g] = Pair(pack[k], pack[l])
              /\ \A k \in 1..n : \A l \in 1..n :
                    k < l => \E g \in 1..m : groups[g] = Pair(pack[k], pack[l])
<1> DEFINE n == Len(pack)
           groups == nr_combs(pack, 2)
           m == Len(groups)
<1>1. n \in Nat /\ n >= 2
  OBVIOUS
<1>2. PICK off : GroupsInPlace(groups, off, pack)
  BY GroupsOfTwo
<1> HIDE DEF n, groups
<1> DEFINE last == n - 1
<1>3. last \in Nat /\ last # 0
  BY <1>1
<1>4. /\ off \in [0..last -> Nat] /\ off[0] = 0
      /\ \A k \in 1..last : off[k] = off[k - 1] + (n - k)
  BY <1>2 DEF GroupsInPlace, PairOffsets, n
<1>5. /\ DOMAIN groups = 1..m /\ m = off[last]
      /\ \A k \in 1..last : \A j \in 1..(n - k) :
            /\ off[k - 1] + j \in 1..m
            /\ groups[off[k - 1] + j] = Pair(pack[k], pack[k + j])
  BY <1>2 DEF GroupsInPlace, n
<1> HIDE DEF m
<1>6. m \in Nat
  BY <1>3, <1>4, <1>5
<1>7. /\ m # 0 /\ m >= n <=> n >= 3
  <2>1. off[1] = n - 1
    <3>1. PICK k \in 1..last : k = 1
      <4>1. 1 \in 1..last
        BY <1>1
      <4> HIDE DEF last
      <4> QED
        BY <4>1
    <3>2. k - 1 = 0
      BY <3>1
    <3>3. off[k] = off[k - 1] + (n - k)
      BY <1>4
    <3> QED
      BY <1>1, <1>4, <3>1, <3>2, <3>3
  <2>2. CASE n = 2
    BY <1>5, <2>1, <2>2
  <2>3. CASE n >= 3
    <3>1. off[2] = off[1] + (n - 2)
      <4>1. PICK k \in 1..last : k = 2
        BY <1>1, <2>3
      <4>2. k - 1 = 1
        BY <4>1
      <4>3. off[k] = off[k - 1] + (n - k)
        BY <1>4
      <4> QED
        BY <4>1, <4>2, <4>3
    <3>2. off[2] <= off[last]
      <4>1. \A k \in 1..last : off[k - 1] <= off[k]
        <5> SUFFICES ASSUME NEW k \in 1..last PROVE off[k - 1] <= off[k]
          OBVIOUS
        <5>1. off[k] = off[k - 1] + (n - k) /\ off[k - 1] \in Nat /\ n - k \in Nat
          BY <1>1, <1>4
        <5> QED
          BY <5>1
      <4>2. 2 \in 0..last /\ last \in 0..last /\ 2 <= last
        BY <1>1, <2>3
      <4> QED
        BY <1>3, <1>4, <4>1, <4>2, OffsetsRise
    <3>3. off[2] = (n - 1) + (n - 2)
      BY <2>1, <3>1
    <3> QED
      BY <1>1, <1>5, <1>6, <2>3, <3>2, <3>3
  <2> QED
    BY <1>1, <2>2, <2>3
<1>8. ASSUME NEW g \in 1..m
      PROVE  \E k \in 1..n : \E l \in 1..n :
                k < l /\ groups[g] = Pair(pack[k], pack[l])
  <2>1. PICK k \in 1..last : off[k - 1] < g /\ g <= off[k]
    BY <1>3, <1>4, <1>5, EveryPlace
  <2> DEFINE j == g - off[k - 1]
             l == k + j
  <2>2. off[k] = off[k - 1] + (n - k) /\ off[k - 1] \in Nat
    <3>1. k - 1 \in 0..last
      BY <1>3
    <3> HIDE DEF last
    <3> QED
      BY <1>4, <3>1
  <2>3. j \in 1..(n - k) /\ off[k - 1] + j = g
    BY <1>1, <1>6, <2>1, <2>2
  <2> HIDE DEF j
  <2>4. groups[g] = Pair(pack[k], pack[l])
    BY <1>5, <2>3
  <2>5. k \in 1..n /\ l \in 1..n /\ k < l
    BY <1>1, <2>3
  <2> QED
    BY <2>4, <2>5
<1>9. ASSUME NEW k \in 1..n, NEW l \in 1..n, k < l
      PROVE  \E g \in 1..m : groups[g] = Pair(pack[k], pack[l])
  <2> DEFINE j == l - k
  <2>1. k \in 1..last /\ j \in 1..(n - k) /\ k + j = l
    BY <1>1, <1>9
  <2>2. off[k - 1] + j \in 1..m /\ groups[off[k - 1] + j] = Pair(pack[k], pack[k + j])
    BY <1>5, <2>1
  <2> QED
    BY <2>1, <2>2
<1> QED
  BY <1>5, <1>6, <1>7, <1>8, <1>9 DEF groups, m, n

\* A check of single types holds if it does of every type.
LEMMA CheckedSingly ==
    ASSUME NEW pack \in Seq(MsgTypes), Len(pack) # 0, NEW value,
           NEW Member, \A i \in 1..Len(pack) : Member[i] \in BOOLEAN,
           \A i \in 1..Len(pack) : value[[k \in 1..1 |-> pack[i]]] = Member[i]
    PROVE  LET check == monoid_check(value, And, 1, pack)
           IN /\ check \in BOOLEAN
              /\ check = TRUE <=> \A i \in 1..Len(pack) : Member[i] = TRUE
<1> DEFINE n == Len(pack)
           groups == nr_combs(pack, 1)
           check == monoid_check(value, And, 1, pack)
<1>1. n \in Nat /\ n # 0
  OBVIOUS
<1>2. DOMAIN groups = 1..n /\ \A i \in 1..n : groups[i] = [k \in 1..1 |-> pack[i]]
  BY GroupsOfOne
<1>3. \A i \in 1..n : Member[i] \in BOOLEAN /\ value[[k \in 1..1 |-> pack[i]]] = Member[i]
  OBVIOUS
<1> HIDE DEF groups, n, check
<1>4. \A i \in 1..n : value[groups[i]] = Member[i] /\ value[groups[i]] \in BOOLEAN
  BY <1>2, <1>3
<1>5. check \in BOOLEAN /\ (check = TRUE <=> \A i \in 1..n : value[groups[i]] = TRUE)
  BY <1>1, <1>2, <1>4, CheckedByAnd DEF groups, check
<1>6. (\A i \in 1..n : value[groups[i]] = TRUE) <=> (\A i \in 1..n : Member[i] = TRUE)
  BY <1>4
<1> QED
  BY <1>5, <1>6 DEF check, n
=============================================================================
