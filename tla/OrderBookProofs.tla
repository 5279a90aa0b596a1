-------------------------- MODULE OrderBookProofs --------------------------
(***************************************************************************)
(* Proofs about OrderBook, for every value of its constants.               *)
(*                                                                         *)
(* That the lock and the version counter tell the truth is proved of Spec  *)
(* as it is.  What the book promises is proved for callers that observe    *)
(* all of Disciplines.  First come facts about the operators OrderBook is  *)
(* built from: what a bucket gives, what the search for the next bucket    *)
(* finds, and what each handler leaves of a sound book.                    *)
(***************************************************************************)
EXTENDS OrderBook, TLAPS, WellFoundedInduction

(***************************************************************************)
(* Types.  That a response is refused once at most needs what the order is *)
(* and where its handlers are; the rest of TypeOK does not.                *)
(***************************************************************************)
WideResponses == [price : Int, filled : Int, revenue : Int, error : Nat]

\* TypeOK, with any number of errors in a response
Typed ==
    /\ base_price \in UInts
    /\ mem_span \in [Cells -> Int]
    /\ stats \in Statistics
    /\ modify_lock \in BOOLEAN
    /\ version_counter \in 0..MaxVersion
    /\ pc \in [Threads -> Points]
    /\ order \in [Threads -> Orders \cup {Blank("add")}]
    /\ run \in [Threads -> Frames]
    /\ ret \in [Threads -> WideResponses]
    /\ shift \in [Threads -> ShiftFrames]

(***************************************************************************)
(* A sound book, before and during a run through it.                       *)
(***************************************************************************)
\* The two statistics of the demand side are its ends.
BidsSound(mem, base, s) ==
    /\ \A i \in Buckets : mem[i] < 0 =>
         s.lowest_bid # None /\ s.lowest_bid <= base + i /\ base + i <= s.best_bid
    /\ s.lowest_bid = None <=> s.best_bid = None
    /\ s.best_bid # None =>
         s.best_bid - base \in Buckets /\ mem[s.best_bid - base] < 0
    /\ s.lowest_bid # None =>
         s.lowest_bid - base \in Buckets /\ mem[s.lowest_bid - base] < 0

\* The two statistics of the supply side are its ends.
OffersSound(mem, base, s) ==
    /\ \A i \in Buckets : mem[i] > 0 =>
         s.best_offer # None /\ s.best_offer <= base + i /\ base + i <= s.highest_offer
    /\ s.highest_offer = None <=> s.best_offer = None
    /\ s.best_offer # None =>
         s.best_offer - base \in Buckets /\ mem[s.best_offer - base] > 0
    /\ s.highest_offer # None =>
         s.highest_offer - base \in Buckets /\ mem[s.highest_offer - base] > 0

Apart(s) == s.best_bid # None /\ s.best_offer # None => s.best_bid < s.best_offer

Sound(mem, base, s) ==
    BidsSound(mem, base, s) /\ OffersSound(mem, base, s) /\ Apart(s)

\* A buy run that is under way: the supply it has passed is used up, but for
\* what is left in the last bucket when the order is filled.
BuyRun(f, mem, base, s) ==
    /\ BidsSound(mem, base, s) /\ Apart(s)
    /\ s.best_offer # None /\ s.highest_offer # None
    /\ s.best_offer - base \in Buckets /\ s.highest_offer - base \in Buckets
    /\ s.best_offer <= s.highest_offer
    /\ f.open_vol <= 0
    /\ s.best_offer <= base + f.index /\ base + f.index <= s.highest_offer + 1
    /\ f.n_iterations = s.highest_offer - (base + f.index)
    /\ \A i \in Buckets : mem[i] > 0 =>
         /\ s.best_offer <= base + i /\ base + i <= s.highest_offer
         /\ i >= f.index - 1
         /\ f.open_vol # 0 => i >= f.index
    /\ base + f.index <= s.highest_offer => mem[s.highest_offer - base] > 0

\* The same of a sell run, which goes down through the demand.
SellRun(f, mem, base, s) ==
    /\ OffersSound(mem, base, s) /\ Apart(s)
    /\ s.best_bid # None /\ s.lowest_bid # None
    /\ s.best_bid - base \in Buckets /\ s.lowest_bid - base \in Buckets
    /\ s.lowest_bid <= s.best_bid
    /\ f.open_vol >= 0
    /\ s.lowest_bid - 1 <= base + f.index /\ base + f.index <= s.best_bid
    /\ f.n_iterations = (base + f.index) - s.lowest_bid
    /\ \A i \in Buckets : mem[i] < 0 =>
         /\ s.lowest_bid <= base + i /\ base + i <= s.best_bid
         /\ i <= f.index + 1
         /\ f.open_vol # 0 => i <= f.index
    /\ base + f.index >= s.lowest_bid => mem[s.lowest_bid - base] < 0

RunSound(f, mem, base, s) ==
    /\ f.dummy => f.open_vol = 0 /\ Sound(mem, base, s)
    /\ ~f.dummy => f.volume # 0
    /\ ~f.dummy /\ f.volume < 0 => BuyRun(f, mem, base, s)
    /\ ~f.dummy /\ f.volume > 0 => SellRun(f, mem, base, s)

\* The base price leaves room for all prices of the book in std::int32_t.
BaseFits(base) == base \in Nat /\ base + BookLength < HalfRange
-----------------------------------------------------------------------------
(***************************************************************************)
(* Least and greatest elements of sets of prices.                          *)
(***************************************************************************)
LessThan == {ss \in Nat \X Nat : ss[1] < ss[2]}

LEMMA LessThanWellFounded == IsWellFoundedOn(LessThan, Nat)
BY NatLessThanWellFounded DEF LessThan, OpToRel

\* A non-empty set of natural numbers has a least element.
LEMMA MinExists ==
    ASSUME NEW S, S \subseteq Nat, S # {}
    PROVE  Min(S) \in S /\ \A p \in S : Min(S) <= p
<1>1. PICK x \in S : \A y \in S : ~ (<<y, x>> \in LessThan)
  BY LessThanWellFounded, WFMin
<1>2. \A m, n \in Nat : m < n => <<m, n>> \in LessThan
  BY DEF LessThan
<1>3. \A y \in S : x \in Nat /\ y \in Nat /\ ~ (y < x)
  BY <1>1, <1>2
<1>4. \A y \in S : x <= y
  BY <1>3
<1> QED
  BY <1>4 DEF Min

\* A non-empty set of natural numbers below a bound has a greatest element.
LEMMA MaxExists ==
    ASSUME NEW S, NEW b \in Nat, S \subseteq 0..b, S # {}
    PROVE  Max(S) \in S /\ \A p \in S : Max(S) >= p
<1> DEFINE T == {n \in 0..b : b - n \in S}
<1>1. PICK s \in S : TRUE
  OBVIOUS
<1>2. b - s \in T
  BY <1>1
<1>3. T \subseteq Nat /\ T # {}
  <2>1. T \subseteq Nat
    OBVIOUS
  <2> QED
    BY <1>2, <2>1
<1> HIDE DEF T
<1>4. Min(T) \in T /\ \A q \in T : Min(T) <= q
  BY <1>3, MinExists
<1>5. PICK m \in 0..b : b - m \in S /\ \A q \in T : m <= q
  BY <1>4 DEF T
<1>6. \A p \in S : b - p \in T
  BY DEF T
<1>7. \A p \in S : b - m >= p
  BY <1>5, <1>6
<1> QED
  BY <1>5, <1>7 DEF Max
-----------------------------------------------------------------------------
(***************************************************************************)
(* The search for the next bucket with volume.                             *)
(***************************************************************************)
PricesOf(base) == base..(base + BookLength - 1)

\* Going up, find_liquid_bucket returns the first price with volume.
LEMMA FindUp ==
    ASSUME NEW base \in Nat, NEW mem \in [Cells -> Int],
           NEW start \in PricesOf(base), NEW end \in PricesOf(base) \cup {None},
           NEW last, last = (IF end = None THEN start ELSE end), start <= last,
           NEW r, r = FindLiquid(mem, base, start, end)
    PROVE  /\ r = None => \A p \in start..last : mem[p - base] = 0
           /\ r # None => /\ r \in start..last /\ mem[r - base] # 0
                          /\ \A p \in start..(r - 1) : mem[p - base] = 0
<1> DEFINE liquid == {p \in start..last \cup last..start : mem[p - base] # 0}
<1>1. start \in Nat /\ last \in Nat
  BY LengthAssumption DEF PricesOf, None
<1>2. r = IF liquid = {} THEN None ELSE Min(liquid)
  BY DEF FindLiquid
<1>3. liquid \subseteq Nat
  BY <1>1
<1>4. liquid # {} => Min(liquid) \in liquid /\ \A p \in liquid : Min(liquid) <= p
  BY <1>3, MinExists
<1>5. \A p \in start..last : mem[p - base] # 0 => p \in liquid
  OBVIOUS
<1>6. \A p \in liquid : p \in start..last /\ mem[p - base] # 0
  BY <1>1
<1> HIDE DEF liquid
<1>7. CASE liquid = {}
  BY <1>2, <1>5, <1>7 DEF None
<1>8. CASE liquid # {}
  <2>1. r = Min(liquid) /\ r \in liquid /\ \A p \in liquid : r <= p
    BY <1>2, <1>4, <1>8
  <2>2. r \in start..last /\ mem[r - base] # 0
    BY <2>1, <1>6
  <2>3. \A p \in start..(r - 1) : mem[p - base] = 0
    BY <2>1, <2>2, <1>5, <1>1
  <2> QED
    BY <2>2, <2>3, <1>1 DEF None
<1> QED
  BY <1>7, <1>8

\* Going down, it returns the first price with volume below the start.
LEMMA FindDown ==
    ASSUME NEW base \in Nat, NEW mem \in [Cells -> Int],
           NEW start \in PricesOf(base), NEW end \in PricesOf(base), end <= start,
           NEW r, r = FindLiquid(mem, base, start, end)
    PROVE  /\ r = None => \A p \in end..start : mem[p - base] = 0
           /\ r # None => /\ r \in end..start /\ mem[r - base] # 0
                          /\ \A p \in (r + 1)..start : mem[p - base] = 0
<1>1. CASE start = end
  <2>1. start <= end /\ end # None
    BY <1>1 DEF PricesOf, None
  <2>2. /\ r = None => \A p \in start..end : mem[p - base] = 0
        /\ r # None => /\ r \in start..end /\ mem[r - base] # 0
                       /\ \A p \in start..(r - 1) : mem[p - base] = 0
    BY <2>1, FindUp
  <2> QED
    BY <1>1, <2>2 DEF PricesOf
<1>2. CASE start # end
  <2> DEFINE liquid == {p \in start..end \cup end..start : mem[p - base] # 0}
  <2>1. start \in Nat /\ end \in Nat /\ end < start /\ end # None
    BY LengthAssumption, <1>2 DEF PricesOf, None
  <2>2. r = IF liquid = {} THEN None ELSE Max(liquid)
    BY <2>1 DEF FindLiquid
  <2>3. liquid \subseteq 0..start
    BY <2>1
  <2>4. liquid # {} => Max(liquid) \in liquid /\ \A p \in liquid : Max(liquid) >= p
    BY <2>1, <2>3, MaxExists
  <2>5. \A p \in end..start : mem[p - base] # 0 => p \in liquid
    OBVIOUS
  <2>6. \A p \in liquid : p \in end..start /\ mem[p - base] # 0
    BY <2>1
  <2> HIDE DEF liquid
  <2>7. CASE liquid = {}
    BY <2>2, <2>5, <2>7 DEF None
  <2>8. CASE liquid # {}
    <3>1. r = Max(liquid) /\ r \in liquid /\ \A p \in liquid : r >= p
      BY <2>2, <2>4, <2>8
    <3>2. r \in end..start /\ mem[r - base] # 0
      BY <3>1, <2>6
    <3>3. \A p \in (r + 1)..start : mem[p - base] = 0
      BY <3>1, <3>2, <2>5, <2>1
    <3> QED
      BY <3>2, <3>3, <2>1 DEF None
  <2> QED
    BY <2>7, <2>8
<1> QED
  BY <1>1, <1>2
\* Whatever it finds is a price of the book.
LEMMA FindInside ==
    ASSUME NEW base \in Nat, NEW mem \in [Cells -> Int],
           NEW start \in PricesOf(base), NEW end \in PricesOf(base) \cup {None}
    PROVE  FindLiquid(mem, base, start, end) \in PricesOf(base) \cup {None}
<1> DEFINE last == IF end = None THEN start ELSE end
           r == FindLiquid(mem, base, start, end)
<1>1. start \in Int /\ last \in PricesOf(base) /\ last \in Int
  BY LengthAssumption DEF PricesOf, None
<1> HIDE DEF last, r
<1>2. CASE start <= last
  <2>1. r # None => r \in start..last
    BY <1>2, FindUp DEF last, r
  <2>2. r \in PricesOf(base) \cup {None}
    BY <2>1, <1>1, LengthAssumption DEF PricesOf
  <2> QED
    BY <2>2 DEF r
<1>3. CASE last < start
  <2>1. last = end /\ end <= start /\ end \in PricesOf(base)
    BY <1>1, <1>3 DEF last
  <2>2. r # None => r \in end..start
    BY <2>1, FindDown DEF r
  <2>3. r \in PricesOf(base) \cup {None}
    BY <2>1, <2>2, <1>1, LengthAssumption DEF PricesOf
  <2> QED
    BY <2>3 DEF r
<1> QED
  BY <1>1, <1>2, <1>3

-----------------------------------------------------------------------------
(***************************************************************************)
(* One bucket, and one iteration of run_through_book.                      *)
(***************************************************************************)
\* A bucket gives no more than it holds and no more than is asked for, and
\* one of the two in full when the signs match.
LEMMA ConsumedFacts ==
    ASSUME NEW held \in Int, NEW fill \in Int, NEW c, c = Consumed(held, fill)
    PROVE  /\ c \in Int
           /\ held >= 0 => 0 <= c /\ c <= held
           /\ held <= 0 => held <= c /\ c <= 0
           /\ held >= 0 /\ fill > 0 => c <= fill /\ (c = held \/ c = fill)
           /\ held <= 0 /\ fill < 0 => c >= fill /\ (c = held \/ c = fill)
BY DEF Consumed

\* An iteration of a buy run stays inside the array and keeps the run sound.
LEMMA BuyStep ==
    ASSUME NEW mem \in [Cells -> Int], NEW base \in Nat, NEW s \in Statistics,
           NEW f \in Frames, f.volume < 0, BuyRun(f, mem, base, s), Running(f),
           NEW filled, filled = Consumed(mem[f.index], -f.open_vol),
           NEW mem2, mem2 = [mem EXCEPT ![f.index] = @ - filled],
           NEW f2, f2 = Advanced(f, filled, base)
    PROVE  f.index \in Buckets /\ BuyRun(f2, mem2, base, s)
<1> USE LengthAssumption DEF None
<1>1. f.index \in Buckets /\ base + f.index <= s.highest_offer
  BY DEF BuyRun, Running, Frames, Statistics, OptPrices, UInts, Buckets
<1>2. mem[f.index] \in Int /\ f.open_vol \in Int /\ f.open_vol < 0
  BY <1>1 DEF BuyRun, Running, Frames, Buckets, Cells
<1>3. mem[f.index] >= 0
  BY <1>1, <1>2 DEF BuyRun, BidsSound, Apart, Statistics, OptPrices, UInts, Frames, Buckets
<1>4. /\ filled \in Int /\ 0 <= filled /\ filled <= mem[f.index]
      /\ filled <= -f.open_vol
      /\ filled = mem[f.index] \/ filled = -f.open_vol
  <2> DEFINE asked == -f.open_vol
  <2>1. asked \in Int /\ asked > 0
    BY <1>2
  <2> HIDE DEF asked
  <2>2. filled = Consumed(mem[f.index], asked)
    BY DEF asked
  <2>3. /\ filled \in Int /\ 0 <= filled /\ filled <= mem[f.index]
        /\ filled <= asked /\ (filled = mem[f.index] \/ filled = asked)
    BY <1>2, <1>3, <2>1, <2>2, ConsumedFacts
  <2> QED
    BY <2>3 DEF asked
<1>5. /\ f2.volume = f.volume /\ f2.index = f.index + 1
      /\ f2.n_iterations = f.n_iterations - 1
      /\ f2.open_vol = f.open_vol + filled
  BY DEF Advanced, Frames
<1>6. /\ mem2 \in [Cells -> Int]
      /\ mem2[f.index] = mem[f.index] - filled
      /\ \A i \in Buckets : i # f.index => mem2[i] = mem[i]
  BY <1>1, <1>2, <1>4 DEF Buckets, Cells
<1>7. f.index \in Int /\ f.n_iterations \in Int
  BY DEF Frames
<1>8. BidsSound(mem2, base, s)
  <2>1. \A i \in Buckets : mem[i] < 0 => i # f.index
    BY <1>2, <1>3
  <2>2. \A i \in Buckets : mem2[i] < 0 => mem[i] < 0
    BY <1>4, <1>6, <1>2
  <2> QED
    BY <2>1, <2>2, <1>6 DEF BuyRun, BidsSound
<1>9. \A i \in Buckets : mem2[i] > 0 =>
         /\ s.best_offer <= base + i /\ base + i <= s.highest_offer
         /\ i >= f2.index - 1
         /\ f2.open_vol # 0 => i >= f2.index
  <2> SUFFICES ASSUME NEW i \in Buckets, mem2[i] > 0
               PROVE  /\ s.best_offer <= base + i /\ base + i <= s.highest_offer
                      /\ i >= f2.index - 1
                      /\ f2.open_vol # 0 => i >= f2.index
    OBVIOUS
  <2>1. CASE i = f.index
    <3>1. mem[i] > 0 /\ filled # mem[i]
      BY <2>1, <1>2, <1>4, <1>6
    <3>2. f2.open_vol = 0
      BY <3>1, <2>1, <1>2, <1>4, <1>5
    <3> QED
      BY <3>1, <3>2, <2>1, <1>5, <1>7 DEF BuyRun
  <2>2. CASE i # f.index
    <3>1. mem[i] > 0
      BY <2>2, <1>6
    <3>2. i >= f.index
      BY <3>1, <1>2 DEF BuyRun
    <3> QED
      BY <3>1, <3>2, <2>2, <1>5, <1>7 DEF BuyRun, Buckets
  <2> QED
    BY <2>1, <2>2
<1>10. base + f2.index <= s.highest_offer => mem2[s.highest_offer - base] > 0
  <2>1. s.highest_offer - base \in Buckets /\ s.highest_offer \in Int
    BY DEF BuyRun, Statistics, OptPrices, UInts
  <2>2. mem[s.highest_offer - base] > 0
    BY <1>1 DEF BuyRun
  <2>3. base + f2.index <= s.highest_offer => s.highest_offer - base # f.index
    BY <1>5, <1>7, <2>1
  <2> QED
    BY <2>1, <2>2, <2>3, <1>6
<1>11. /\ s.best_offer <= base + f2.index /\ base + f2.index <= s.highest_offer + 1
       /\ f2.n_iterations = s.highest_offer - (base + f2.index)
       /\ f2.open_vol <= 0
  BY <1>1, <1>2, <1>4, <1>5, <1>7 DEF BuyRun, Statistics, OptPrices, UInts
<1> QED
  BY <1>1, <1>8, <1>9, <1>10, <1>11 DEF BuyRun

\* An iteration of a sell run does too.
LEMMA SellStep ==
    ASSUME NEW mem \in [Cells -> Int], NEW base \in Nat, NEW s \in Statistics,
           NEW f \in Frames, f.volume > 0, SellRun(f, mem, base, s), Running(f),
           NEW filled, filled = Consumed(mem[f.index], -f.open_vol),
           NEW mem2, mem2 = [mem EXCEPT ![f.index] = @ - filled],
           NEW f2, f2 = Advanced(f, filled, base)
    PROVE  f.index \in Buckets /\ SellRun(f2, mem2, base, s)
<1> USE LengthAssumption DEF None
<1>1. f.index \in Buckets /\ base + f.index >= s.lowest_bid
  BY DEF SellRun, Running, Frames, Statistics, OptPrices, UInts, Buckets
<1>2. mem[f.index] \in Int /\ f.open_vol \in Int /\ f.open_vol > 0
  BY <1>1 DEF SellRun, Running, Frames, Buckets, Cells
<1>3. mem[f.index] <= 0
  BY <1>1, <1>2 DEF SellRun, OffersSound, Apart, Statistics, OptPrices, UInts, Frames, Buckets
<1>4. /\ filled \in Int /\ filled <= 0 /\ mem[f.index] <= filled
      /\ filled >= -f.open_vol
      /\ filled = mem[f.index] \/ filled = -f.open_vol
  <2> DEFINE asked == -f.open_vol
  <2>1. asked \in Int /\ asked < 0
    BY <1>2
  <2> HIDE DEF asked
  <2>2. filled = Consumed(mem[f.index], asked)
    BY DEF asked
  <2>3. /\ filled \in Int /\ filled <= 0 /\ mem[f.index] <= filled
        /\ filled >= asked /\ (filled = mem[f.index] \/ filled = asked)
    BY <1>2, <1>3, <2>1, <2>2, ConsumedFacts
  <2> QED
    BY <2>3 DEF asked
<1>5. /\ f2.volume = f.volume /\ f2.index = f.index - 1
      /\ f2.n_iterations = f.n_iterations - 1
      /\ f2.open_vol = f.open_vol + filled
  BY DEF Advanced, Frames
<1>6. /\ mem2 \in [Cells -> Int]
      /\ mem2[f.index] = mem[f.index] - filled
      /\ \A i \in Buckets : i # f.index => mem2[i] = mem[i]
  BY <1>1, <1>2, <1>4 DEF Buckets, Cells
<1>7. f.index \in Int /\ f.n_iterations \in Int
  BY DEF Frames
<1>8. OffersSound(mem2, base, s)
  <2>1. \A i \in Buckets : mem[i] > 0 => i # f.index
    BY <1>2, <1>3
  <2>2. \A i \in Buckets : mem2[i] > 0 => mem[i] > 0
    BY <1>4, <1>6, <1>2
  <2> QED
    BY <2>1, <2>2, <1>6 DEF SellRun, OffersSound
<1>9. \A i \in Buckets : mem2[i] < 0 =>
         /\ s.lowest_bid <= base + i /\ base + i <= s.best_bid
         /\ i <= f2.index + 1
         /\ f2.open_vol # 0 => i <= f2.index
  <2> SUFFICES ASSUME NEW i \in Buckets, mem2[i] < 0
               PROVE  /\ s.lowest_bid <= base + i /\ base + i <= s.best_bid
                      /\ i <= f2.index + 1
                      /\ f2.open_vol # 0 => i <= f2.index
    OBVIOUS
  <2>1. CASE i = f.index
    <3>1. mem[i] < 0 /\ filled # mem[i]
      BY <2>1, <1>2, <1>4, <1>6
    <3>2. f2.open_vol = 0
      BY <3>1, <2>1, <1>2, <1>4, <1>5
    <3> QED
      BY <3>1, <3>2, <2>1, <1>5, <1>7 DEF SellRun
  <2>2. CASE i # f.index
    <3>1. mem[i] < 0
      BY <2>2, <1>6
    <3>2. i <= f.index
      BY <3>1, <1>2 DEF SellRun
    <3> QED
      BY <3>1, <3>2, <2>2, <1>5, <1>7 DEF SellRun, Buckets
  <2> QED
    BY <2>1, <2>2
<1>10. base + f2.index >= s.lowest_bid => mem2[s.lowest_bid - base] < 0
  <2>1. s.lowest_bid - base \in Buckets /\ s.lowest_bid \in Int
    BY DEF SellRun, Statistics, OptPrices, UInts
  <2>2. mem[s.lowest_bid - base] < 0
    BY <1>1 DEF SellRun
  <2>3. base + f2.index >= s.lowest_bid => s.lowest_bid - base # f.index
    BY <1>5, <1>7, <2>1
  <2> QED
    BY <2>1, <2>2, <2>3, <1>6
<1>11. /\ s.lowest_bid - 1 <= base + f2.index /\ base + f2.index <= s.best_bid
       /\ f2.n_iterations = (base + f2.index) - s.lowest_bid
       /\ f2.open_vol >= 0
  BY <1>1, <1>2, <1>4, <1>5, <1>7 DEF SellRun, Statistics, OptPrices, UInts
<1> QED
  BY <1>1, <1>8, <1>9, <1>10, <1>11 DEF SellRun
-----------------------------------------------------------------------------
(***************************************************************************)
(* The statistics at the end of run_through_book.                          *)
(***************************************************************************)
\* A search that starts at a bucket with volume ends there.
LEMMA FindSelf ==
    ASSUME NEW base \in Nat, NEW mem \in [Cells -> Int],
           NEW start \in PricesOf(base), NEW end \in PricesOf(base) \cup {None},
           mem[start - base] # 0
    PROVE  FindLiquid(mem, base, start, end) = start
<1> DEFINE r == FindLiquid(mem, base, start, end)
           last == IF end = None THEN start ELSE end
<1>1. start \in Nat /\ last \in Nat
  BY LengthAssumption DEF PricesOf, None
<1>2. CASE start <= last
  <2>1. /\ r = None => \A p \in start..last : mem[p - base] = 0
        /\ r # None => /\ r \in start..last /\ mem[r - base] # 0
                       /\ \A p \in start..(r - 1) : mem[p - base] = 0
    BY <1>2, FindUp
  <2> HIDE DEF r
  <2>2. r # None
    BY <2>1, <1>1, <1>2
  <2>3. r = start
    BY <2>1, <2>2, <1>1, <1>2
  <2> QED
    BY <2>3 DEF r
<1>3. CASE ~ (start <= last)
  <2>1. end \in PricesOf(base) /\ end <= start
    BY <1>1, <1>3
  <2>2. /\ r = None => \A p \in end..start : mem[p - base] = 0
        /\ r # None => /\ r \in end..start /\ mem[r - base] # 0
                       /\ \A p \in (r + 1)..start : mem[p - base] = 0
    BY <2>1, FindDown
  <2> HIDE DEF r
  <2>3. end \in Nat
    BY <2>1, LengthAssumption DEF PricesOf
  <2>4. r # None
    BY <2>1, <2>2, <2>3, <1>1
  <2>5. r = start
    BY <2>1, <2>2, <2>3, <2>4, <1>1
  <2> QED
    BY <2>5 DEF r
<1> QED
  BY <1>2, <1>3

\* The statistics of a sound book are prices of the array.
LEMMA SoundPrices ==
    ASSUME NEW base \in Nat, NEW mem, NEW s \in Statistics
    PROVE  /\ BidsSound(mem, base, s) =>
                /\ s.best_bid \in PricesOf(base) \cup {None}
                /\ s.lowest_bid \in PricesOf(base) \cup {None}
           /\ OffersSound(mem, base, s) =>
                /\ s.best_offer \in PricesOf(base) \cup {None}
                /\ s.highest_offer \in PricesOf(base) \cup {None}
BY LengthAssumption DEF BidsSound, OffersSound, Statistics, OptPrices, UInts,
   PricesOf, Buckets, None

\* A run that does nothing leaves the statistics as they are.
LEMMA SettledDummy ==
    ASSUME NEW mem \in [Cells -> Int], NEW base \in Nat, NEW s \in Statistics,
           NEW f \in Frames, f.dummy, Sound(mem, base, s)
    PROVE  Settled(f, s, mem, base) = s
<1>1. s.best_offer # None =>
        FindLiquid(mem, base, s.best_offer, None) = s.best_offer
  <2> HAVE s.best_offer # None
  <2>1. s.best_offer \in PricesOf(base) /\ mem[s.best_offer - base] # 0
    BY SoundPrices DEF Sound, OffersSound
  <2> QED
    BY <2>1, FindSelf
<1>2. s.best_bid # None =>
        FindLiquid(mem, base, s.best_bid, None) = s.best_bid
  <2> HAVE s.best_bid # None
  <2>1. s.best_bid \in PricesOf(base) /\ mem[s.best_bid - base] # 0
    BY SoundPrices DEF Sound, BidsSound
  <2> QED
    BY <2>1, FindSelf
<1>3. /\ Settled(f, s, mem, base).best_bid = s.best_bid
      /\ Settled(f, s, mem, base).best_offer = s.best_offer
  BY <1>1, <1>2 DEF Settled
<1>4. /\ Settled(f, s, mem, base).lowest_bid = s.lowest_bid
      /\ Settled(f, s, mem, base).highest_offer = s.highest_offer
  BY <1>3 DEF Settled, Sound, BidsSound, OffersSound
<1>5. Settled(f, s, mem, base) \in
        [best_bid : {s.best_bid}, lowest_bid : {s.lowest_bid},
         best_offer : {s.best_offer}, highest_offer : {s.highest_offer}]
  BY <1>3, <1>4 DEF Settled
<1> QED
  BY <1>5 DEF Statistics

\* A buy run that has ended leaves a sound book, and one without any supply
\* when the order was not filled.
LEMMA SettledBuy ==
    ASSUME NEW mem \in [Cells -> Int], NEW base \in Nat, NEW s \in Statistics,
           NEW f \in Frames, ~f.dummy, f.volume < 0,
           BuyRun(f, mem, base, s), ~Running(f),
           NEW s2, s2 = Settled(f, s, mem, base)
    PROVE  /\ s2 \in Statistics
           /\ Sound(mem, base, s2)
           /\ f.open_vol # 0 => s2.best_offer = None
<1> DEFINE r == FindLiquid(mem, base, s.best_offer, s.highest_offer)
<1>1. /\ s.best_offer \in PricesOf(base) /\ s.highest_offer \in PricesOf(base)
      /\ s.best_offer # None /\ s.highest_offer # None
      /\ s.best_offer \in UInts /\ s.highest_offer \in UInts
  BY LengthAssumption DEF BuyRun, Statistics, OptPrices, UInts, PricesOf, Buckets
<1>2. s.best_offer <= s.highest_offer
  BY DEF BuyRun
<1>3. /\ r = None => \A p \in s.best_offer..s.highest_offer : mem[p - base] = 0
      /\ r # None => /\ r \in s.best_offer..s.highest_offer /\ mem[r - base] # 0
                     /\ \A p \in s.best_offer..(r - 1) : mem[p - base] = 0
  BY <1>1, <1>2, FindUp
<1>4. /\ s2.best_bid = s.best_bid /\ s2.best_offer = r
      /\ s2.lowest_bid = s.lowest_bid
      /\ s2.highest_offer = IF r = None THEN None ELSE s.highest_offer
  BY <1>1 DEF Settled, BuyRun, BidsSound
<1> HIDE DEF r
<1>5. s2 \in Statistics
  <2>1. r \in OptPrices
    <3>1. CASE r = None
      BY <3>1 DEF OptPrices
    <3>2. CASE r # None
      BY <3>2, <1>1, <1>3, WidthAssumption DEF OptPrices, UInts
    <3> QED
      BY <3>1, <3>2
  <2>2. s2 = [best_bid |-> s2.best_bid, lowest_bid |-> s2.lowest_bid,
              best_offer |-> s2.best_offer, highest_offer |-> s2.highest_offer]
    BY DEF Settled
  <2> QED
    BY <2>1, <2>2, <1>4 DEF Statistics, OptPrices
<1>6. BidsSound(mem, base, s2)
  BY <1>4 DEF BuyRun, BidsSound
<1>7. \A i \in Buckets : mem[i] > 0 => r # None /\ r <= base + i
  <2> SUFFICES ASSUME NEW i \in Buckets, mem[i] > 0
               PROVE  r # None /\ r <= base + i
    OBVIOUS
  <2>1. base + i \in s.best_offer..s.highest_offer /\ (base + i) - base = i
    BY <1>1 DEF BuyRun, Buckets, UInts
  <2>2. r # None
    BY <2>1, <1>3
  <2>3. ~ (base + i <= r - 1)
    BY <2>1, <2>2, <1>3, <1>1 DEF UInts
  <2> QED
    BY <2>1, <2>2, <2>3, <1>3, <1>1 DEF UInts, Buckets
<1>8. r # None => r - base \in Buckets /\ mem[r - base] > 0
  <2> HAVE r # None
  <2>1. r - base \in Buckets /\ r \in Int /\ r >= s.best_offer
    BY <1>1, <1>3, LengthAssumption DEF PricesOf, Buckets
  <2>2. mem[r - base] \in Int
    BY <2>1, LengthAssumption DEF Buckets, Cells
  <2>3. ~ (mem[r - base] < 0)
    BY <2>1, <1>1 DEF BuyRun, BidsSound, Apart, Statistics, OptPrices, UInts, None
  <2> QED
    BY <2>1, <2>2, <2>3, <1>3
<1>9. r # None => mem[s.highest_offer - base] > 0
  <2> HAVE r # None
  <2>1. CASE base + f.index <= s.highest_offer
    BY <2>1 DEF BuyRun
  <2>2. CASE base + f.index > s.highest_offer
    <3>1. base + f.index = s.highest_offer + 1 /\ f.index \in Int
      BY <2>2, <1>1 DEF BuyRun, Frames, UInts
    <3>2. r - base >= f.index - 1
      BY <1>8 DEF BuyRun
    <3>3. r = s.highest_offer
      BY <3>1, <3>2, <1>3, <1>1 DEF UInts
    <3> QED
      BY <3>3, <1>8
  <2> QED
    BY <2>1, <2>2, <1>1 DEF Frames, UInts
<1>10. OffersSound(mem, base, s2)
  <2>1. \A i \in Buckets : mem[i] > 0 => base + i <= s.highest_offer
    BY DEF BuyRun
  <2> QED
    BY <2>1, <1>1, <1>4, <1>7, <1>8, <1>9 DEF OffersSound, BuyRun
<1>11. Apart(s2)
  BY <1>1, <1>3, <1>4 DEF Apart, BuyRun, Statistics, OptPrices, UInts, None
<1>12. f.open_vol # 0 => r = None
  <2> HAVE f.open_vol # 0
  <2>1. f.index \in Int /\ f.index >= 0 /\ f.n_iterations \in Int
    BY <1>1 DEF BuyRun, Frames, PricesOf
  <2>2. f.n_iterations < 0
    BY <2>1 DEF Running
  <2>3. base + f.index > s.highest_offer
    BY <2>1, <2>2, <1>1 DEF BuyRun, UInts
  <2>4. r # None => r - base >= f.index
    BY <1>8 DEF BuyRun
  <2> QED
    BY <2>1, <2>3, <2>4, <1>3, <1>1 DEF UInts
<1> QED
  BY <1>4, <1>5, <1>6, <1>10, <1>11, <1>12 DEF Sound

\* The same of a sell run, with the demand.
LEMMA SettledSell ==
    ASSUME NEW mem \in [Cells -> Int], NEW base \in Nat, NEW s \in Statistics,
           NEW f \in Frames, ~f.dummy, f.volume > 0,
           SellRun(f, mem, base, s), ~Running(f),
           NEW s2, s2 = Settled(f, s, mem, base)
    PROVE  /\ s2 \in Statistics
           /\ Sound(mem, base, s2)
           /\ f.open_vol # 0 => s2.best_bid = None
<1> DEFINE r == FindLiquid(mem, base, s.best_bid, s.lowest_bid)
<1>1. /\ s.best_bid \in PricesOf(base) /\ s.lowest_bid \in PricesOf(base)
      /\ s.best_bid # None /\ s.lowest_bid # None
      /\ s.best_bid \in UInts /\ s.lowest_bid \in UInts
  BY LengthAssumption DEF SellRun, Statistics, OptPrices, UInts, PricesOf, Buckets
<1>2. s.lowest_bid <= s.best_bid
  BY DEF SellRun
<1>3. /\ r = None => \A p \in s.lowest_bid..s.best_bid : mem[p - base] = 0
      /\ r # None => /\ r \in s.lowest_bid..s.best_bid /\ mem[r - base] # 0
                     /\ \A p \in (r + 1)..s.best_bid : mem[p - base] = 0
  BY <1>1, <1>2, FindDown
<1>4. /\ s2.best_bid = r /\ s2.best_offer = s.best_offer
      /\ s2.highest_offer = s.highest_offer
      /\ s2.lowest_bid = IF r = None THEN None ELSE s.lowest_bid
  <2>1. ~ (f.volume < 0)
    BY DEF Frames
  <2> QED
    BY <1>1, <2>1 DEF Settled, SellRun, OffersSound
<1> HIDE DEF r
<1>5. s2 \in Statistics
  <2>1. r \in OptPrices
    <3>1. CASE r = None
      BY <3>1 DEF OptPrices
    <3>2. CASE r # None
      BY <3>2, <1>1, <1>3, WidthAssumption DEF OptPrices, UInts
    <3> QED
      BY <3>1, <3>2
  <2>2. s2 = [best_bid |-> s2.best_bid, lowest_bid |-> s2.lowest_bid,
              best_offer |-> s2.best_offer, highest_offer |-> s2.highest_offer]
    BY DEF Settled
  <2> QED
    BY <2>1, <2>2, <1>4 DEF Statistics, OptPrices
<1>6. OffersSound(mem, base, s2)
  BY <1>4 DEF SellRun, OffersSound
<1>7. \A i \in Buckets : mem[i] < 0 => r # None /\ base + i <= r
  <2> SUFFICES ASSUME NEW i \in Buckets, mem[i] < 0
               PROVE  r # None /\ base + i <= r
    OBVIOUS
  <2>1. base + i \in s.lowest_bid..s.best_bid /\ (base + i) - base = i
    BY <1>1 DEF SellRun, Buckets, UInts
  <2>2. r # None
    BY <2>1, <1>3
  <2>3. ~ (base + i >= r + 1)
    BY <2>1, <2>2, <1>3, <1>1 DEF UInts
  <2> QED
    BY <2>1, <2>2, <2>3, <1>3, <1>1 DEF UInts, Buckets
<1>8. r # None => r - base \in Buckets /\ mem[r - base] < 0
  <2> HAVE r # None
  <2>1. r - base \in Buckets /\ r \in Int /\ r <= s.best_bid
    BY <1>1, <1>3, LengthAssumption DEF PricesOf, Buckets
  <2>2. mem[r - base] \in Int
    BY <2>1, LengthAssumption DEF Buckets, Cells
  <2>3. ~ (mem[r - base] > 0)
    BY <2>1, <1>1 DEF SellRun, OffersSound, Apart, Statistics, OptPrices, UInts, None
  <2> QED
    BY <2>1, <2>2, <2>3, <1>3
<1>9. r # None => mem[s.lowest_bid - base] < 0
  <2> HAVE r # None
  <2>1. CASE base + f.index >= s.lowest_bid
    BY <2>1 DEF SellRun
  <2>2. CASE base + f.index < s.lowest_bid
    <3>1. base + f.index = s.lowest_bid - 1 /\ f.index \in Int
      BY <2>2, <1>1 DEF SellRun, Frames, UInts
    <3>2. r - base <= f.index + 1
      BY <1>8 DEF SellRun
    <3>3. r = s.lowest_bid
      BY <3>1, <3>2, <1>3, <1>1 DEF UInts
    <3> QED
      BY <3>3, <1>8
  <2> QED
    BY <2>1, <2>2, <1>1 DEF Frames, UInts
<1>10. BidsSound(mem, base, s2)
  <2>1. \A i \in Buckets : mem[i] < 0 => s.lowest_bid <= base + i
    BY DEF SellRun
  <2> QED
    BY <2>1, <1>1, <1>4, <1>7, <1>8, <1>9 DEF BidsSound, SellRun
<1>11. Apart(s2)
  BY <1>1, <1>3, <1>4 DEF Apart, SellRun, Statistics, OptPrices, UInts, None
<1>12. f.open_vol # 0 => r = None
  <2> HAVE f.open_vol # 0
  <2>1. f.index \in Int /\ f.n_iterations \in Int
    BY DEF Frames
  <2>2. f.n_iterations < 0 \/ f.index < 0
    BY <2>1 DEF Running
  <2>3. base + f.index < s.lowest_bid
    BY <2>1, <2>2, <1>1 DEF SellRun, UInts, PricesOf
  <2>4. r # None => r - base <= f.index
    BY <1>8 DEF SellRun
  <2> QED
    BY <2>1, <2>3, <2>4, <1>3, <1>1 DEF UInts
<1> QED
  BY <1>4, <1>5, <1>6, <1>10, <1>11, <1>12 DEF Sound
-----------------------------------------------------------------------------
(***************************************************************************)
(* The handlers.                                                           *)
(***************************************************************************)
\* The locals of run_through_book fit a sound book when the run ends at the
\* far end of the other side, or is a dummy.
LEMMA RunBegins ==
    ASSUME NEW mem \in [Cells -> Int], NEW base, BaseFits(base),
           NEW s \in Statistics, Sound(mem, base, s), NEW volume \in Int,
           NEW end_price, end_price = -1 \/ end_price = FarEnd(volume, s),
           NEW f, f = RunFrame(volume, end_price, s, base)
    PROVE  /\ f \in Frames /\ f.volume = volume
           /\ RunSound(f, mem, base, s)
           /\ f.dummy <=> \/ end_price = -1 \/ volume = 0
                          \/ volume < 0 /\ s.best_offer = None
                          \/ volume > 0 /\ s.best_bid = None
<1> USE LengthAssumption, WidthAssumption DEF None
<1>1. base \in Nat /\ Int32(base) = base
  BY DEF BaseFits, Int32
<1>2. /\ s.best_bid \in PricesOf(base) \cup {None}
      /\ s.lowest_bid \in PricesOf(base) \cup {None}
      /\ s.best_offer \in PricesOf(base) \cup {None}
      /\ s.highest_offer \in PricesOf(base) \cup {None}
  BY <1>1, SoundPrices DEF Sound
<1>3. /\ Int32(s.best_bid) = s.best_bid /\ Int32(s.lowest_bid) = s.lowest_bid
      /\ Int32(s.best_offer) = s.best_offer
      /\ Int32(s.highest_offer) = s.highest_offer
  BY <1>1, <1>2 DEF PricesOf, BaseFits, Int32
<1>4. /\ s.best_bid \in Int /\ s.lowest_bid \in Int
      /\ s.best_offer \in Int /\ s.highest_offer \in Int
  BY <1>1, <1>2 DEF PricesOf
<1>5. end_price \in Int
  BY <1>3, <1>4 DEF FarEnd
<1>6. f \in Frames /\ f.volume = volume /\ (f.dummy <=> end_price < 0)
  <2> DEFINE start == Int32(IF volume < 0 THEN s.best_offer ELSE s.best_bid)
             n == IF volume < 0 THEN end_price - start ELSE start - end_price
             open == IF end_price < 0 THEN 0 ELSE volume
  <2>1. start \in Int
    BY <1>3, <1>4
  <2>2. n \in Int /\ start - Int32(base) \in Int /\ open \in Int
    BY <1>1, <1>5, <2>1
  <2>3. f = [volume |-> volume, dummy |-> end_price < 0,
             index |-> start - Int32(base), n_iterations |-> n,
             open_vol |-> open, transaction_index |-> 0, order_revenue |-> 0]
    BY DEF RunFrame
  <2>4. (end_price < 0) \in BOOLEAN
    OBVIOUS
  <2> HIDE DEF start, n, open
  <2>5. f.volume = volume /\ (f.dummy <=> end_price < 0)
    <3>1. f.volume = volume
      BY <2>3
    <3>2. f.dummy = (end_price < 0)
      BY <2>3
    <3> QED
      BY <3>1, <3>2, Zenon
  <2>6. f \in Frames
    BY <2>2, <2>3, <2>4 DEF Frames
  <2> QED
    BY <2>5, <2>6
<1>7. f.dummy <=> \/ end_price = -1 \/ volume = 0
                  \/ volume < 0 /\ s.best_offer = None
                  \/ volume > 0 /\ s.best_bid = None
  BY <1>1, <1>2, <1>3, <1>6 DEF FarEnd, Sound, BidsSound, OffersSound, PricesOf
<1>8. f.dummy => f.open_vol = 0
  BY <1>6 DEF RunFrame
<1>9. ~f.dummy => volume # 0 /\ f.open_vol = volume
  BY <1>6, <1>7 DEF RunFrame
<1>10. ASSUME ~f.dummy, volume < 0 PROVE BuyRun(f, mem, base, s)
  <2>1. end_price = s.highest_offer /\ s.best_offer # None
    BY <1>3, <1>7, <1>10 DEF FarEnd
  <2>2. s.highest_offer # None
    BY <2>1 DEF Sound, OffersSound
  <2>3. s.best_offer - base \in Buckets /\ s.highest_offer - base \in Buckets
    BY <2>1, <2>2 DEF Sound, OffersSound
  <2>4. f.index = s.best_offer - base /\ f.n_iterations = s.highest_offer - s.best_offer
    BY <1>1, <1>3, <1>10, <2>1 DEF RunFrame
  <2>5. base + (s.best_offer - base) = s.best_offer
    BY <1>1, <1>4
  <2>6. s.best_offer <= s.highest_offer
    BY <2>1, <2>3, <2>5 DEF Sound, OffersSound
  <2> QED
    BY <1>1, <1>4, <1>9, <1>10, <2>1, <2>2, <2>3, <2>4, <2>5, <2>6
    DEF BuyRun, Sound, OffersSound, Buckets
<1>11. ASSUME ~f.dummy, volume > 0 PROVE SellRun(f, mem, base, s)
  <2>1. end_price = s.lowest_bid /\ s.best_bid # None
    BY <1>3, <1>7, <1>11 DEF FarEnd
  <2>2. s.lowest_bid # None
    BY <2>1 DEF Sound, BidsSound
  <2>3. s.best_bid - base \in Buckets /\ s.lowest_bid - base \in Buckets
    BY <2>1, <2>2 DEF Sound, BidsSound
  <2>4. f.index = s.best_bid - base /\ f.n_iterations = s.best_bid - s.lowest_bid
    BY <1>1, <1>3, <1>11, <2>1 DEF RunFrame
  <2>5. base + (s.best_bid - base) = s.best_bid
    BY <1>1, <1>4
  <2>6. s.lowest_bid <= s.best_bid
    BY <2>1, <2>3, <2>5 DEF Sound, BidsSound
  <2> QED
    BY <1>1, <1>4, <1>9, <1>11, <2>1, <2>2, <2>3, <2>4, <2>5, <2>6
    DEF SellRun, Sound, BidsSound, Buckets
<1> QED
  BY <1>6, <1>7, <1>8, <1>9, <1>10, <1>11 DEF RunSound

\* Volume that rests at a price on its own side of the book keeps it sound.
LEMMA RestedSound ==
    ASSUME NEW mem \in [Cells -> Int], NEW base, BaseFits(base),
           NEW s \in Statistics, Sound(mem, base, s),
           NEW price \in PricesOf(base), NEW volume \in Int, NEW unfilled \in Int,
           volume < 0 => /\ unfilled <= 0
                         /\ unfilled # 0 => \/ s.best_offer = None
                                            \/ price < s.best_offer,
           volume > 0 => /\ unfilled >= 0
                         /\ unfilled # 0 => \/ s.best_bid = None
                                            \/ price > s.best_bid,
           volume # 0,
           NEW mem2, mem2 = [mem EXCEPT ![price - base] = @ + unfilled],
           NEW s2, s2 = Rested(volume, unfilled, price, s)
    PROVE  mem2 \in [Cells -> Int] /\ s2 \in Statistics /\ Sound(mem2, base, s2)
<1> USE LengthAssumption, WidthAssumption DEF None
<1> DEFINE at == price - base
<1>1. base \in Nat /\ price \in UInts /\ at \in Buckets /\ base + at = price
  BY DEF BaseFits, PricesOf, UInts, Buckets
<1>2. at \in Cells /\ mem[at] \in Int
  BY <1>1 DEF Buckets, Cells
<1> HIDE DEF at
<1>3. mem2 = [mem EXCEPT ![at] = mem[at] + unfilled]
  BY DEF at
<1>4. /\ mem2 \in [Cells -> Int] /\ mem2[at] = mem[at] + unfilled
      /\ \A i \in Buckets : i # at => mem2[i] = mem[i]
  BY <1>1, <1>2, <1>3 DEF Buckets, Cells
<1>5. /\ s.best_bid \in PricesOf(base) \cup {None}
      /\ s.lowest_bid \in PricesOf(base) \cup {None}
      /\ s.best_offer \in PricesOf(base) \cup {None}
      /\ s.highest_offer \in PricesOf(base) \cup {None}
  BY <1>1, SoundPrices DEF Sound
<1>6. s2 \in Statistics
  BY <1>1 DEF Rested, Statistics, OptPrices
<1>7. CASE unfilled = 0
  <2>1. \A i \in Buckets : mem2[i] = mem[i]
    BY <1>2, <1>4, <1>7
  <2>2. /\ s2.best_bid = s.best_bid /\ s2.lowest_bid = s.lowest_bid
        /\ s2.best_offer = s.best_offer /\ s2.highest_offer = s.highest_offer
    BY <1>7 DEF Rested
  <2>3. Sound(mem2, base, s2)
    BY <2>1, <2>2 DEF Sound, BidsSound, OffersSound, Apart
  <2> QED
    BY <2>3, <1>4, <1>6
<1>8. CASE unfilled # 0 /\ volume < 0
  <2>1. /\ s2.best_offer = s.best_offer /\ s2.highest_offer = s.highest_offer
        /\ s2.best_bid = IF s.best_bid < price THEN price ELSE s.best_bid
        /\ s2.lowest_bid = IF s.lowest_bid = None \/ s.lowest_bid > price
                           THEN price ELSE s.lowest_bid
    BY <1>8 DEF Rested
  <2>2. mem[at] <= 0
    BY <1>1, <1>2, <1>5, <1>8 DEF Sound, OffersSound, PricesOf
  <2>3. mem2[at] < 0
    BY <2>2, <1>2, <1>4, <1>8
  <2>4. OffersSound(mem2, base, s2)
    <3>1. \A i \in Buckets : mem[i] > 0 => i # at
      BY <2>2, <1>2
    <3>2. \A i \in Buckets : mem2[i] > 0 => mem[i] > 0
      BY <2>3, <1>4
    <3> QED
      BY <3>1, <3>2, <2>1, <1>4 DEF Sound, OffersSound
  <2>5. BidsSound(mem2, base, s2)
    <3>1. \A i \in Buckets : mem2[i] < 0 =>
            s2.lowest_bid # None /\ s2.lowest_bid <= base + i /\ base + i <= s2.best_bid
      BY <1>1, <1>4, <1>5, <2>1 DEF Sound, BidsSound, PricesOf, UInts, Buckets
    <3>2. s2.best_bid # None => s2.best_bid - base \in Buckets /\ mem2[s2.best_bid - base] < 0
      BY <1>1, <1>4, <1>5, <2>1, <2>3 DEF Sound, BidsSound, at
    <3>3. s2.lowest_bid # None => s2.lowest_bid - base \in Buckets /\ mem2[s2.lowest_bid - base] < 0
      BY <1>1, <1>4, <1>5, <2>1, <2>3 DEF Sound, BidsSound, at
    <3>4. s2.best_bid # None /\ s2.lowest_bid # None
      BY <1>1, <1>5, <2>1 DEF UInts, PricesOf
    <3> QED
      BY <3>1, <3>2, <3>3, <3>4 DEF BidsSound
  <2>6. Apart(s2)
    BY <1>1, <1>5, <1>8, <2>1 DEF Sound, Apart, PricesOf
  <2> QED
    BY <2>4, <2>5, <2>6, <1>4, <1>6 DEF Sound
<1>9. CASE unfilled # 0 /\ volume > 0
  <2>1. /\ s2.best_bid = s.best_bid /\ s2.lowest_bid = s.lowest_bid
        /\ s2.highest_offer = IF s.highest_offer < price THEN price ELSE s.highest_offer
        /\ s2.best_offer = IF s.best_offer = None \/ s.best_offer > price
                           THEN price ELSE s.best_offer
    BY <1>9 DEF Rested
  <2>2. mem[at] >= 0
    BY <1>1, <1>2, <1>5, <1>9 DEF Sound, BidsSound, PricesOf
  <2>3. mem2[at] > 0
    BY <2>2, <1>2, <1>4, <1>9
  <2>4. BidsSound(mem2, base, s2)
    <3>1. \A i \in Buckets : mem[i] < 0 => i # at
      BY <2>2, <1>2
    <3>2. \A i \in Buckets : mem2[i] < 0 => mem[i] < 0
      BY <2>3, <1>4
    <3> QED
      BY <3>1, <3>2, <2>1, <1>4 DEF Sound, BidsSound
  <2>5. OffersSound(mem2, base, s2)
    <3>1. \A i \in Buckets : mem2[i] > 0 =>
            s2.best_offer # None /\ s2.best_offer <= base + i /\ base + i <= s2.highest_offer
      BY <1>1, <1>4, <1>5, <2>1 DEF Sound, OffersSound, PricesOf, UInts, Buckets
    <3>2. s2.best_offer # None => s2.best_offer - base \in Buckets /\ mem2[s2.best_offer - base] > 0
      BY <1>1, <1>4, <1>5, <2>1, <2>3 DEF Sound, OffersSound, at
    <3>3. s2.highest_offer # None => s2.highest_offer - base \in Buckets /\ mem2[s2.highest_offer - base] > 0
      BY <1>1, <1>4, <1>5, <2>1, <2>3 DEF Sound, OffersSound, at
    <3>4. s2.best_offer # None /\ s2.highest_offer # None
      BY <1>1, <1>5, <2>1 DEF UInts, PricesOf
    <3> QED
      BY <3>1, <3>2, <3>3, <3>4 DEF OffersSound
  <2>6. Apart(s2)
    BY <1>1, <1>5, <1>9, <2>1 DEF Sound, Apart, PricesOf
  <2> QED
    BY <2>4, <2>5, <2>6, <1>4, <1>6 DEF Sound
<1> QED
  BY <1>7, <1>8, <1>9

\* The demand side after its bucket at a price was emptied
LEMMA BidsEmptied ==
    ASSUME NEW mem \in [Cells -> Int], NEW base \in Nat, NEW s \in Statistics,
           BidsSound(mem, base, s), NEW price \in PricesOf(base),
           mem[price - base] < 0,
           \A i \in Buckets : base + i <= s.best_bid => mem[i] <= 0,
           NEW mem2 \in [Cells -> Int], mem2[price - base] = 0,
           \A i \in Buckets : i # price - base => mem2[i] = mem[i],
           NEW best, best = IF s.best_bid # price THEN s.best_bid
                            ELSE FindLiquid(mem2, base, price, s.lowest_bid),
           NEW lowest, lowest = IF s.lowest_bid # price THEN s.lowest_bid
                                ELSE FindLiquid(mem2, base, price, best),
           NEW s2 \in Statistics, s2.best_bid = best, s2.lowest_bid = lowest
    PROVE  BidsSound(mem2, base, s2) /\ (best # None => best <= s.best_bid)
<1> USE LengthAssumption DEF None
<1> DEFINE at == price - base
<1>1. /\ price \in Int /\ at \in Buckets /\ at \in Cells /\ base + at = price
  BY DEF PricesOf, Buckets, Cells
<1> HIDE DEF at
<1>2. /\ mem[at] < 0 /\ mem2[at] = 0
      /\ \A i \in Buckets : i # at => mem2[i] = mem[i]
  BY DEF at
<1>3. /\ s.best_bid # None /\ s.lowest_bid # None
      /\ s.lowest_bid <= price /\ price <= s.best_bid
  BY <1>1, <1>2 DEF BidsSound
<1>4. /\ s.best_bid \in PricesOf(base) /\ s.lowest_bid \in PricesOf(base)
      /\ s.best_bid \in Int /\ s.lowest_bid \in Int
  BY <1>3, SoundPrices DEF PricesOf
<1>5. \A p \in PricesOf(base) : p \in Int /\ p - base \in Buckets /\ base + (p - base) = p
  BY DEF PricesOf, Buckets
<1>6. \A p \in PricesOf(base) : p # price => mem2[p - base] = mem[p - base]
  BY <1>1, <1>2, <1>5
<1>7. \A p \in PricesOf(base) : p <= s.best_bid => mem[p - base] <= 0
  BY <1>5
<1>8. \A i \in Buckets : mem2[i] < 0 =>
        mem[i] < 0 /\ base + i # price /\ s.lowest_bid <= base + i /\ base + i <= s.best_bid
  BY <1>1, <1>2, <1>5 DEF BidsSound, Buckets
<1>9. \A i \in Buckets : base + i \in PricesOf(base) /\ (base + i) - base = i
  BY DEF PricesOf, Buckets
<1>13. \A p \in PricesOf(base) : mem[p - base] \in Int
  BY <1>5 DEF Buckets, Cells
<1>10. CASE s.best_bid = price /\ s.lowest_bid = price
  <2>1. best = None
    <3>1. best = FindLiquid(mem2, base, price, price) /\ price <= price
      BY <1>1, <1>10
    <3>2. /\ best = None => \A p \in price..price : mem2[p - base] = 0
          /\ best # None => /\ best \in price..price /\ mem2[best - base] # 0
                            /\ \A p \in (best + 1)..price : mem2[p - base] = 0
      BY <3>1, <1>1, FindDown
    <3> QED
      BY <3>2, <1>1, <1>2 DEF at
  <2>2. lowest = None
    <3>1. lowest = FindLiquid(mem2, base, price, None)
      BY <1>10, <2>1
    <3>2. lowest # None => lowest \in price..price /\ mem2[lowest - base] # 0
      BY <3>1, <1>1, FindUp
    <3> QED
      BY <3>2, <1>1, <1>2 DEF at
  <2>3. \A i \in Buckets : ~ (mem2[i] < 0)
    BY <1>8, <1>10, <1>5, <1>9
  <2> QED
    BY <2>1, <2>2, <2>3 DEF BidsSound
<1>11. CASE s.best_bid = price /\ s.lowest_bid # price
  <2>1. /\ best = None => \A p \in s.lowest_bid..price : mem2[p - base] = 0
        /\ best # None => /\ best \in s.lowest_bid..price /\ mem2[best - base] # 0
                          /\ \A p \in (best + 1)..price : mem2[p - base] = 0
    BY <1>3, <1>4, <1>11, FindDown
  <2>2. mem2[s.lowest_bid - base] < 0 /\ lowest = s.lowest_bid
    BY <1>3, <1>4, <1>6, <1>11 DEF BidsSound
  <2>3. best # None
    BY <2>1, <2>2, <1>3, <1>4, <1>5
  <2>4. best \in PricesOf(base) /\ s.lowest_bid <= best /\ best <= price /\ best \in Int
    BY <2>1, <2>3, <1>3, <1>4, <1>1 DEF PricesOf
  <2>5. \A i \in Buckets : mem2[i] < 0 => base + i <= best
    <3> SUFFICES ASSUME NEW i \in Buckets, mem2[i] < 0 PROVE base + i <= best
      OBVIOUS
    <3>1. base + i \in Int /\ base + i <= price /\ (base + i) - base = i
      BY <1>8, <1>9, <1>5, <1>11
    <3>2. base + i \notin (best + 1)..price
      BY <3>1, <2>1, <2>3
    <3> QED
      BY <3>1, <3>2, <2>4, <1>1
  <2>6. mem2[best - base] < 0
    <3>1. best # price
      BY <2>1, <2>3, <1>2 DEF at
    <3>2. mem[best - base] # 0 /\ mem[best - base] \in Int
      <4>1. mem2[best - base] = mem[best - base] /\ mem[best - base] \in Int
        BY <3>1, <2>4, <1>6, <1>13
      <4> QED
        BY <4>1, <2>1, <2>3
    <3> QED
      <4>1. mem[best - base] <= 0 /\ mem2[best - base] = mem[best - base]
        BY <3>1, <2>4, <1>3, <1>6, <1>7, <1>11
      <4> QED
        BY <4>1, <3>2
  <2> QED
    BY <2>2, <2>3, <2>4, <2>5, <2>6, <1>3, <1>4, <1>5, <1>8, <1>11 DEF BidsSound
<1>12. CASE s.best_bid # price
  <2>1. best = s.best_bid /\ best \in PricesOf(base) /\ mem2[best - base] < 0
    BY <1>3, <1>4, <1>6, <1>12 DEF BidsSound
  <2>2. CASE s.lowest_bid # price
    <3>1. lowest = s.lowest_bid /\ mem2[lowest - base] < 0
      BY <1>3, <1>4, <1>6, <2>2 DEF BidsSound
    <3> QED
      BY <2>1, <3>1, <1>3, <1>4, <1>5, <1>8 DEF BidsSound
  <2>3. CASE s.lowest_bid = price
    <3>1. /\ lowest = None => \A p \in price..best : mem2[p - base] = 0
          /\ lowest # None => /\ lowest \in price..best /\ mem2[lowest - base] # 0
                              /\ \A p \in price..(lowest - 1) : mem2[p - base] = 0
      BY <2>1, <2>3, <1>3, <1>4, <1>5, FindUp
    <3>2. lowest # None
      <4>1. best \in price..best
        BY <2>1, <1>1, <1>3, <1>4
      <4> QED
        BY <4>1, <3>1, <2>1
    <3>3. lowest \in PricesOf(base) /\ price <= lowest /\ lowest <= best /\ lowest \in Int
      BY <3>1, <3>2, <2>1, <1>1, <1>4, <1>5 DEF PricesOf
    <3>4. \A i \in Buckets : mem2[i] < 0 => lowest <= base + i
      <4> SUFFICES ASSUME NEW i \in Buckets, mem2[i] < 0 PROVE lowest <= base + i
        OBVIOUS
      <4>1. base + i \in Int /\ price <= base + i /\ (base + i) - base = i
        BY <1>8, <1>9, <1>5, <2>3
      <4>2. base + i \notin price..(lowest - 1)
        BY <4>1, <3>1, <3>2
      <4> QED
        BY <4>1, <4>2, <3>3, <1>1
    <3>5. mem2[lowest - base] < 0
      <4>1. lowest # price
        BY <3>1, <3>2, <1>2 DEF at
      <4>2. mem[lowest - base] # 0 /\ mem[lowest - base] \in Int
        <5>1. mem2[lowest - base] = mem[lowest - base] /\ mem[lowest - base] \in Int
          BY <4>1, <3>3, <1>6, <1>13
        <5> QED
          BY <5>1, <3>1, <3>2
      <4> QED
        <5>1. mem[lowest - base] <= 0 /\ mem2[lowest - base] = mem[lowest - base]
          BY <4>1, <3>3, <2>1, <1>6, <1>7
        <5> QED
          BY <5>1, <4>2
    <3> QED
      BY <2>1, <3>2, <3>3, <3>4, <3>5, <1>3, <1>5, <1>8 DEF BidsSound
  <2> QED
    BY <2>2, <2>3
<1> QED
  BY <1>10, <1>11, <1>12

\* The supply side after its bucket at a price was emptied
LEMMA OffersEmptied ==
    ASSUME NEW mem \in [Cells -> Int], NEW base \in Nat, NEW s \in Statistics,
           OffersSound(mem, base, s), NEW price \in PricesOf(base),
           mem[price - base] > 0,
           \A i \in Buckets : base + i >= s.best_offer => mem[i] >= 0,
           NEW mem2 \in [Cells -> Int], mem2[price - base] = 0,
           \A i \in Buckets : i # price - base => mem2[i] = mem[i],
           NEW best, best = IF s.best_offer # price THEN s.best_offer
                            ELSE FindLiquid(mem2, base, price, s.highest_offer),
           NEW highest, highest = IF s.highest_offer # price THEN s.highest_offer
                                  ELSE FindLiquid(mem2, base, price, best),
           NEW s2 \in Statistics, s2.best_offer = best, s2.highest_offer = highest
    PROVE  OffersSound(mem2, base, s2) /\ (best # None => best >= s.best_offer)
<1> USE LengthAssumption DEF None
<1> DEFINE at == price - base
<1>1. /\ price \in Int /\ at \in Buckets /\ at \in Cells /\ base + at = price
  BY DEF PricesOf, Buckets, Cells
<1> HIDE DEF at
<1>2. /\ mem[at] > 0 /\ mem2[at] = 0
      /\ \A i \in Buckets : i # at => mem2[i] = mem[i]
  BY DEF at
<1>3. /\ s.best_offer # None /\ s.highest_offer # None
      /\ s.best_offer <= price /\ price <= s.highest_offer
  BY <1>1, <1>2 DEF OffersSound
<1>4. /\ s.best_offer \in PricesOf(base) /\ s.highest_offer \in PricesOf(base)
      /\ s.best_offer \in Int /\ s.highest_offer \in Int
  BY <1>3, SoundPrices DEF PricesOf
<1>5. \A p \in PricesOf(base) : p \in Int /\ p - base \in Buckets /\ base + (p - base) = p
  BY DEF PricesOf, Buckets
<1>6. \A p \in PricesOf(base) : p # price => mem2[p - base] = mem[p - base]
  BY <1>1, <1>2, <1>5
<1>7. \A p \in PricesOf(base) : p >= s.best_offer => mem[p - base] >= 0
  BY <1>5
<1>8. \A i \in Buckets : mem2[i] > 0 =>
        mem[i] > 0 /\ base + i # price /\ s.best_offer <= base + i /\ base + i <= s.highest_offer
  BY <1>1, <1>2, <1>5 DEF OffersSound, Buckets
<1>9. \A i \in Buckets : base + i \in PricesOf(base) /\ (base + i) - base = i
  BY DEF PricesOf, Buckets
<1>13. \A p \in PricesOf(base) : mem[p - base] \in Int
  BY <1>5 DEF Buckets, Cells
<1>10. CASE s.best_offer = price /\ s.highest_offer = price
  <2>1. best = None
    <3>1. best = FindLiquid(mem2, base, price, price) /\ price <= price
      BY <1>1, <1>10
    <3>2. best # None => best \in price..price /\ mem2[best - base] # 0
      BY <3>1, <1>1, FindUp
    <3> QED
      BY <3>2, <1>1, <1>2 DEF at
  <2>2. highest = None
    <3>1. highest = FindLiquid(mem2, base, price, None)
      BY <1>10, <2>1
    <3>2. highest # None => highest \in price..price /\ mem2[highest - base] # 0
      BY <3>1, <1>1, FindUp
    <3> QED
      BY <3>2, <1>1, <1>2 DEF at
  <2>3. \A i \in Buckets : ~ (mem2[i] > 0)
    BY <1>8, <1>10, <1>5, <1>9
  <2> QED
    BY <2>1, <2>2, <2>3 DEF OffersSound
<1>11. CASE s.best_offer = price /\ s.highest_offer # price
  <2>1. /\ best = None => \A p \in price..s.highest_offer : mem2[p - base] = 0
        /\ best # None => /\ best \in price..s.highest_offer /\ mem2[best - base] # 0
                          /\ \A p \in price..(best - 1) : mem2[p - base] = 0
    BY <1>3, <1>4, <1>11, FindUp
  <2>2. mem2[s.highest_offer - base] > 0 /\ highest = s.highest_offer
    BY <1>3, <1>4, <1>6, <1>11 DEF OffersSound
  <2>3. best # None
    BY <2>1, <2>2, <1>3, <1>4, <1>5
  <2>4. best \in PricesOf(base) /\ price <= best /\ best <= s.highest_offer /\ best \in Int
    BY <2>1, <2>3, <1>3, <1>4, <1>1 DEF PricesOf
  <2>5. \A i \in Buckets : mem2[i] > 0 => best <= base + i
    <3> SUFFICES ASSUME NEW i \in Buckets, mem2[i] > 0 PROVE best <= base + i
      OBVIOUS
    <3>1. base + i \in Int /\ price <= base + i /\ (base + i) - base = i
      BY <1>8, <1>9, <1>5, <1>11
    <3>2. base + i \notin price..(best - 1)
      BY <3>1, <2>1, <2>3
    <3> QED
      BY <3>1, <3>2, <2>4, <1>1
  <2>6. mem2[best - base] > 0
    <3>1. best # price
      BY <2>1, <2>3, <1>2 DEF at
    <3>2. mem[best - base] # 0 /\ mem[best - base] \in Int
      <4>1. mem2[best - base] = mem[best - base] /\ mem[best - base] \in Int
        BY <3>1, <2>4, <1>6, <1>13
      <4> QED
        BY <4>1, <2>1, <2>3
    <3> QED
      <4>1. mem[best - base] >= 0 /\ mem2[best - base] = mem[best - base]
        BY <3>1, <2>4, <1>3, <1>6, <1>7, <1>11
      <4> QED
        BY <4>1, <3>2
  <2> QED
    BY <2>2, <2>3, <2>4, <2>5, <2>6, <1>3, <1>4, <1>5, <1>8, <1>11 DEF OffersSound
<1>12. CASE s.best_offer # price
  <2>1. best = s.best_offer /\ best \in PricesOf(base) /\ mem2[best - base] > 0
    BY <1>3, <1>4, <1>6, <1>12 DEF OffersSound
  <2>2. CASE s.highest_offer # price
    <3>1. highest = s.highest_offer /\ mem2[highest - base] > 0
      BY <1>3, <1>4, <1>6, <2>2 DEF OffersSound
    <3> QED
      BY <2>1, <3>1, <1>3, <1>4, <1>5, <1>8 DEF OffersSound
  <2>3. CASE s.highest_offer = price
    <3>1. /\ highest = None => \A p \in best..price : mem2[p - base] = 0
          /\ highest # None => /\ highest \in best..price /\ mem2[highest - base] # 0
                               /\ \A p \in (highest + 1)..price : mem2[p - base] = 0
      BY <2>1, <2>3, <1>3, <1>4, <1>5, FindDown
    <3>2. highest # None
      <4>1. best \in best..price
        BY <2>1, <1>1, <1>3, <1>4
      <4> QED
        BY <4>1, <3>1, <2>1
    <3>3. highest \in PricesOf(base) /\ best <= highest /\ highest <= price /\ highest \in Int
      BY <3>1, <3>2, <2>1, <1>1, <1>4, <1>5 DEF PricesOf
    <3>4. \A i \in Buckets : mem2[i] > 0 => base + i <= highest
      <4> SUFFICES ASSUME NEW i \in Buckets, mem2[i] > 0 PROVE base + i <= highest
        OBVIOUS
      <4>1. base + i \in Int /\ base + i <= price /\ (base + i) - base = i
        BY <1>8, <1>9, <1>5, <2>3
      <4>2. base + i \notin (highest + 1)..price
        BY <4>1, <3>1, <3>2
      <4> QED
        BY <4>1, <4>2, <3>3, <1>1
    <3>5. mem2[highest - base] > 0
      <4>1. highest # price
        BY <3>1, <3>2, <1>2 DEF at
      <4>2. mem[highest - base] # 0 /\ mem[highest - base] \in Int
        <5>1. mem2[highest - base] = mem[highest - base] /\ mem[highest - base] \in Int
          BY <4>1, <3>3, <1>6, <1>13
        <5> QED
          BY <5>1, <3>1, <3>2
      <4> QED
        <5>1. mem[highest - base] >= 0 /\ mem2[highest - base] = mem[highest - base]
          BY <4>1, <3>3, <2>1, <1>6, <1>7
        <5> QED
          BY <5>1, <4>2
    <3> QED
      BY <2>1, <3>2, <3>3, <3>4, <3>5, <1>3, <1>5, <1>8 DEF OffersSound
  <2> QED
    BY <2>2, <2>3
<1> QED
  BY <1>10, <1>11, <1>12

\* An order that is not priced one past the last bucket uses a bucket of the
\* array.
LEMMA UsedInner ==
    ASSUME NEW base, BaseFits(base), NEW o, o.volume \in Int, o.price \in UInts,
           o.volume # 0 => o.price # UInt32(base + BookLength)
    PROVE  /\ UsedVolume(o, base) \in Int
           /\ o.volume = 0 => UsedVolume(o, base) = 0
           /\ o.volume # 0 => UsedPrice(o, base) \in PricesOf(base)
           /\ UsedPrice(o, base) \in UInts
<1> USE LengthAssumption, WidthAssumption
<1>1. UInt32(base + BookLength) = base + BookLength /\ base \in UInts
  BY DEF UInt32, BaseFits, UInts
<1> QED
  BY <1>1 DEF UsedVolume, UsedPrice, InRange, PriceInRange, PricesOf, UInts, BaseFits

\* WithdrawLimitOrder::handle_order keeps a sound book.
LEMMA WithdrawSound ==
    ASSUME NEW mem \in [Cells -> Int], NEW base, BaseFits(base),
           NEW s \in Statistics, Sound(mem, base, s),
           NEW o, o.volume \in Int, o.price \in UInts,
           o.volume # 0 => o.price # UInt32(base + BookLength),
           NEW mem2, mem2 = WithdrawnMem(o, mem, base),
           NEW s2, s2 = WithdrawnStats(o, mem2, base, s)
    PROVE  mem2 \in [Cells -> Int] /\ s2 \in Statistics /\ Sound(mem2, base, s2)
<1> USE LengthAssumption, WidthAssumption DEF None
<1> DEFINE price == UsedPrice(o, base)
           at == price - base
           c == Withdrawn(o, mem, base)
           exhausted == o.volume = 0 \/ mem2[price - base] = 0
<1>1. base \in Nat
  BY DEF BaseFits
<1>2. /\ s.best_bid \in PricesOf(base) \cup {None}
      /\ s.lowest_bid \in PricesOf(base) \cup {None}
      /\ s.best_offer \in PricesOf(base) \cup {None}
      /\ s.highest_offer \in PricesOf(base) \cup {None}
  BY <1>1, SoundPrices DEF Sound
<1>3. s2 = [best_bid |-> s2.best_bid, lowest_bid |-> s2.lowest_bid,
            best_offer |-> s2.best_offer, highest_offer |-> s2.highest_offer]
  BY DEF WithdrawnStats
<1>4. /\ s2.best_bid = IF s.best_bid = None THEN None
                       ELSE IF s.best_bid # price \/ ~exhausted THEN s.best_bid
                       ELSE FindLiquid(mem2, base, price, s.lowest_bid)
      /\ s2.best_offer = IF s.best_offer = None THEN None
                         ELSE IF s.best_offer # price \/ ~exhausted THEN s.best_offer
                         ELSE FindLiquid(mem2, base, price, s.highest_offer)
  BY DEF WithdrawnStats
<1>5. /\ s2.lowest_bid = IF s.lowest_bid = None THEN None
                         ELSE IF s.lowest_bid # price \/ ~exhausted THEN s.lowest_bid
                         ELSE FindLiquid(mem2, base, price, s2.best_bid)
      /\ s2.highest_offer = IF s.highest_offer = None THEN None
                            ELSE IF s.highest_offer # price \/ ~exhausted THEN s.highest_offer
                            ELSE FindLiquid(mem2, base, price, s2.best_offer)
  BY <1>4 DEF WithdrawnStats
<1> HIDE DEF price
<1>9. PricesOf(base) \subseteq UInts
  BY DEF BaseFits, PricesOf, UInts
\* Statistics whose bucket still has volume stay.
<1>6. ASSUME mem2 \in [Cells -> Int],
             \A p \in {s.best_bid, s.lowest_bid, s.best_offer, s.highest_offer} :
               p # None /\ p = price /\ exhausted => mem2[p - base] # 0
      PROVE  s2 = s
  <2>1. s2.best_bid = s.best_bid
    <3>1. CASE s.best_bid # None /\ s.best_bid = price /\ exhausted
      <4>1. s.best_bid \in PricesOf(base) /\ mem2[s.best_bid - base] # 0
        BY <1>2, <1>6, <3>1
      <4> QED
        BY <4>1, <3>1, <1>1, <1>2, <1>4, <1>6, FindSelf
    <3> QED
      BY <3>1, <1>4
  <2>2. s2.best_offer = s.best_offer
    <3>1. CASE s.best_offer # None /\ s.best_offer = price /\ exhausted
      <4>1. s.best_offer \in PricesOf(base) /\ mem2[s.best_offer - base] # 0
        BY <1>2, <1>6, <3>1
      <4> QED
        BY <4>1, <3>1, <1>1, <1>2, <1>4, <1>6, FindSelf
    <3> QED
      BY <3>1, <1>4
  <2>3. s2.lowest_bid = s.lowest_bid
    <3>1. CASE s.lowest_bid # None /\ s.lowest_bid = price /\ exhausted
      <4>1. s.lowest_bid \in PricesOf(base) /\ mem2[s.lowest_bid - base] # 0
        BY <1>2, <1>6, <3>1
      <4> QED
        BY <4>1, <2>1, <3>1, <1>1, <1>2, <1>5, <1>6, FindSelf
    <3> QED
      BY <3>1, <1>5
  <2>4. s2.highest_offer = s.highest_offer
    <3>1. CASE s.highest_offer # None /\ s.highest_offer = price /\ exhausted
      <4>1. s.highest_offer \in PricesOf(base) /\ mem2[s.highest_offer - base] # 0
        BY <1>2, <1>6, <3>1
      <4> QED
        BY <4>1, <2>2, <3>1, <1>1, <1>2, <1>5, <1>6, FindSelf
    <3> QED
      BY <3>1, <1>5
  <2> QED
    BY <1>3, <2>1, <2>2, <2>3, <2>4 DEF Statistics
<1>7. CASE o.volume = 0
  <2>1. mem2 = mem
    BY <1>7 DEF WithdrawnMem
  <2>2. \A p \in {s.best_bid, s.lowest_bid, s.best_offer, s.highest_offer} :
          p # None => mem2[p - base] # 0
    BY <2>1 DEF Sound, BidsSound, OffersSound
  <2>3. s2 = s
    BY <1>6, <2>1, <2>2
  <2> QED
    BY <2>1, <2>3
<1>8. CASE o.volume # 0
  <2>1. price \in PricesOf(base) /\ UsedVolume(o, base) \in Int
    BY <1>8, UsedInner DEF price
  <2>2. at \in Buckets /\ at \in Cells /\ mem[at] \in Int
    BY <2>1, <1>1 DEF PricesOf, Buckets, Cells
  <2>3. c = Consumed(mem[at], UsedVolume(o, base))
    BY <1>8 DEF Withdrawn, price
  <2>4. /\ c \in Int
        /\ mem[at] >= 0 => 0 <= c /\ c <= mem[at]
        /\ mem[at] <= 0 => mem[at] <= c /\ c <= 0
    BY <2>1, <2>2, <2>3, ConsumedFacts
  <2>5. mem2 = [mem EXCEPT ![at] = mem[at] - c]
    BY <1>8 DEF WithdrawnMem, price
  <2> HIDE DEF at, c
  <2>6. /\ mem2 \in [Cells -> Int] /\ mem2[at] = mem[at] - c
        /\ \A i \in Buckets : i # at => mem2[i] = mem[i]
    BY <2>2, <2>4, <2>5 DEF Buckets, Cells
  <2>7. exhausted <=> mem2[at] = 0
    BY <1>8 DEF at
  <2>8. \A p \in PricesOf(base) : p - base = at => p = price
    BY <1>1, <2>1 DEF at, PricesOf
  <2>9. CASE mem2[at] # 0 \/ mem[at] = 0
    <3>1. \A i \in Buckets : /\ mem2[i] > 0 <=> mem[i] > 0
                             /\ mem2[i] < 0 <=> mem[i] < 0
      BY <2>2, <2>4, <2>6, <2>9
    <3>2. s2 = s
      <4>1. \A p \in {s.best_bid, s.lowest_bid, s.best_offer, s.highest_offer} :
              p # None => p - base \in Buckets /\ mem[p - base] # 0
        BY DEF Sound, BidsSound, OffersSound
      <4>2. \A p \in {s.best_bid, s.lowest_bid, s.best_offer, s.highest_offer} :
              p # None /\ p = price /\ exhausted => mem2[p - base] # 0
        BY <4>1, <2>2, <2>7, <2>9 DEF at
      <4> QED
        BY <4>2, <1>6, <2>6
    <3>3. Sound(mem2, base, s2)
      BY <3>1, <3>2 DEF Sound, BidsSound, OffersSound
    <3> QED
      BY <3>2, <3>3, <2>6
  <2>10. CASE mem2[at] = 0 /\ mem[at] < 0
    <3>1. s.best_bid # None /\ s.lowest_bid # None
      BY <2>2, <2>10 DEF Sound, BidsSound
    <3>2. s.best_offer # price /\ s.highest_offer # price
      <4>1. s.best_offer = price \/ s.highest_offer = price => mem[at] > 0
        BY <2>1, <1>1 DEF Sound, OffersSound, at, PricesOf
      <4> QED
        BY <4>1, <2>2, <2>10
    <3>3. s2.best_offer = s.best_offer /\ s2.highest_offer = s.highest_offer
      BY <3>2, <1>4, <1>5
    <3>4. s2.best_bid = IF s.best_bid # price THEN s.best_bid
                        ELSE FindLiquid(mem2, base, price, s.lowest_bid)
      BY <3>1, <1>4, <2>7, <2>10
    <3>5. s2.lowest_bid = IF s.lowest_bid # price THEN s.lowest_bid
                          ELSE FindLiquid(mem2, base, price, s2.best_bid)
      BY <3>1, <1>5, <2>7, <2>10
    <3>6. \A i \in Buckets : base + i <= s.best_bid => mem[i] <= 0
      <4>1. s.best_bid \in Int /\ s.best_offer \in Int
        BY <1>1, <1>2 DEF PricesOf
      <4>2. \A i \in Buckets : i \in Int /\ mem[i] \in Int
        BY DEF Buckets, Cells
      <4>3. s.best_offer # None => s.best_bid < s.best_offer
        BY <3>1 DEF Sound, Apart
      <4>4. \A i \in Buckets : mem[i] > 0 => s.best_offer # None /\ s.best_offer <= base + i
        BY DEF Sound, OffersSound
      <4> QED
        BY <4>1, <4>2, <4>3, <4>4, <1>1
    <3>7. s2 \in Statistics
      <4>1. s2.best_bid \in PricesOf(base) \cup {None}
        BY <3>1, <3>4, <1>1, <1>2, <2>1, <2>6, FindInside
      <4>2. s2.lowest_bid \in PricesOf(base) \cup {None}
        BY <3>1, <3>5, <4>1, <1>1, <1>2, <2>1, <2>6, FindInside
      <4> QED
        BY <4>1, <4>2, <3>3, <1>3, <1>9 DEF Statistics, OptPrices
    <3>8. BidsSound(mem2, base, s2) /\ (s2.best_bid # None => s2.best_bid <= s.best_bid)
      BY <3>4, <3>5, <3>6, <3>7, <1>1, <2>1, <2>6, <2>10, BidsEmptied DEF Sound, at
    <3>9. OffersSound(mem2, base, s2)
      <4>1. \A i \in Buckets : mem2[i] > 0 => mem[i] > 0
        BY <2>6, <2>10
      <4>2. \A i \in Buckets : mem[i] > 0 => mem2[i] > 0
        BY <2>2, <2>6, <2>10
      <4> QED
        BY <4>1, <4>2, <3>3 DEF Sound, OffersSound
    <3>10. Apart(s2)
      BY <3>1, <3>3, <3>7, <3>8, <1>2, <1>1 DEF Sound, Apart, PricesOf, Statistics, OptPrices, UInts
    <3> QED
      BY <3>7, <3>8, <3>9, <3>10, <2>6 DEF Sound
  <2>11. CASE mem2[at] = 0 /\ mem[at] > 0
    <3>1. s.best_offer # None /\ s.highest_offer # None
      BY <2>2, <2>11 DEF Sound, OffersSound
    <3>2. s.best_bid # price /\ s.lowest_bid # price
      <4>1. s.best_bid = price \/ s.lowest_bid = price => mem[at] < 0
        BY <2>1, <1>1 DEF Sound, BidsSound, at, PricesOf
      <4> QED
        BY <4>1, <2>2, <2>11
    <3>3. s2.best_bid = s.best_bid /\ s2.lowest_bid = s.lowest_bid
      BY <3>2, <1>4, <1>5
    <3>4. s2.best_offer = IF s.best_offer # price THEN s.best_offer
                          ELSE FindLiquid(mem2, base, price, s.highest_offer)
      BY <3>1, <1>4, <2>7, <2>11
    <3>5. s2.highest_offer = IF s.highest_offer # price THEN s.highest_offer
                             ELSE FindLiquid(mem2, base, price, s2.best_offer)
      BY <3>1, <1>5, <2>7, <2>11
    <3>6. \A i \in Buckets : base + i >= s.best_offer => mem[i] >= 0
      <4>1. s.best_bid \in Int /\ s.best_offer \in Int
        BY <1>1, <1>2 DEF PricesOf
      <4>2. \A i \in Buckets : i \in Int /\ mem[i] \in Int
        BY DEF Buckets, Cells
      <4>3. s.best_bid # None => s.best_bid < s.best_offer
        BY <3>1 DEF Sound, Apart
      <4>4. \A i \in Buckets : mem[i] < 0 => s.best_bid # None /\ base + i <= s.best_bid
        BY DEF Sound, BidsSound
      <4> QED
        BY <4>1, <4>2, <4>3, <4>4, <1>1
    <3>7. s2 \in Statistics
      <4>1. s2.best_offer \in PricesOf(base) \cup {None}
        BY <3>1, <3>4, <1>1, <1>2, <2>1, <2>6, FindInside
      <4>2. s2.highest_offer \in PricesOf(base) \cup {None}
        BY <3>1, <3>5, <4>1, <1>1, <1>2, <2>1, <2>6, FindInside
      <4> QED
        BY <4>1, <4>2, <3>3, <1>3, <1>9 DEF Statistics, OptPrices
    <3>8. OffersSound(mem2, base, s2) /\ (s2.best_offer # None => s2.best_offer >= s.best_offer)
      BY <3>4, <3>5, <3>6, <3>7, <1>1, <2>1, <2>6, <2>11, OffersEmptied DEF Sound, at
    <3>9. BidsSound(mem2, base, s2)
      <4>1. \A i \in Buckets : mem2[i] < 0 => mem[i] < 0
        BY <2>6, <2>11
      <4>2. \A i \in Buckets : mem[i] < 0 => mem2[i] < 0
        BY <2>2, <2>6, <2>11
      <4> QED
        BY <4>1, <4>2, <3>3 DEF Sound, BidsSound
    <3>10. Apart(s2)
      BY <3>1, <3>3, <3>7, <3>8, <1>2, <1>1 DEF Sound, Apart, PricesOf, Statistics, OptPrices, UInts
    <3> QED
      BY <3>7, <3>8, <3>9, <3>10, <2>6 DEF Sound
  <2> QED
    BY <2>2, <2>6, <2>9, <2>10, <2>11
<1> QED
  BY <1>7, <1>8
-----------------------------------------------------------------------------
(***************************************************************************)
(* shift_book.                                                             *)
(***************************************************************************)
\* A shift by nothing leaves the memory as it is.
LEMMA ShiftedByNothing ==
    ASSUME NEW mem \in [Cells -> Int]
    PROVE  ShiftedMem(mem, 0) = mem
<1>1. \A i \in Cells : i + 0 = i
  BY LengthAssumption DEF Cells
<1>2. ~ (0 <= -BookLength \/ 0 >= BookLength)
  BY LengthAssumption
<1>3. ShiftedMem(mem, 0) = [i \in Cells |-> mem[i]]
  BY <1>1, <1>2 DEF ShiftedMem
<1> QED
  BY <1>3

\* The two tests of shift_book and the clearance at the top of the array keep
\* every bucket with volume inside the array.
LEMMA NothingLost ==
    ASSUME NEW mem \in [Cells -> Int], NEW base, BaseFits(base),
           NEW s \in Statistics, Sound(mem, base, s), ~NoVolume(s),
           NEW k \in Int, ShiftPossible(k, base, base, s),
           k < 0 => \A i \in Buckets : mem[i] # 0 => i # BookLength + k
    PROVE  \A i \in Buckets : mem[i] # 0 => i - k \in Buckets
<1> USE LengthAssumption, WidthAssumption DEF None
<1>1. base \in Nat /\ BookLength \in Nat
  BY DEF BaseFits
<1>2. /\ s.best_bid \in PricesOf(base) \cup {None}
      /\ s.lowest_bid \in PricesOf(base) \cup {None}
      /\ s.best_offer \in PricesOf(base) \cup {None}
      /\ s.highest_offer \in PricesOf(base) \cup {None}
  BY <1>1, SoundPrices DEF Sound
<1>3. /\ s.best_bid \in Int /\ s.lowest_bid \in Int
      /\ s.best_offer \in Int /\ s.highest_offer \in Int
  BY <1>1, <1>2 DEF PricesOf
<1>4. /\ s.best_bid < HalfRange /\ s.lowest_bid < HalfRange
      /\ s.best_offer < HalfRange /\ s.highest_offer < HalfRange
  BY <1>1, <1>2 DEF PricesOf, BaseFits
<1> DEFINE top == IF s.highest_offer # None THEN s.highest_offer
                  ELSE IF s.best_bid # None THEN s.best_bid ELSE base
           bottom == IF s.lowest_bid # None THEN s.lowest_bid
                     ELSE IF s.best_offer # None THEN s.best_offer
                     ELSE base + BookLength
<1>5. \/ k >= 0 /\ bottom - base >= k
      \/ k < 0 /\ (base + BookLength) - top >= -k
  <2>1. Int32(UInt32(base + BookLength)) = base + BookLength
    BY <1>1 DEF BaseFits, Int32, UInt32
  <2>2. Int32(ValueOr(s.highest_offer, ValueOr(s.best_bid, base))) = top
    BY <1>1, <1>3, <1>4 DEF BaseFits, Int32, ValueOr
  <2>3. Int32(UInt32(ValueOr(s.lowest_bid, ValueOr(s.best_offer,
                        UInt32(base + BookLength))) - base)) = bottom - base
    <3>1. UInt32(base + BookLength) = base + BookLength
      BY <1>1 DEF BaseFits, UInt32
    <3>2. ValueOr(s.lowest_bid, ValueOr(s.best_offer, base + BookLength)) = bottom
      BY DEF ValueOr
    <3>3. bottom \in Int /\ base <= bottom /\ bottom < HalfRange
      BY <1>1, <1>2 DEF PricesOf, BaseFits
    <3> HIDE DEF bottom
    <3>4. UInt32(bottom - base) = bottom - base /\ Int32(bottom - base) = bottom - base
      BY <1>1, <3>3 DEF UInt32, Int32
    <3> QED
      BY <3>1, <3>2, <3>4
  <2> HIDE DEF top, bottom
  <2>4. \/ k >= 0 /\ Int32(UInt32(ValueOr(s.lowest_bid, ValueOr(s.best_offer,
                      UInt32(base + BookLength))) - base)) >= k
        \/ k < 0 /\ Int32(UInt32(base + BookLength))
                     - Int32(ValueOr(s.highest_offer, ValueOr(s.best_bid, base))) >= -k
    BY Zenon DEF ShiftPossible
  <2> QED
    BY <2>1, <2>2, <2>3, <2>4
<1>6. \A i \in Buckets : i \in Int /\ mem[i] \in Int /\ 0 <= i /\ i < BookLength
  BY DEF Buckets, Cells
<1>7. \A i \in Buckets : mem[i] < 0 => bottom <= base + i /\ base + i <= top
  <2> SUFFICES ASSUME NEW i \in Buckets, mem[i] < 0
               PROVE  bottom <= base + i /\ base + i <= top
    OBVIOUS
  <2>1. s.lowest_bid # None /\ s.lowest_bid <= base + i /\ base + i <= s.best_bid
    BY DEF Sound, BidsSound
  <2>2. s.best_bid # None
    BY <2>1 DEF Sound, BidsSound
  <2>3. s.highest_offer # None => s.best_bid < s.highest_offer
    <3>1. s.highest_offer # None => s.best_offer # None
      BY DEF Sound, OffersSound
    <3>2. s.highest_offer # None => /\ s.highest_offer - base \in Buckets
                                    /\ mem[s.highest_offer - base] > 0
      BY DEF Sound, OffersSound
    <3>3. s.highest_offer # None => s.best_offer <= base + (s.highest_offer - base)
      BY <3>2 DEF Sound, OffersSound
    <3> QED
      BY <3>1, <3>3, <2>2, <1>1, <1>3 DEF Sound, Apart
  <2> QED
    BY <2>1, <2>2, <2>3, <1>1, <1>3, <1>6
<1>8. \A i \in Buckets : mem[i] > 0 => bottom <= base + i /\ base + i <= top
  <2> SUFFICES ASSUME NEW i \in Buckets, mem[i] > 0
               PROVE  bottom <= base + i /\ base + i <= top
    OBVIOUS
  <2>1. s.best_offer # None /\ s.best_offer <= base + i /\ base + i <= s.highest_offer
    BY DEF Sound, OffersSound
  <2>2. s.highest_offer # None
    BY <2>1 DEF Sound, OffersSound
  <2>3. s.lowest_bid # None => s.lowest_bid < s.best_offer
    <3>1. s.lowest_bid # None => s.best_bid # None
      BY DEF Sound, BidsSound
    <3>2. s.lowest_bid # None => /\ s.lowest_bid - base \in Buckets
                                 /\ mem[s.lowest_bid - base] < 0
      BY DEF Sound, BidsSound
    <3>3. s.lowest_bid # None => base + (s.lowest_bid - base) <= s.best_bid
      BY <3>2 DEF Sound, BidsSound
    <3> QED
      BY <3>1, <3>3, <2>1, <1>1, <1>3 DEF Sound, Apart
  <2> QED
    BY <2>1, <2>2, <2>3, <1>1, <1>3, <1>6
<1>9. top \in Int /\ bottom \in Int
  BY <1>1, <1>3
<1> HIDE DEF top, bottom
<1> SUFFICES ASSUME NEW i \in Buckets, mem[i] # 0
             PROVE  i - k \in Buckets
  OBVIOUS
<1>10. bottom <= base + i /\ base + i <= top
  BY <1>6, <1>7, <1>8
<1>11. CASE k >= 0
  <2>1. bottom - base >= k
    BY <1>5, <1>11
  <2> QED
    BY <2>1, <1>1, <1>6, <1>9, <1>10, <1>11 DEF Buckets
<1>12. CASE k < 0
  <2>1. (base + BookLength) - top >= -k /\ i # BookLength + k
    BY <1>5, <1>12
  <2> QED
    BY <2>1, <1>1, <1>6, <1>9, <1>10, <1>12 DEF Buckets
<1> QED
  BY <1>11, <1>12

\* Without volume in the statistics there is none in the array.
LEMMA NoVolumeEmpty ==
    ASSUME NEW mem \in [Cells -> Int], NEW base, NEW s,
           Sound(mem, base, s), NoVolume(s)
    PROVE  \A i \in Buckets : mem[i] = 0
<1>1. \A i \in Buckets : mem[i] \in Int
  BY LengthAssumption DEF Buckets, Cells
<1>2. \A i \in Buckets : ~ (mem[i] < 0)
  BY DEF Sound, BidsSound, NoVolume
<1>3. \A i \in Buckets : ~ (mem[i] > 0)
  BY DEF Sound, OffersSound, NoVolume
<1> QED
  BY <1>1, <1>2, <1>3

\* A shift that the tests allow, and that leaves no copies in the buckets it
\* vacates, keeps the volume of every price and a sound book.
LEMMA ShiftSound ==
    ASSUME NEW mem \in [Cells -> Int], NEW base, BaseFits(base),
           NEW s \in Statistics, Sound(mem, base, s),
           NEW k \in Int, ShiftPossible(k, base, base, s),
           base + k + BookLength < HalfRange,
           \A i \in Buckets : mem[i] # 0 => i < BookLength - k /\ i >= -k,
           k < 0 => \A i \in Buckets : mem[i] # 0 => i # BookLength + k,
           NEW m, m = (IF NoVolume(s) THEN 0 ELSE k),
           NEW mem2, mem2 = ShiftedMem(mem, m)
    PROVE  /\ mem2 \in [Cells -> Int]
           /\ mem2[BookLength] = mem[BookLength]
           /\ BaseFits(base + k)
           /\ Sound(mem2, base + k, s)
           /\ \A p \in UInts : VolumeAt(p, mem2, base + m) = VolumeAt(p, mem, base)
<1> USE LengthAssumption, WidthAssumption DEF None
<1>1. base \in Nat /\ BookLength \in Nat \ {0}
  BY DEF BaseFits
<1>2. BaseFits(base + k)
  <2>1. Int32(base) = base
    BY DEF Int32, BaseFits
  <2>2. base + k >= 0
    BY <2>1 DEF ShiftPossible
  <2> QED
    BY <1>1, <2>2 DEF BaseFits
<1>3. CASE NoVolume(s)
  <2>1. mem2 = mem /\ m = 0 /\ base + m = base
    BY <1>1, <1>3, ShiftedByNothing
  <2>2. \A i \in Buckets : mem[i] = 0
    BY <1>3, NoVolumeEmpty
  <2>3. s.lowest_bid = None /\ s.highest_offer = None
    BY <1>3 DEF Sound, BidsSound, OffersSound, NoVolume
  <2>4. Sound(mem, base + k, s)
    BY <2>2, <2>3, <1>3 DEF Sound, BidsSound, OffersSound, Apart, NoVolume
  <2> QED
    BY <1>2, <2>1, <2>4
<1>4. CASE ~NoVolume(s)
  <2>1. m = k
    BY <1>4
  <2>2. \A i \in Buckets : mem[i] # 0 => i - k \in Buckets
    BY <1>4, NothingLost
  <2>3. \A i \in Buckets : i \in Int /\ 0 <= i /\ i < BookLength /\ i \in Cells
    BY DEF Buckets, Cells
  <2>4. PICK i \in Buckets : mem[i] # 0
    BY <1>4 DEF NoVolume, Sound, BidsSound, OffersSound
  <2>5. ~ (k <= -BookLength \/ k >= BookLength)
    BY <2>2, <2>3, <2>4
  <2>6. mem2 = [j \in Cells |-> IF j \in Buckets /\ j + k \in Buckets
                                 THEN mem[j + k] ELSE mem[j]]
    BY <2>1, <2>5 DEF ShiftedMem
  <2>7. mem2 \in [Cells -> Int]
    BY <2>3, <2>6
  <2>8. mem2[BookLength] = mem[BookLength]
    BY <2>6 DEF Buckets, Cells
  <2>9. \A j \in Buckets : j + k \notin Buckets => mem[j] = 0
    BY <2>3 DEF Buckets
  <2>10. \A j \in Buckets : mem2[j] = IF j + k \in Buckets THEN mem[j + k] ELSE 0
    BY <2>3, <2>6, <2>9
  <2>11. \A p \in Int : /\ p - (base + k) = (p - base) - k
                         /\ (p - (base + k)) + k = p - base
    BY <1>1
  <2>12. \A p \in Int : p - base \in Buckets /\ mem[p - base] # 0 =>
           p - (base + k) \in Buckets /\ mem2[p - (base + k)] = mem[p - base]
    BY <2>2, <2>10, <2>11
  <2>13. \A j \in Buckets : mem2[j] # 0 =>
           /\ j + k \in Buckets /\ mem2[j] = mem[j + k]
           /\ base + (j + k) = (base + k) + j
    BY <1>1, <2>3, <2>10
  <2>14. /\ s.best_bid \in Int /\ s.lowest_bid \in Int
         /\ s.best_offer \in Int /\ s.highest_offer \in Int
    BY DEF Statistics, OptPrices, UInts
  <2>15. BidsSound(mem2, base + k, s)
    <3>1. \A j \in Buckets : mem2[j] < 0 =>
            /\ s.lowest_bid # None
            /\ s.lowest_bid <= (base + k) + j /\ (base + k) + j <= s.best_bid
      <4> SUFFICES ASSUME NEW j \in Buckets, mem2[j] < 0
                   PROVE  /\ s.lowest_bid # None
                          /\ s.lowest_bid <= (base + k) + j
                          /\ (base + k) + j <= s.best_bid
        OBVIOUS
      <4>1. /\ j + k \in Buckets /\ mem[j + k] < 0
            /\ base + (j + k) = (base + k) + j
        BY <2>13
      <4>2. /\ s.lowest_bid # None /\ s.lowest_bid <= base + (j + k)
            /\ base + (j + k) <= s.best_bid
        BY <4>1 DEF Sound, BidsSound
      <4> QED
        BY <4>1, <4>2
    <3>2. s.best_bid # None =>
            s.best_bid - (base + k) \in Buckets /\ mem2[s.best_bid - (base + k)] < 0
      BY <2>12, <2>14 DEF Sound, BidsSound
    <3>3. s.lowest_bid # None =>
            s.lowest_bid - (base + k) \in Buckets /\ mem2[s.lowest_bid - (base + k)] < 0
      BY <2>12, <2>14 DEF Sound, BidsSound
    <3> QED
      BY <3>1, <3>2, <3>3 DEF Sound, BidsSound
  <2>16. OffersSound(mem2, base + k, s)
    <3>1. \A j \in Buckets : mem2[j] > 0 =>
            /\ s.best_offer # None
            /\ s.best_offer <= (base + k) + j /\ (base + k) + j <= s.highest_offer
      <4> SUFFICES ASSUME NEW j \in Buckets, mem2[j] > 0
                   PROVE  /\ s.best_offer # None
                          /\ s.best_offer <= (base + k) + j
                          /\ (base + k) + j <= s.highest_offer
        OBVIOUS
      <4>1. /\ j + k \in Buckets /\ mem[j + k] > 0
            /\ base + (j + k) = (base + k) + j
        BY <2>13
      <4>2. /\ s.best_offer # None /\ s.best_offer <= base + (j + k)
            /\ base + (j + k) <= s.highest_offer
        BY <4>1 DEF Sound, OffersSound
      <4> QED
        BY <4>1, <4>2
    <3>2. s.best_offer # None =>
            s.best_offer - (base + k) \in Buckets /\ mem2[s.best_offer - (base + k)] > 0
      BY <2>12, <2>14 DEF Sound, OffersSound
    <3>3. s.highest_offer # None =>
            s.highest_offer - (base + k) \in Buckets /\ mem2[s.highest_offer - (base + k)] > 0
      BY <2>12, <2>14 DEF Sound, OffersSound
    <3> QED
      BY <3>1, <3>2, <3>3 DEF Sound, OffersSound
  <2>17. \A p \in UInts : VolumeAt(p, mem2, base + k) = VolumeAt(p, mem, base)
    <3> SUFFICES ASSUME NEW p \in UInts
                 PROVE  VolumeAt(p, mem2, base + k) = VolumeAt(p, mem, base)
      OBVIOUS
    <3>1. p \in Int
      BY DEF UInts
    <3>2. CASE p - (base + k) \in Buckets
      <4>1. mem2[p - (base + k)] = IF p - base \in Buckets THEN mem[p - base] ELSE 0
        BY <2>10, <2>11, <3>1, <3>2
      <4> QED
        BY <3>2, <4>1 DEF VolumeAt
    <3>3. CASE p - (base + k) \notin Buckets
      <4>1. ~ (p - base \in Buckets /\ mem[p - base] # 0)
        BY <2>12, <3>1, <3>3
      <4> QED
        BY <3>3, <4>1 DEF VolumeAt
    <3> QED
      BY <3>2, <3>3
  <2> QED
    BY <1>2, <2>1, <2>7, <2>8, <2>15, <2>16, <2>17 DEF Sound
<1> QED
  BY <1>3, <1>4
-----------------------------------------------------------------------------
(***************************************************************************)
(* The lock and the version counter.                                       *)
(***************************************************************************)
LockType ==
    /\ modify_lock \in BOOLEAN
    /\ version_counter \in 0..MaxVersion
    /\ pc \in [Threads -> Points]

LockInv == LockType /\ WriterExclusion

\* fetch_add changes the parity of the counter, when it wraps around too.
LEMMA TickParity ==
    ASSUME NEW v \in 0..MaxVersion
    PROVE  /\ Tick(v) \in 0..MaxVersion
           /\ Tick(v) % 2 = 0 <=> v % 2 # 0
<1>1. MaxVersion \in Nat /\ MaxVersion % 2 = 1
  BY BoundAssumption
<1>2. CASE v = MaxVersion
  BY <1>1, <1>2 DEF Tick
<1>3. CASE v # MaxVersion
  <2>1. Tick(v) = v + 1 /\ v + 1 \in 0..MaxVersion
    BY <1>1, <1>3 DEF Tick
  <2>2. (v + 1) % 2 = 0 <=> v % 2 # 0
    BY <1>1
  <2> QED
    BY <2>1, <2>2
<1> QED
  BY <1>2, <1>3

\* The points of a call fall into three classes; a step moves one thread, and
\* what it does to the lock and the counter depends on the classes alone.
LEMMA PointClasses ==
    /\ FluxPoints \subseteq HeldPoints /\ HeldPoints \subseteq Points
    /\ "idle" \in Points \ HeldPoints /\ "shift_lock" \in Points \ HeldPoints
    /\ "enter" \in HeldPoints \ FluxPoints
    /\ "shift_enter" \in HeldPoints \ FluxPoints
    /\ "unlock" \in HeldPoints \ FluxPoints
    /\ {"add", "add_run", "withdraw", "market", "market_run", "leave",
        "shift_move", "shift_base", "shift_leave"} = FluxPoints
BY DEF Points, HeldPoints, FluxPoints

\* A step outside the lock, or one that keeps its thread in its class.
LEMMA QuietStep ==
    ASSUME LockInv, NEW t \in Threads, NEW to \in Points,
           pc' = [pc EXCEPT ![t] = to],
           pc[t] \in HeldPoints <=> to \in HeldPoints,
           pc[t] \in FluxPoints <=> to \in FluxPoints,
           UNCHANGED <<modify_lock, version_counter>>
    PROVE  LockInv'
<1>1. LockType'
  BY DEF LockInv, LockType
<1>2. \A u \in Threads : /\ pc'[u] \in HeldPoints <=> pc[u] \in HeldPoints
                         /\ pc'[u] \in FluxPoints <=> pc[u] \in FluxPoints
  BY DEF LockInv, LockType
<1>3. WriterExclusion'
  BY <1>2 DEF LockInv, WriterExclusion, Readable
<1> QED
  BY <1>1, <1>3 DEF LockInv

\* A successful test_and_set.
LEMMA AcquireStep ==
    ASSUME LockInv, NEW t \in Threads, NEW to \in HeldPoints \ FluxPoints,
           pc' = [pc EXCEPT ![t] = to], pc[t] \notin HeldPoints,
           ~modify_lock, modify_lock' = TRUE, UNCHANGED version_counter
    PROVE  LockInv'
<1>1. LockType'
  BY PointClasses DEF LockInv, LockType
<1>2. \A u \in Threads : pc[u] \notin HeldPoints
  BY DEF LockInv, WriterExclusion
<1>3. \A u \in Threads : pc'[u] = IF u = t THEN to ELSE pc[u]
  BY DEF LockInv, LockType
<1>4. \A u \in Threads : /\ pc'[u] \in HeldPoints <=> u = t
                         /\ pc[u] \notin FluxPoints /\ pc'[u] \notin FluxPoints
  BY <1>2, <1>3, PointClasses
<1>5. WriterExclusion'
  BY <1>4 DEF LockInv, WriterExclusion, Readable
<1> QED
  BY <1>1, <1>5 DEF LockInv

\* The two fetch_adds, on the way into the change of the book and out of it.
LEMMA TickStep ==
    ASSUME LockInv, NEW t \in Threads, NEW to \in HeldPoints,
           pc' = [pc EXCEPT ![t] = to], pc[t] \in HeldPoints,
           pc[t] \in FluxPoints <=> to \notin FluxPoints,
           version_counter' = Tick(version_counter), UNCHANGED modify_lock
    PROVE  LockInv'
<1>1. version_counter' \in 0..MaxVersion /\ (Readable' <=> ~Readable)
  BY TickParity DEF LockInv, LockType, Readable
<1>2. LockType'
  BY <1>1, PointClasses DEF LockInv, LockType
<1>3. \A u \in Threads : u # t => pc[u] \notin HeldPoints /\ pc[u] \notin FluxPoints
  BY PointClasses DEF LockInv, WriterExclusion
<1>4. \A u \in Threads : pc'[u] = IF u = t THEN to ELSE pc[u]
  BY DEF LockInv, LockType
<1>5. \A u \in Threads : pc'[u] \in HeldPoints <=> pc[u] \in HeldPoints
  BY <1>4
<1>6. Readable <=> pc[t] \notin FluxPoints
  BY <1>3 DEF LockInv, WriterExclusion
<1>7. (\A u \in Threads : pc'[u] \notin FluxPoints) <=> to \notin FluxPoints
  BY <1>3, <1>4
<1>8. Readable' <=> \A u \in Threads : pc'[u] \notin FluxPoints
  BY <1>1, <1>6, <1>7
<1>9. WriterExclusion'
  BY <1>5, <1>8 DEF LockInv, WriterExclusion
<1> QED
  BY <1>2, <1>9 DEF LockInv

\* The lock is cleared by the thread that holds it.
LEMMA ReleaseStep ==
    ASSUME LockInv, NEW t \in Threads, NEW to \in Points \ HeldPoints,
           pc' = [pc EXCEPT ![t] = to], pc[t] \in HeldPoints \ FluxPoints,
           modify_lock' = FALSE, UNCHANGED version_counter
    PROVE  LockInv'
<1>1. LockType'
  BY DEF LockInv, LockType
<1>2. \A u \in Threads : u # t => pc[u] \notin HeldPoints
  BY DEF LockInv, WriterExclusion
<1>3. \A u \in Threads : pc'[u] = IF u = t THEN to ELSE pc[u]
  BY DEF LockInv, LockType
<1>4. \A u \in Threads : /\ pc'[u] \notin HeldPoints
                         /\ pc[u] \notin FluxPoints /\ pc'[u] \notin FluxPoints
  BY <1>2, <1>3, PointClasses
<1>5. WriterExclusion'
  BY <1>4 DEF LockInv, WriterExclusion, Readable
<1> QED
  BY <1>1, <1>5 DEF LockInv

LEMMA LockInit == Init => LockInv
<1> SUFFICES ASSUME Init PROVE LockInv
  OBVIOUS
<1>1. \A t \in Threads : pc[t] = "idle"
  BY DEF Init
<1>2. LockType
  <2>1. pc = [t \in Threads |-> "idle"] /\ modify_lock = FALSE /\ version_counter = 0
    BY DEF Init
  <2>2. 0 \in 0..MaxVersion
    BY BoundAssumption
  <2>3. pc \in [Threads -> Points]
    BY <2>1, PointClasses
  <2> QED
    BY <2>1, <2>2, <2>3 DEF LockType
<1>3. WriterExclusion
  BY <1>1, PointClasses DEF Init, WriterExclusion, Readable
<1> QED
  BY <1>2, <1>3 DEF LockInv

LEMMA LockStep == LockInv /\ [Next]_vars => LockInv'
<1> SUFFICES ASSUME LockInv, [Next]_vars PROVE LockInv'
  OBVIOUS
<1>1. CASE UNCHANGED vars
  BY <1>1 DEF vars, LockInv, LockType, WriterExclusion, Readable
<1>2. ASSUME NEW t \in Threads, NEW o \in Orders, LockOrder(t, o)
      PROVE  LockInv'
  <2>1. pc' = [pc EXCEPT ![t] = "enter"] /\ pc[t] = "idle"
    BY <1>2 DEF LockOrder, Goto
  <2> QED
    BY <1>2, <2>1, PointClasses, AcquireStep DEF LockOrder
<1>3. ASSUME NEW t \in Threads, CallShift(t)
      PROVE  LockInv'
  <2>1. pc' = [pc EXCEPT ![t] = "shift_lock"] /\ pc[t] = "idle"
    BY <1>3 DEF CallShift, Goto
  <2>2. UNCHANGED <<modify_lock, version_counter>>
    BY <1>3 DEF CallShift
  <2> QED
    BY <2>1, <2>2, PointClasses, QuietStep
<1>4. ASSUME NEW t \in Threads, NEW k \in Shifts, LockShift(t, k)
      PROVE  LockInv'
  <2>1. pc' = [pc EXCEPT ![t] = "shift_enter"] /\ pc[t] = "shift_lock"
    BY <1>4 DEF LockShift, Goto
  <2> QED
    BY <1>4, <2>1, PointClasses, AcquireStep DEF LockShift
<1>5. ASSUME NEW t \in Threads, EnterOrder(t) \/ EnterShift(t)
      PROVE  LockInv'
  <2>1. PICK to \in {"add", "shift_move"} : pc' = [pc EXCEPT ![t] = to]
    BY <1>5 DEF EnterOrder, EnterShift, Goto
  <2>2. pc[t] \in {"enter", "shift_enter"}
    BY <1>5 DEF EnterOrder, EnterShift, Goto
  <2>3. version_counter' = Tick(version_counter) /\ UNCHANGED modify_lock
    BY <1>5 DEF EnterOrder, EnterShift
  <2> QED
    BY <2>1, <2>2, <2>3, PointClasses, TickStep
<1>6. ASSUME NEW t \in Threads, LeaveOrder(t) \/ LeaveShift(t)
      PROVE  LockInv'
  <2>1. pc' = [pc EXCEPT ![t] = "unlock"] /\ pc[t] \in {"leave", "shift_leave"}
    BY <1>6 DEF LeaveOrder, LeaveShift, Goto
  <2>2. version_counter' = Tick(version_counter) /\ UNCHANGED modify_lock
    BY <1>6 DEF LeaveOrder, LeaveShift
  <2> QED
    BY <2>1, <2>2, PointClasses, TickStep
<1>7. ASSUME NEW t \in Threads,
             \/ StartAdd(t) \/ FinishAdd(t) \/ Withdraw(t) \/ StartMarket(t)
             \/ FinishMarket(t) \/ MoveBuckets(t) \/ MoveBase(t)
      PROVE  LockInv'
  <2>1. PICK to \in FluxPoints : pc' = [pc EXCEPT ![t] = to]
    BY <1>7, PointClasses DEF StartAdd, FinishAdd, Withdraw, StartMarket,
       FinishMarket, MoveBuckets, MoveBase, Goto
  <2>2. pc[t] \in FluxPoints
    BY <1>7, PointClasses DEF StartAdd, FinishAdd, Withdraw, StartMarket,
       FinishMarket, MoveBuckets, MoveBase, Goto
  <2>3. UNCHANGED <<modify_lock, version_counter>>
    BY <1>7 DEF StartAdd, FinishAdd, Withdraw, StartMarket, FinishMarket,
       MoveBuckets, MoveBase
  <2> QED
    BY <2>1, <2>2, <2>3, PointClasses, QuietStep
<1>8. ASSUME NEW t \in Threads, RunStep(t)
      PROVE  LockInv'
  BY <1>8 DEF RunStep, LockInv, LockType, WriterExclusion, Readable
<1>9. ASSUME NEW t \in Threads, Unlock(t)
      PROVE  LockInv'
  <2>1. pc' = [pc EXCEPT ![t] = "idle"] /\ pc[t] = "unlock"
    BY <1>9 DEF Unlock, Goto
  <2>2. modify_lock' = FALSE /\ UNCHANGED version_counter
    BY <1>9 DEF Unlock
  <2> QED
    BY <2>1, <2>2, PointClasses, ReleaseStep
<1> QED
  BY <1>1, <1>2, <1>3, <1>4, <1>5, <1>6, <1>7, <1>8, <1>9
     DEF Next, CallerStep, HolderStep, OrderStep, ShiftStep

\* One thread at most is inside the lock, and the version counter is odd
\* exactly while one changes the book: for every number of threads, every
\* input and whatever the callers do (OrderBook.hpp:171-194, 236-277).
THEOREM LockTellsTruth == Spec => []WriterExclusion
<1>1. LockInv => WriterExclusion
  BY DEF LockInv
<1> QED
  BY LockInit, LockStep, <1>1, PTL DEF Spec
-----------------------------------------------------------------------------
(***************************************************************************)
(* The inductive invariant of the book.                                    *)
(***************************************************************************)
RunPoints == {"add_run", "market_run"}

\* The locals of run_through_book fit the book.
RunFits(t) ==
    /\ pc[t] \in RunPoints => RunSound(run[t], mem_span, base_price, stats)
    /\ pc[t] = "add_run" =>
         LET o == OrderFor("add", order[t])
         IN  /\ run[t].volume = UsedVolume(o, base_price)
             /\ run[t].dummy <=> ~Crossed(o, stats, base_price)

\* The base price a shift leads to
NextBase(t) == IF shift[t].possible THEN base_price + shift[t].shift_by
               ELSE base_price

\* The locals of shift_book fit the book: the base price it read before it
\* had the lock is still the base price, its decision is right, and between
\* its two moves the buckets are those of the base price to come.
ShiftFits(t) ==
    /\ pc[t] \in {"shift_lock", "shift_enter"} => shift[t].seen_base = base_price
    /\ pc[t] \in {"shift_enter", "shift_move"} => ShiftAllowed(shift[t].shift_by)
    /\ pc[t] = "shift_move" =>
         /\ shift[t].possible =>
              ShiftPossible(shift[t].shift_by, base_price, base_price, stats)
         /\ shift[t].mem_shift = IF shift[t].possible /\ ~NoVolume(stats)
                                 THEN shift[t].shift_by ELSE 0
    /\ pc[t] = "shift_base" =>
         BaseFits(NextBase(t)) /\ Sound(mem_span, NextBase(t), stats)

\* An order in progress is not priced one past the last bucket.
OrderInner(t) ==
    /\ pc[t] \in ShiftPoints \cup {"idle"} => order[t].volume = 0
    /\ order[t].volume # 0 => order[t].price # UInt32(base_price + BookLength)

ThreadSound(t) == RunFits(t) /\ ShiftFits(t) /\ OrderInner(t)

LoneShift == \A t, u \in Threads :
                 pc[t] \in ShiftPoints /\ pc[u] \in ShiftPoints => t = u

\* The points where the statistics and the array need not fit: in a run
\* through the book, and between the two moves of a shift.
Settling == RunPoints \cup {"shift_base"}

IInv ==
    /\ Typed
    /\ WriterExclusion
    /\ BaseFits(base_price)
    /\ LoneShift
    /\ \A t \in Threads : ThreadSound(t)
    /\ (\A t \in Threads : pc[t] \notin Settling) => Sound(mem_span, base_price, stats)
-----------------------------------------------------------------------------
(***************************************************************************)
(* Which threads a step concerns.                                          *)
(***************************************************************************)
LEMMA MorePoints ==
    /\ RunPoints \subseteq FluxPoints /\ Settling \subseteq FluxPoints
    /\ ShiftPoints \subseteq Points /\ ShiftPoints \ HeldPoints = {"shift_lock"}
    /\ Points \ HeldPoints = {"idle", "shift_lock"}
BY DEF RunPoints, Settling, ShiftPoints, Points, HeldPoints, FluxPoints

\* While a thread is inside the lock the others are outside, and when it is
\* not in the middle of a change the book is sound.
LEMMA Alone ==
    ASSUME IInv, NEW t \in Threads, pc[t] \in HeldPoints
    PROVE  /\ \A u \in Threads : u # t => pc[u] \in {"idle", "shift_lock"}
           /\ pc[t] \notin Settling => Sound(mem_span, base_price, stats)
<1>1. \A u \in Threads : pc[u] \in Points
  BY DEF IInv, Typed
<1>2. \A u \in Threads : u # t => pc[u] \in {"idle", "shift_lock"}
  BY <1>1, MorePoints DEF IInv, WriterExclusion
<1>3. \A u \in Threads : u # t => pc[u] \notin Settling
  BY <1>2 DEF Settling, RunPoints
<1> QED
  BY <1>2, <1>3 DEF IInv

\* A step of the holder of the lock keeps the invariant when it does so for
\* its own locals and the book.
LEMMA HolderKeeps ==
    ASSUME IInv, Typed', WriterExclusion', NEW t \in Threads,
           pc[t] \in HeldPoints,
           \A u \in Threads : u # t =>
             /\ pc'[u] = pc[u] /\ order'[u] = order[u]
             /\ shift'[u] = shift[u],
           pc'[t] \in ShiftPoints => pc[t] \in ShiftPoints,
           base_price' = base_price \/ pc[t] \in ShiftPoints,
           BaseFits(base_price'), ThreadSound(t)',
           pc'[t] \notin Settling => Sound(mem_span', base_price', stats')
    PROVE  IInv'
<1>1. \A u \in Threads : u # t => pc'[u] = pc[u] /\ pc[u] \in {"idle", "shift_lock"}
  BY Alone
<1>2. LoneShift'
  BY <1>1 DEF IInv, LoneShift
<1>3. ASSUME NEW u \in Threads, u # t
      PROVE  ThreadSound(u)'
  <2>1. RunFits(u)'
    BY <1>1, <1>3 DEF RunFits, RunPoints
  <2>2. order'[u].volume = 0
    BY <1>1, <1>3 DEF IInv, ThreadSound, OrderInner, ShiftPoints
  <2>3. OrderInner(u)'
    BY <2>2 DEF OrderInner
  <2>4. pc'[u] = "shift_lock" => base_price' = base_price
    BY <1>1, <1>3 DEF IInv, LoneShift, ShiftPoints
  <2>5. ShiftFits(u)'
    BY <1>1, <1>3, <2>4 DEF IInv, ThreadSound, ShiftFits
  <2> QED
    BY <2>1, <2>3, <2>5 DEF ThreadSound
<1>4. \A u \in Threads : ThreadSound(u)'
  BY <1>3
<1> QED
  BY <1>2, <1>4 DEF IInv

\* A step of a thread outside the lock keeps the invariant when it does so
\* for its own locals: it leaves the book alone.
LEMMA CallerKeeps ==
    ASSUME IInv, Typed', WriterExclusion', NEW t \in Threads,
           pc[t] \notin Settling, pc'[t] \notin Settling,
           \A u \in Threads : u # t =>
             /\ pc'[u] = pc[u] /\ order'[u] = order[u] /\ run'[u] = run[u]
             /\ shift'[u] = shift[u],
           UNCHANGED book, LoneShift', ThreadSound(t)'
    PROVE  IInv'
<1>1. base_price' = base_price /\ mem_span' = mem_span /\ stats' = stats
  BY DEF book
<1>2. ASSUME NEW u \in Threads, u # t
      PROVE  ThreadSound(u)'
  <2>1. ThreadSound(u)
    BY DEF IInv
  <2>2. /\ pc'[u] = pc[u] /\ order'[u] = order[u] /\ run'[u] = run[u]
        /\ shift'[u] = shift[u]
    BY <1>2
  <2>3. RunFits(u)'
    BY <1>1, <2>1, <2>2 DEF ThreadSound, RunFits
  <2>4. ShiftFits(u)'
    BY <1>1, <2>1, <2>2 DEF ThreadSound, ShiftFits, ShiftAllowed, NextBase
  <2>5. OrderInner(u)'
    BY <1>1, <2>1, <2>2 DEF ThreadSound, OrderInner
  <2> QED
    BY <2>3, <2>4, <2>5 DEF ThreadSound
<1>3. \A u \in Threads : ThreadSound(u)'
  BY <1>2
<1>4. BaseFits(base_price)'
  BY <1>1 DEF IInv
<1>5. (\A u \in Threads : pc[u] \notin Settling) <=> \A u \in Threads : pc'[u] \notin Settling
  OBVIOUS
<1> QED
  BY <1>1, <1>3, <1>4, <1>5 DEF IInv
-----------------------------------------------------------------------------
(***************************************************************************)
(* One lemma for each action.                                              *)
(***************************************************************************)
\* The order a handler gets is of the types the handlers read.
LEMMA OrderTypes ==
    ASSUME Typed, NEW t \in Threads, NEW type, NEW o, o = OrderFor(type, order[t])
    PROVE  /\ o.volume \in Int /\ o.price \in UInts
           /\ order[t].volume \in Int
           /\ o.volume # 0 => o = order[t]
<1>1. order[t] \in Orders \cup {Blank("add")}
  BY DEF Typed
<1>2. Prices \subseteq UInts /\ Volumes \subseteq Int /\ 0 \in UInts
  BY InputAssumption, WidthAssumption, LengthAssumption DEF UInts
<1>3. order[t].volume \in Int /\ order[t].price \in UInts
  <2>1. CASE order[t] = Blank("add")
    BY <1>2, <2>1 DEF Blank
  <2>2. CASE order[t] \in Orders
    <3>1. order[t].volume \in Volumes /\ order[t].price \in Prices \cup {0}
      BY <2>2 DEF Orders
    <3> QED
      BY <3>1, <1>2
  <2> QED
    BY <1>1, <2>1, <2>2
<1>4. Blank(type).volume = 0 /\ Blank(type).price = 0
  BY DEF Blank
<1> QED
  BY <1>2, <1>3, <1>4 DEF OrderFor

\* So are the locals that are not in use.
LEMMA BlankTypes ==
    /\ NoShift \in ShiftFrames /\ NoRun \in Frames
    /\ NoResponse \in WideResponses /\ NoStats \in Statistics
<1>1. /\ 0 \in UInts /\ 0 \in Int /\ 0 \in Nat /\ 0 \in (-HalfRange)..(HalfRange - 1)
      /\ None \in OptPrices
  BY WidthAssumption, LengthAssumption DEF UInts, OptPrices
<1>2. NoShift \in ShiftFrames
  BY Zenon, <1>1 DEF NoShift, ShiftFrames
<1>3. NoRun \in Frames
  BY Zenon, <1>1 DEF NoRun, Frames
<1>4. NoResponse \in WideResponses
  BY Zenon, <1>1 DEF NoResponse, WideResponses
<1>5. NoStats \in Statistics
  BY Zenon, <1>1 DEF NoStats, Statistics
<1> QED
  BY <1>2, <1>3, <1>4, <1>5

LEMMA LockOrderKeeps ==
    ASSUME Discipline = Disciplines, IInv, WriterExclusion',
           NEW t \in Threads, NEW o \in Orders, LockOrder(t, o)
    PROVE  IInv'
<1>1. pc[t] = "idle" /\ pc' = [pc EXCEPT ![t] = "enter"]
  BY DEF LockOrder, Goto
<1>2. /\ modify_lock' = TRUE /\ order' = [order EXCEPT ![t] = o]
      /\ UNCHANGED <<book, version_counter, run, ret, shift>>
  BY DEF LockOrder
<1>3. Typed'
  BY <1>1, <1>2 DEF IInv, Typed, book, Points, HeldPoints
<1>4. pc'[t] = "enter" /\ order'[t] = o /\ base_price' = base_price
  BY <1>1, <1>2 DEF IInv, Typed, book
<1>5. o.volume # 0 => o.price # UInt32(base_price + BookLength)
  BY DEF LockOrder, OrderAllowed, Disciplines
<1>6. ThreadSound(t)'
  BY <1>4, <1>5 DEF ThreadSound, RunFits, ShiftFits, OrderInner, RunPoints, ShiftPoints
<1>7. LoneShift'
  BY <1>1 DEF IInv, Typed, LoneShift, ShiftPoints
<1> QED
  BY <1>1, <1>2, <1>3, <1>4, <1>6, <1>7, CallerKeeps DEF IInv, Typed, Settling, RunPoints

LEMMA CallShiftKeeps ==
    ASSUME Discipline = Disciplines, IInv, WriterExclusion',
           NEW t \in Threads, CallShift(t)
    PROVE  IInv'
<1>1. pc[t] = "idle" /\ pc' = [pc EXCEPT ![t] = "shift_lock"]
  BY DEF CallShift, Goto
<1>2. /\ shift' = [shift EXCEPT ![t] = [NoShift EXCEPT !.seen_base = base_price]]
      /\ UNCHANGED <<book, modify_lock, version_counter, order, run, ret>>
  BY DEF CallShift
<1>3. [NoShift EXCEPT !.seen_base = base_price] \in ShiftFrames
  BY BlankTypes DEF ShiftFrames, IInv, Typed
<1>4. Typed'
  BY <1>1, <1>2, <1>3 DEF IInv, Typed, book, Points
<1>5. /\ pc'[t] = "shift_lock" /\ order'[t].volume = 0
      /\ shift'[t].seen_base = base_price /\ base_price' = base_price
  BY <1>1, <1>2 DEF IInv, Typed, book, NoShift, ThreadSound, OrderInner
<1>6. ThreadSound(t)'
  BY <1>5 DEF ThreadSound, RunFits, ShiftFits, OrderInner, RunPoints, ShiftPoints
<1>7. LoneShift'
  <2>1. \A u \in Threads : pc[u] \notin ShiftPoints
    BY DEF CallShift, ShiftBegins, Disciplines
  <2> QED
    BY <2>1, <1>1 DEF IInv, Typed, LoneShift
<1> QED
  BY <1>1, <1>2, <1>4, <1>5, <1>6, <1>7, CallerKeeps DEF IInv, Typed, Settling, RunPoints

LEMMA LockShiftKeeps ==
    ASSUME Discipline = Disciplines, IInv, WriterExclusion',
           NEW t \in Threads, NEW k \in Shifts, LockShift(t, k)
    PROVE  IInv'
<1>1. pc[t] = "shift_lock" /\ pc' = [pc EXCEPT ![t] = "shift_enter"]
  BY DEF LockShift, Goto
<1>2. /\ shift' = [shift EXCEPT ![t] = [@ EXCEPT !.shift_by = k]]
      /\ UNCHANGED <<book, version_counter, order, run, ret>> /\ modify_lock' = TRUE
  BY DEF LockShift
<1>3. [shift[t] EXCEPT !.shift_by = k] \in ShiftFrames
  BY InputAssumption DEF ShiftFrames, IInv, Typed
<1>4. Typed'
  BY <1>1, <1>2, <1>3 DEF IInv, Typed, book, Points, HeldPoints
<1>5. /\ pc'[t] = "shift_enter" /\ order'[t].volume = 0
      /\ shift'[t].seen_base = base_price /\ shift'[t].shift_by = k
      /\ base_price' = base_price /\ mem_span' = mem_span
  BY <1>1, <1>2 DEF IInv, Typed, book, ShiftFrames, ThreadSound, OrderInner,
     ShiftFits, ShiftPoints
<1>6. ShiftAllowed(k)'
  BY <1>5 DEF LockShift, ShiftAllowed
<1>7. ThreadSound(t)'
  BY <1>5, <1>6 DEF ThreadSound, RunFits, ShiftFits, OrderInner, RunPoints
<1>8. LoneShift'
  BY <1>1 DEF IInv, Typed, LoneShift, ShiftPoints
<1> QED
  BY <1>1, <1>2, <1>4, <1>5, <1>7, <1>8, CallerKeeps DEF IInv, Typed, Settling, RunPoints

\* The far end of a side that has volume is a price, never the sentinel -1.
LEMMA FarEndReal ==
    ASSUME NEW mem \in [Cells -> Int], NEW base, BaseFits(base),
           NEW s \in Statistics, Sound(mem, base, s), NEW volume \in Int,
           \/ volume < 0 /\ s.best_offer # None
           \/ volume > 0 /\ s.best_bid # None
    PROVE  FarEnd(volume, s) # -1
<1> DEFINE far == IF volume < 0 THEN s.highest_offer ELSE s.lowest_bid
<1>1. base \in Nat
  BY DEF BaseFits
<1>2. far # None
  BY DEF Sound, BidsSound, OffersSound
<1>3. far \in PricesOf(base)
  BY <1>1, <1>2, SoundPrices DEF Sound
<1>4. far \in Nat /\ far < HalfRange
  BY <1>3, <1>1, LengthAssumption, WidthAssumption DEF PricesOf, BaseFits
<1> HIDE DEF far
<1>5. Int32(far) = far
  BY <1>4, WidthAssumption DEF Int32
<1>6. FarEnd(volume, s) = Int32(far)
  BY DEF FarEnd, far
<1> QED
  BY <1>4, <1>5, <1>6

LEMMA StartAddKeeps ==
    ASSUME IInv, WriterExclusion', NEW t \in Threads, StartAdd(t)
    PROVE  IInv'
<1> DEFINE o == OrderFor("add", order[t])
           volume == UsedVolume(o, base_price)
           end_price == IF Crossed(o, stats, base_price)
                        THEN FarEnd(volume, stats) ELSE -1
           f == RunFrame(volume, end_price, stats, base_price)
<1>1. pc[t] = "add" /\ pc' = [pc EXCEPT ![t] = "add_run"]
  BY DEF StartAdd, Goto
<1>2. /\ run' = [run EXCEPT ![t] = f]
      /\ UNCHANGED <<book, modify_lock, version_counter, order, ret, shift>>
  BY DEF StartAdd
<1>3. Sound(mem_span, base_price, stats)
  BY <1>1, Alone, PointClasses DEF Settling, RunPoints
<1>4. o.volume \in Int
  BY OrderTypes DEF IInv
<1>5. volume \in Int /\ (volume # 0 => o.volume # 0)
  BY <1>4 DEF UsedVolume
<1>6. Crossed(o, stats, base_price) =>
        \/ volume < 0 /\ stats.best_offer # None
        \/ volume > 0 /\ stats.best_bid # None
  BY Zenon DEF Crossed
<1>7. BaseFits(base_price) /\ mem_span \in [Cells -> Int] /\ stats \in Statistics
  BY DEF IInv, Typed
<1>8. end_price = -1 \/ end_price = FarEnd(volume, stats)
  OBVIOUS
<1>9. Crossed(o, stats, base_price) => end_price # -1 /\ end_price = FarEnd(volume, stats)
  BY <1>3, <1>5, <1>6, <1>7, FarEndReal
<1>10. ~Crossed(o, stats, base_price) => end_price = -1
  OBVIOUS
<1> HIDE DEF o, volume, end_price
<1>11. /\ f \in Frames /\ f.volume = volume
       /\ RunSound(f, mem_span, base_price, stats)
       /\ f.dummy <=> \/ end_price = -1 \/ volume = 0
                      \/ volume < 0 /\ stats.best_offer = None
                      \/ volume > 0 /\ stats.best_bid = None
  BY <1>3, <1>5, <1>7, <1>8, RunBegins
<1>12. f.dummy <=> ~Crossed(o, stats, base_price)
  BY <1>5, <1>6, <1>9, <1>10, <1>11
<1> HIDE DEF f
<1>13. Typed'
  BY <1>1, <1>2, <1>11 DEF IInv, Typed, book, Points, HeldPoints, FluxPoints
<1>14. /\ pc'[t] = "add_run" /\ run'[t] = f /\ order'[t] = order[t]
       /\ base_price' = base_price /\ mem_span' = mem_span /\ stats' = stats
  BY <1>1, <1>2 DEF IInv, Typed, book
<1>15. RunFits(t)'
  BY <1>11, <1>12, <1>14 DEF RunFits, o, volume
<1>16. ThreadSound(t)'
  BY <1>1, <1>14, <1>15 DEF IInv, ThreadSound, ShiftFits, OrderInner, ShiftPoints
<1> QED
  BY <1>1, <1>2, <1>7, <1>13, <1>14, <1>16, PointClasses, HolderKeeps
     DEF IInv, Typed, ShiftPoints, Settling, RunPoints

LEMMA StartMarketKeeps ==
    ASSUME IInv, WriterExclusion', NEW t \in Threads, StartMarket(t)
    PROVE  IInv'
<1> DEFINE volume == OrderFor("market", order[t]).volume
           f == RunFrame(volume, FarEnd(volume, stats), stats, base_price)
<1>1. pc[t] = "market" /\ pc' = [pc EXCEPT ![t] = "market_run"]
  BY DEF StartMarket, Goto
<1>2. /\ run' = [run EXCEPT ![t] = f]
      /\ UNCHANGED <<book, modify_lock, version_counter, order, ret, shift>>
  BY DEF StartMarket
<1>3. Sound(mem_span, base_price, stats)
  BY <1>1, Alone, PointClasses DEF Settling, RunPoints
<1>4. volume \in Int
  BY OrderTypes DEF IInv
<1>5. BaseFits(base_price) /\ mem_span \in [Cells -> Int] /\ stats \in Statistics
  BY DEF IInv, Typed
<1> HIDE DEF volume
<1>6. f \in Frames /\ RunSound(f, mem_span, base_price, stats)
  BY <1>3, <1>4, <1>5, RunBegins
<1> HIDE DEF f
<1>7. Typed'
  BY <1>1, <1>2, <1>6 DEF IInv, Typed, book, Points, HeldPoints, FluxPoints
<1>8. /\ pc'[t] = "market_run" /\ run'[t] = f /\ order'[t] = order[t]
      /\ base_price' = base_price /\ mem_span' = mem_span /\ stats' = stats
  BY <1>1, <1>2 DEF IInv, Typed, book
<1>9. ThreadSound(t)'
  BY <1>1, <1>6, <1>8 DEF IInv, ThreadSound, RunFits, ShiftFits, OrderInner, ShiftPoints
<1> QED
  BY <1>1, <1>2, <1>5, <1>7, <1>8, <1>9, PointClasses, HolderKeeps
     DEF IInv, Typed, ShiftPoints, Settling, RunPoints

\* An iteration of the loop of run_through_book reads and writes a bucket of
\* the array, whatever the run is.
LEMMA RunStepSound ==
    ASSUME IInv, NEW t \in Threads, RunStep(t)
    PROVE  /\ run[t].index \in Buckets
           /\ mem_span' \in [Cells -> Int]
           /\ \A c \in Cells : c # run[t].index => mem_span'[c] = mem_span[c]
           /\ run' = [run EXCEPT ![t] = run'[t]] /\ run'[t] \in Frames
           /\ run'[t].volume = run[t].volume /\ run'[t].dummy = run[t].dummy
           /\ RunSound(run'[t], mem_span', base_price, stats)
<1> DEFINE f == run[t]
           asked == -f.open_vol
           filled == Consumed(mem_span[f.index], asked)
           f2 == Advanced(f, filled, base_price)
           mem2 == [mem_span EXCEPT ![f.index] = @ - filled]
<1>1. pc[t] \in RunPoints /\ Running(f)
  BY DEF RunStep, RunPoints
<1>2. mem_span' = mem2 /\ run' = [run EXCEPT ![t] = f2]
  BY DEF RunStep
<1>3. RunSound(f, mem_span, base_price, stats) /\ f \in Frames
  BY <1>1 DEF IInv, Typed, ThreadSound, RunFits
<1>4. /\ base_price \in Nat /\ mem_span \in [Cells -> Int] /\ stats \in Statistics
      /\ f.index \in Int /\ f.open_vol \in Int /\ f.volume \in Int /\ asked \in Int
  BY <1>3 DEF IInv, Typed, BaseFits, Frames
<1>5. ~f.dummy /\ (f.volume < 0 \/ f.volume > 0)
  <2>1. ~f.dummy
    BY <1>1, <1>3 DEF Running, RunSound
  <2> QED
    BY <2>1, <1>3, <1>4 DEF RunSound
<1>6. run'[t] = f2
  BY <1>2 DEF IInv, Typed
<1>16. filled = Consumed(mem_span[f.index], -f.open_vol)
  OBVIOUS
<1> HIDE DEF f, asked, filled
<1>17. f2 = Advanced(f, filled, base_price) /\ mem2 = [mem_span EXCEPT ![f.index] = @ - filled]
  OBVIOUS
<1> HIDE DEF f2, mem2
<1>7. f.volume < 0 => f.index \in Buckets /\ BuyRun(f2, mem2, base_price, stats)
  <2> SUFFICES ASSUME f.volume < 0
               PROVE  f.index \in Buckets /\ BuyRun(f2, mem2, base_price, stats)
    OBVIOUS
  <2>1. BuyRun(f, mem_span, base_price, stats)
    BY <1>3, <1>5 DEF RunSound
  <2>2. f.index \in Buckets
    BY <1>1, <1>3, <1>4, <1>16, <1>17, <2>1, BuyStep
  <2>3. BuyRun(f2, mem2, base_price, stats)
    BY <1>1, <1>3, <1>4, <1>16, <1>17, <2>1, BuyStep
  <2> QED
    BY <2>2, <2>3
<1>8. f.volume > 0 => f.index \in Buckets /\ SellRun(f2, mem2, base_price, stats)
  <2> SUFFICES ASSUME f.volume > 0
               PROVE  f.index \in Buckets /\ SellRun(f2, mem2, base_price, stats)
    OBVIOUS
  <2>1. SellRun(f, mem_span, base_price, stats)
    BY <1>3, <1>5 DEF RunSound
  <2>2. f.index \in Buckets
    BY <1>1, <1>3, <1>4, <1>16, <1>17, <2>1, SellStep
  <2>3. SellRun(f2, mem2, base_price, stats)
    BY <1>1, <1>3, <1>4, <1>16, <1>17, <2>1, SellStep
  <2> QED
    BY <2>2, <2>3
<1>9. f.index \in Buckets /\ f.index \in Cells
  BY <1>5, <1>7, <1>8, LengthAssumption DEF Buckets, Cells
<1>10. mem_span[f.index] \in Int
  BY <1>4, <1>9
<1>11. filled \in Int
  <2>1. filled = Consumed(mem_span[f.index], asked)
    BY DEF filled
  <2>2. asked \in Int
    BY <1>4
  <2> QED
    <3> DEFINE held == mem_span[f.index]
    <3>1. held \in Int /\ filled = Consumed(held, asked)
      BY <1>10, <2>1
    <3> HIDE DEF held, asked
    <3> QED
      BY <2>2, <3>1, ConsumedFacts
<1>12. /\ mem2 \in [Cells -> Int]
       /\ \A c \in Cells : c # f.index => mem2[c] = mem_span[c]
  BY <1>4, <1>9, <1>10, <1>11, <1>17
<1>13. f2.volume = f.volume /\ f2.dummy = f.dummy
  BY <1>3, <1>17 DEF Advanced, Frames
<1>14. f2 \in Frames
  <2> DEFINE revenue == filled * (f.index + base_price)
  <2>1. revenue \in Int
    BY <1>4, <1>11
  <2>2. f2 = [f EXCEPT !.index = IF f.volume < 0 THEN @ + 1 ELSE @ - 1,
                       !.n_iterations = @ - 1,
                       !.open_vol = @ + filled,
                       !.transaction_index = IF filled # 0 THEN f.index ELSE @,
                       !.order_revenue = @ - revenue]
    BY Zenon, <1>17 DEF Advanced
  <2> HIDE DEF revenue
  <2>3. /\ (IF f.volume < 0 THEN f.index + 1 ELSE f.index - 1) \in Int
        /\ f.n_iterations - 1 \in Int /\ f.open_vol + filled \in Int
        /\ (IF filled # 0 THEN f.index ELSE f.transaction_index) \in Int
        /\ f.order_revenue - revenue \in Int
    BY <2>1, <1>3, <1>4, <1>11 DEF Frames
  <2> QED
    BY Zenon, <2>2, <2>3, <1>3 DEF Frames
<1>15. RunSound(f2, mem2, base_price, stats)
  <2>1. ~f2.dummy /\ f2.volume # 0
    BY <1>5, <1>13
  <2> QED
    BY <1>7, <1>8, <1>13, <2>1 DEF RunSound
<1> QED
  BY <1>2, <1>6, <1>9, <1>12, <1>13, <1>14, <1>15 DEF f

LEMMA RunStepKeeps ==
    ASSUME IInv, WriterExclusion', NEW t \in Threads, RunStep(t)
    PROVE  IInv'
<1>1. /\ mem_span' \in [Cells -> Int]
      /\ run' = [run EXCEPT ![t] = run'[t]] /\ run'[t] \in Frames
      /\ run'[t].volume = run[t].volume /\ run'[t].dummy = run[t].dummy
      /\ RunSound(run'[t], mem_span', base_price, stats)
  BY RunStepSound
<1>2. /\ pc[t] \in RunPoints
      /\ UNCHANGED <<base_price, stats, modify_lock, version_counter, pc,
                     order, ret, shift>>
  BY DEF RunStep, RunPoints
<1>3. Typed'
  BY <1>1, <1>2 DEF IInv, Typed
<1>4. RunFits(t)'
  BY <1>1, <1>2 DEF IInv, ThreadSound, RunFits
<1>5. ThreadSound(t)'
  BY <1>2, <1>4 DEF IInv, ThreadSound, ShiftFits, OrderInner, RunPoints, ShiftPoints
<1> QED
  BY <1>2, <1>3, <1>5, MorePoints, PointClasses, HolderKeeps
     DEF IInv, RunPoints, Settling

\* What the end of a run leaves of the book.
LEMMA RunSettled ==
    ASSUME IInv, NEW t \in Threads, pc[t] \in RunPoints, ~Running(run[t]),
           NEW s2, s2 = Settled(run[t], stats, mem_span, base_price)
    PROVE  /\ s2 \in Statistics /\ Sound(mem_span, base_price, s2)
           /\ run[t].dummy => run[t].open_vol = 0 /\ s2 = stats
           /\ ~run[t].dummy /\ run[t].volume < 0 =>
                run[t].open_vol <= 0 /\ (run[t].open_vol # 0 => s2.best_offer = None)
           /\ ~run[t].dummy /\ run[t].volume > 0 =>
                run[t].open_vol >= 0 /\ (run[t].open_vol # 0 => s2.best_bid = None)
           /\ ~run[t].dummy => run[t].volume < 0 \/ run[t].volume > 0
<1> DEFINE f == run[t]
<1>1. RunSound(f, mem_span, base_price, stats) /\ f \in Frames
  BY DEF IInv, Typed, ThreadSound, RunFits
<1>2. base_price \in Nat /\ mem_span \in [Cells -> Int] /\ stats \in Statistics
  BY DEF IInv, Typed, BaseFits
<1>3. s2 = Settled(f, stats, mem_span, base_price) /\ ~Running(f)
  OBVIOUS
<1> HIDE DEF f
<1>4. f.volume \in Int
  BY <1>1 DEF Frames
<1>5. CASE f.dummy
  <2>1. Sound(mem_span, base_price, stats) /\ f.open_vol = 0
    BY <1>1, <1>5 DEF RunSound
  <2>2. s2 = stats
    BY <1>1, <1>2, <1>3, <1>5, <2>1, SettledDummy
  <2> QED
    BY <1>2, <1>5, <2>1, <2>2 DEF f
<1>6. CASE ~f.dummy /\ f.volume < 0
  <2>1. BuyRun(f, mem_span, base_price, stats)
    BY <1>1, <1>6 DEF RunSound
  <2>2. /\ s2 \in Statistics /\ Sound(mem_span, base_price, s2)
        /\ f.open_vol # 0 => s2.best_offer = None
    BY <1>1, <1>2, <1>3, <1>6, <2>1, SettledBuy
  <2>3. f.open_vol <= 0
    BY <2>1 DEF BuyRun
  <2> QED
    BY <1>4, <1>6, <2>2, <2>3 DEF f
<1>7. CASE ~f.dummy /\ f.volume > 0
  <2>1. SellRun(f, mem_span, base_price, stats)
    BY <1>1, <1>7 DEF RunSound
  <2>2. /\ s2 \in Statistics /\ Sound(mem_span, base_price, s2)
        /\ f.open_vol # 0 => s2.best_bid = None
    BY <1>1, <1>2, <1>3, <1>7, <2>1, SettledSell
  <2>3. f.open_vol >= 0
    BY <2>1 DEF SellRun
  <2> QED
    BY <1>4, <1>7, <2>2, <2>3 DEF f
<1>8. f.dummy \/ f.volume < 0 \/ f.volume > 0
  BY <1>1, <1>4 DEF RunSound
<1> QED
  BY <1>5, <1>6, <1>7, <1>8

\* WideResponses are of their type.
LEMMA ResponseTypes ==
    ASSUME NEW f \in Frames, NEW base \in Nat, NEW o
    PROVE  /\ RunResponse(f, base) \in WideResponses
           /\ OutOfRange(o, base) \in Nat
           /\ RunResponse(f, base).filled = IF f.dummy THEN 0 ELSE f.volume - f.open_vol
           /\ RunResponse(f, base).error = 0
<1>1. /\ (IF f.dummy THEN 0 ELSE base + f.transaction_index) \in Int
      /\ (IF f.dummy THEN 0 ELSE f.volume - f.open_vol) \in Int
      /\ f.order_revenue \in Int /\ 0 \in Nat
  BY DEF Frames
<1>2. RunResponse(f, base) \in WideResponses
  BY Zenon, <1>1 DEF RunResponse, WideResponses
<1>3. OutOfRange(o, base) \in Nat
  BY DEF OutOfRange
<1> QED
  BY <1>2, <1>3 DEF RunResponse

LEMMA AddedTypes ==
    ASSUME NEW r \in WideResponses, NEW s \in WideResponses
    PROVE  AddResponse(r, s) \in WideResponses
<1>1. /\ r.price + s.price \in Int /\ r.filled + s.filled \in Int
      /\ r.revenue + s.revenue \in Int /\ r.error + s.error \in Nat
  BY DEF WideResponses
<1> QED
  BY Zenon, <1>1 DEF AddResponse, WideResponses

\* What rests of an order that was not filled leaves a sound book.
LEMMA RestLeavesSound ==
    ASSUME IInv, NEW t \in Threads, FinishAdd(t)
    PROVE  /\ mem_span' \in [Cells -> Int] /\ mem_span'[BookLength] = mem_span[BookLength]
           /\ stats' \in Statistics
           /\ Sound(mem_span', base_price, stats')
<1> DEFINE o == OrderFor("add", order[t])
           f == run[t]
           price == UsedPrice(o, base_price)
           unfilled == f.volume - RunResponse(f, base_price).filled
           s1 == Settled(f, stats, mem_span, base_price)
<1>1. pc[t] = "add_run" /\ ~Running(f)
  BY DEF FinishAdd, Goto
<1>2. /\ mem_span' = IF f.volume = 0 THEN mem_span
                     ELSE [mem_span EXCEPT ![price - base_price] = @ + unfilled]
      /\ stats' = Rested(f.volume, unfilled, price, s1)
  BY DEF FinishAdd
<1>3. /\ s1 \in Statistics /\ Sound(mem_span, base_price, s1)
      /\ f.dummy => f.open_vol = 0 /\ s1 = stats
      /\ ~f.dummy /\ f.volume < 0 =>
           f.open_vol <= 0 /\ (f.open_vol # 0 => s1.best_offer = None)
      /\ ~f.dummy /\ f.volume > 0 =>
           f.open_vol >= 0 /\ (f.open_vol # 0 => s1.best_bid = None)
      /\ ~f.dummy => f.volume < 0 \/ f.volume > 0
  BY <1>1, RunSettled DEF RunPoints
<1>4. f \in Frames /\ BaseFits(base_price) /\ mem_span \in [Cells -> Int] /\ base_price \in Nat
  BY DEF IInv, Typed, BaseFits
<1>5. unfilled = f.volume - IF f.dummy THEN 0 ELSE f.volume - f.open_vol
  BY <1>4, ResponseTypes
<1>6. f.volume \in Int /\ f.open_vol \in Int /\ f.dummy \in BOOLEAN
  BY <1>4 DEF Frames
<1> HIDE DEF unfilled
<1>7. unfilled = IF f.dummy THEN f.volume ELSE f.open_vol
  BY <1>5, <1>6
<1>8. f.volume = UsedVolume(o, base_price) /\ (f.dummy <=> ~Crossed(o, stats, base_price))
  BY <1>1 DEF IInv, ThreadSound, RunFits
<1>9. o.volume \in Int /\ o.price \in UInts /\ (o.volume # 0 => o = order[t])
  BY OrderTypes DEF IInv
<1>10. o.volume # 0 => o.price # UInt32(base_price + BookLength)
  BY <1>9 DEF IInv, ThreadSound, OrderInner
<1>11. /\ o.volume = 0 => UsedVolume(o, base_price) = 0
       /\ o.volume # 0 => price \in PricesOf(base_price)
  BY <1>4, <1>9, <1>10, UsedInner
<1>12. f.dummy => /\ f.volume < 0 => stats.best_offer = None \/ ~ (price >= stats.best_offer)
                  /\ f.volume > 0 => stats.best_bid = None \/ ~ (price <= stats.best_bid)
  BY Zenon, <1>8 DEF Crossed
<1>13. stats.best_offer \in Int /\ stats.best_bid \in Int
  BY DEF IInv, Typed, Statistics, OptPrices, UInts, None
<1> HIDE DEF o, f, price, s1
<1>14. CASE f.volume = 0
  <2>1. f.dummy /\ unfilled = 0
    BY <1>3, <1>6, <1>7, <1>14
  <2>2. stats' = s1
    BY <1>2, <1>3, <2>1 DEF Rested, Statistics
  <2> QED
    BY <1>2, <1>3, <1>4, <1>14, <2>2
<1>15. CASE f.volume # 0
  <2>1. price \in PricesOf(base_price) /\ price \in Int
    BY <1>4, <1>8, <1>11, <1>15, LengthAssumption DEF PricesOf
  <2>2. unfilled \in Int
    BY <1>6, <1>7
  <2>3. f.volume < 0 => /\ unfilled <= 0
                        /\ unfilled # 0 => s1.best_offer = None \/ price < s1.best_offer
    <3>1. CASE f.dummy
      BY <1>3, <1>6, <1>7, <1>12, <1>13, <2>1, <3>1
    <3>2. CASE ~f.dummy
      BY <1>3, <1>7, <3>2
    <3> QED
      BY <3>1, <3>2
  <2>4. f.volume > 0 => /\ unfilled >= 0
                        /\ unfilled # 0 => s1.best_bid = None \/ price > s1.best_bid
    <3>1. CASE f.dummy
      BY <1>3, <1>6, <1>7, <1>12, <1>13, <2>1, <3>1
    <3>2. CASE ~f.dummy
      BY <1>3, <1>7, <3>2
    <3> QED
      BY <3>1, <3>2
  <2>5. mem_span' = [mem_span EXCEPT ![price - base_price] = @ + unfilled]
    BY <1>2, <1>15
  <2>6. /\ mem_span' \in [Cells -> Int] /\ stats' \in Statistics
        /\ Sound(mem_span', base_price, stats')
    <3>1. mem_span' \in [Cells -> Int]
      <4>1. price - base_price \in Cells
        BY <1>4, <2>1, LengthAssumption DEF PricesOf, Cells
      <4> QED
        BY <1>4, <2>2, <2>5, <4>1
    <3>2. stats' \in Statistics
      BY <1>2, <1>3, <1>4, <1>6, <1>15, <2>1, <2>2, <2>3, <2>4, <2>5, RestedSound
    <3>3. Sound(mem_span', base_price, stats')
      BY <1>2, <1>3, <1>4, <1>6, <1>15, <2>1, <2>2, <2>3, <2>4, <2>5, RestedSound
    <3> QED
      BY <3>1, <3>2, <3>3
  <2>7. price - base_price # BookLength
    BY <1>4, <2>1, LengthAssumption DEF PricesOf
  <2> QED
    BY <1>4, <2>5, <2>6, <2>7, LengthAssumption DEF Cells
<1> QED
  BY <1>14, <1>15

LEMMA FinishAddKeeps ==
    ASSUME IInv, WriterExclusion', NEW t \in Threads, FinishAdd(t)
    PROVE  IInv'
<1> DEFINE response == RunResponse(run[t], base_price)
           o == OrderFor("add", order[t])
           error == OutOfRange(o, base_price)
<1>1. pc[t] = "add_run" /\ pc' = [pc EXCEPT ![t] = "withdraw"]
  BY DEF FinishAdd, Goto
<1>2. /\ ret' = [ret EXCEPT ![t] = [response EXCEPT !.error = error]]
      /\ run' = [run EXCEPT ![t] = NoRun]
      /\ UNCHANGED <<base_price, modify_lock, version_counter, order, shift>>
  BY DEF FinishAdd
<1>3. /\ mem_span' \in [Cells -> Int] /\ stats' \in Statistics
      /\ Sound(mem_span', base_price, stats')
  BY RestLeavesSound
<1>4. response \in WideResponses /\ error \in Nat
  BY ResponseTypes DEF IInv, Typed, BaseFits
<1> HIDE DEF response, error
<1>5. [response EXCEPT !.error = error] \in WideResponses
  BY <1>4 DEF WideResponses
<1>6. Typed'
  BY <1>1, <1>2, <1>3, <1>5, BlankTypes DEF IInv, Typed, Points, HeldPoints, FluxPoints
<1>7. pc'[t] = "withdraw" /\ order'[t] = order[t] /\ base_price' = base_price
  BY <1>1, <1>2 DEF IInv, Typed
<1>8. ThreadSound(t)'
  BY <1>1, <1>7 DEF IInv, ThreadSound, RunFits, ShiftFits, OrderInner, ShiftPoints, RunPoints
<1> QED
  BY <1>1, <1>2, <1>3, <1>6, <1>7, <1>8, PointClasses, HolderKeeps
     DEF IInv, Typed, ShiftPoints

LEMMA FinishMarketKeeps ==
    ASSUME IInv, WriterExclusion', NEW t \in Threads, FinishMarket(t)
    PROVE  IInv'
<1>1. pc[t] = "market_run" /\ pc' = [pc EXCEPT ![t] = "leave"] /\ ~Running(run[t])
  BY DEF FinishMarket, Goto
<1>2. /\ stats' = Settled(run[t], stats, mem_span, base_price)
      /\ ret' = [ret EXCEPT ![t] = AddResponse(ret[t], RunResponse(run[t], base_price))]
      /\ run' = [run EXCEPT ![t] = NoRun]
      /\ UNCHANGED <<base_price, mem_span, modify_lock, version_counter, order, shift>>
  BY DEF FinishMarket, IInv, Typed
<1>3. stats' \in Statistics /\ Sound(mem_span, base_price, stats')
  BY <1>1, <1>2, RunSettled DEF RunPoints
<1>4. AddResponse(ret[t], RunResponse(run[t], base_price)) \in WideResponses
  BY ResponseTypes, AddedTypes DEF IInv, Typed, BaseFits
<1>5. Typed'
  BY <1>1, <1>2, <1>3, <1>4, BlankTypes DEF IInv, Typed, Points, HeldPoints, FluxPoints
<1>6. pc'[t] = "leave" /\ order'[t] = order[t] /\ base_price' = base_price
  BY <1>1, <1>2 DEF IInv, Typed
<1>7. ThreadSound(t)'
  BY <1>1, <1>6 DEF IInv, ThreadSound, RunFits, ShiftFits, OrderInner, ShiftPoints, RunPoints
<1> QED
  BY <1>1, <1>2, <1>3, <1>5, <1>6, <1>7, PointClasses, HolderKeeps
     DEF IInv, Typed, ShiftPoints

LEMMA WithdrawKeeps ==
    ASSUME IInv, WriterExclusion', NEW t \in Threads, Withdraw(t)
    PROVE  IInv'
<1> DEFINE o == OrderFor("withdraw", order[t])
           response == [price |-> 0, filled |-> Withdrawn(o, mem_span, base_price),
                        revenue |-> 0, error |-> OutOfRange(o, base_price)]
<1>1. pc[t] = "withdraw" /\ pc' = [pc EXCEPT ![t] = "market"]
  BY DEF Withdraw, Goto
<1>2. /\ mem_span' = WithdrawnMem(o, mem_span, base_price)
      /\ stats' = WithdrawnStats(o, mem_span', base_price, stats)
      /\ ret' = [ret EXCEPT ![t] = AddResponse(ret[t], response)]
      /\ UNCHANGED <<base_price, modify_lock, version_counter, order, run, shift>>
  BY DEF Withdraw, IInv, Typed
<1>3. Sound(mem_span, base_price, stats)
  BY <1>1, Alone, PointClasses DEF Settling, RunPoints
<1>4. o.volume \in Int /\ o.price \in UInts /\ (o.volume # 0 => o = order[t])
  BY OrderTypes DEF IInv
<1>5. o.volume # 0 => o.price # UInt32(base_price + BookLength)
  BY <1>4 DEF IInv, ThreadSound, OrderInner
<1>6. BaseFits(base_price) /\ mem_span \in [Cells -> Int] /\ stats \in Statistics
  BY DEF IInv, Typed
<1> HIDE DEF o
<1>7. mem_span' \in [Cells -> Int]
  BY <1>2, <1>3, <1>4, <1>5, <1>6, WithdrawSound
<1>8. stats' \in Statistics
  BY <1>2, <1>3, <1>4, <1>5, <1>6, WithdrawSound
<1>9. Sound(mem_span', base_price, stats')
  BY <1>2, <1>3, <1>4, <1>5, <1>6, WithdrawSound
<1>10. response \in WideResponses
  <2>1. Withdrawn(o, mem_span, base_price) \in Int
    <3>1. CASE o.volume = 0
      BY <3>1 DEF Withdrawn
    <3>2. CASE o.volume # 0
      <4>1. /\ UsedVolume(o, base_price) \in Int
            /\ UsedPrice(o, base_price) \in PricesOf(base_price)
        BY <1>4, <1>5, <1>6, <3>2, UsedInner
      <4>2. UsedPrice(o, base_price) - base_price \in Cells
        BY <1>6, <4>1, LengthAssumption DEF PricesOf, Cells, BaseFits
      <4> QED
        BY <1>6, <3>2, <4>1, <4>2, ConsumedFacts DEF Withdrawn
    <3> QED
      BY <3>1, <3>2
  <2>2. OutOfRange(o, base_price) \in Nat
    BY DEF OutOfRange
  <2> QED
    BY <2>1, <2>2 DEF WideResponses
<1>11. AddResponse(ret[t], response) \in WideResponses
  BY <1>10, AddedTypes DEF IInv, Typed
<1> HIDE DEF response
<1>12. Typed'
  BY <1>1, <1>2, <1>7, <1>8, <1>11 DEF IInv, Typed, Points, HeldPoints, FluxPoints
<1>13. pc'[t] = "market" /\ order'[t] = order[t] /\ base_price' = base_price
  BY <1>1, <1>2 DEF IInv, Typed
<1>14. ThreadSound(t)'
  BY <1>1, <1>13 DEF IInv, ThreadSound, RunFits, ShiftFits, OrderInner, ShiftPoints, RunPoints
<1> QED
  BY <1>1, <1>2, <1>6, <1>9, <1>12, <1>13, <1>14, PointClasses, HolderKeeps
     DEF IInv, Typed, ShiftPoints

\* The steps that only move on: into the handlers, out of them, out of the
\* lock.
LEMMA PassageKeeps ==
    ASSUME IInv, WriterExclusion', NEW t \in Threads,
           EnterOrder(t) \/ LeaveOrder(t) \/ LeaveShift(t) \/ Unlock(t)
    PROVE  IInv'
<1>1. PICK to \in {"add", "unlock", "idle"} : pc' = [pc EXCEPT ![t] = to]
  BY DEF EnterOrder, LeaveOrder, LeaveShift, Unlock, Goto
<1>2. pc[t] \in {"enter", "leave", "shift_leave", "unlock"}
  BY DEF EnterOrder, LeaveOrder, LeaveShift, Unlock, Goto
<1>3. UNCHANGED <<book, run>>
  BY DEF EnterOrder, LeaveOrder, LeaveShift, Unlock, locals
<1>4. /\ version_counter' \in 0..MaxVersion
      /\ modify_lock' \in BOOLEAN
  BY TickParity DEF EnterOrder, LeaveOrder, LeaveShift, Unlock, IInv, Typed
<1>5. \/ to # "idle" /\ UNCHANGED <<order, ret, shift>>
      \/ /\ order' = [order EXCEPT ![t] = Blank("add")]
         /\ ret' = [ret EXCEPT ![t] = NoResponse]
         /\ shift' = [shift EXCEPT ![t] = NoShift]
  BY <1>1 DEF EnterOrder, LeaveOrder, LeaveShift, Unlock, locals, Goto, IInv, Typed
<1>6. Typed'
  BY <1>1, <1>3, <1>4, <1>5, BlankTypes
     DEF IInv, Typed, book, Points, HeldPoints, FluxPoints
<1>7. Sound(mem_span, base_price, stats)
  BY <1>2, Alone, PointClasses DEF Settling, RunPoints
<1>8. pc'[t] = to
  BY <1>1 DEF IInv, Typed
<1>9. \/ to # "idle" /\ order'[t] = order[t]
      \/ order'[t] = Blank("add")
  BY <1>5 DEF IInv, Typed
<1>10. OrderInner(t)'
  <2>1. to # "idle" => pc'[t] \notin ShiftPoints \cup {"idle"}
    BY <1>1, <1>8 DEF ShiftPoints
  <2>2. Blank("add").volume = 0
    BY DEF Blank
  <2> QED
    BY <1>3, <1>9, <2>1, <2>2 DEF IInv, ThreadSound, OrderInner, book
<1>11. ThreadSound(t)'
  BY <1>1, <1>8, <1>10 DEF ThreadSound, RunFits, ShiftFits, RunPoints
<1>12. \A u \in Threads : u # t => /\ pc'[u] = pc[u] /\ order'[u] = order[u]
                                   /\ shift'[u] = shift[u]
  BY <1>1, <1>5 DEF IInv, Typed
<1>13. pc[t] \in HeldPoints /\ pc'[t] \notin ShiftPoints
  BY <1>1, <1>2, <1>8, PointClasses DEF ShiftPoints
<1> QED
  BY <1>3, <1>6, <1>7, <1>11, <1>12, <1>13, HolderKeeps DEF IInv, book

LEMMA EnterShiftKeeps ==
    ASSUME IInv, WriterExclusion', NEW t \in Threads, EnterShift(t)
    PROVE  IInv'
<1> DEFINE k == shift[t].shift_by
           possible == ShiftPossible(k, shift[t].seen_base, base_price, stats)
           mem_shift == IF possible /\ ~NoVolume(stats) THEN k ELSE 0
           frame == [shift[t] EXCEPT !.possible = possible, !.mem_shift = mem_shift]
<1>1. pc[t] = "shift_enter" /\ pc' = [pc EXCEPT ![t] = "shift_move"]
  BY DEF EnterShift, Goto
<1>2. /\ shift' = [shift EXCEPT ![t] = frame]
      /\ version_counter' = Tick(version_counter)
      /\ UNCHANGED <<book, modify_lock, order, run, ret>>
  BY DEF EnterShift
<1>3. Sound(mem_span, base_price, stats)
  BY <1>1, Alone, PointClasses DEF Settling, RunPoints
<1>4. shift[t] \in ShiftFrames /\ shift[t].seen_base = base_price /\ ShiftAllowed(k)
  BY <1>1 DEF IInv, Typed, ThreadSound, ShiftFits
<1>5. possible \in BOOLEAN
  BY Zenon DEF ShiftPossible
<1>6. k \in Int
  BY <1>4 DEF ShiftFrames
<1>7. possible = ShiftPossible(k, base_price, base_price, stats)
  BY <1>4
<1> HIDE DEF possible, k
<1>8. mem_shift \in Int /\ mem_shift = IF possible /\ ~NoVolume(stats) THEN k ELSE 0
  BY <1>6
<1> HIDE DEF mem_shift
<1>9. /\ frame \in ShiftFrames /\ frame.shift_by = k
      /\ frame.possible = possible /\ frame.mem_shift = mem_shift
  BY Zenon, <1>4, <1>5, <1>8 DEF ShiftFrames, k
<1> HIDE DEF frame
<1>10. Typed'
  BY <1>1, <1>2, <1>9, TickParity DEF IInv, Typed, book, Points, HeldPoints, FluxPoints
<1>11. /\ pc'[t] = "shift_move" /\ shift'[t] = frame /\ order'[t] = order[t]
       /\ base_price' = base_price /\ mem_span' = mem_span /\ stats' = stats
  BY <1>1, <1>2 DEF IInv, Typed, book
<1>12. ShiftFits(t)'
  BY <1>4, <1>7, <1>8, <1>9, <1>11 DEF ShiftFits, ShiftAllowed
<1>13. ThreadSound(t)'
  BY <1>1, <1>11, <1>12 DEF IInv, ThreadSound, RunFits, OrderInner, ShiftPoints, RunPoints
<1> QED
  BY <1>1, <1>2, <1>3, <1>10, <1>11, <1>13, PointClasses, HolderKeeps
     DEF IInv, Typed, ShiftPoints

\* What the move of the buckets leaves, once the base price follows.
LEMMA BucketsMoved ==
    ASSUME Discipline = Disciplines, IInv, NEW t \in Threads, MoveBuckets(t)
    PROVE  /\ mem_span' \in [Cells -> Int]
           /\ mem_span'[BookLength] = mem_span[BookLength]
           /\ BaseFits(NextBase(t)) /\ Sound(mem_span', NextBase(t), stats)
           /\ \A p \in UInts :
                VolumeAt(p, mem_span', base_price + shift[t].mem_shift)
                  = VolumeAt(p, mem_span, base_price)
<1> DEFINE k == shift[t].shift_by
           m == shift[t].mem_shift
<1>1. pc[t] = "shift_move" /\ mem_span' = ShiftedMem(mem_span, m)
  BY DEF MoveBuckets, Goto
<1>2. Sound(mem_span, base_price, stats)
  BY <1>1, Alone, PointClasses DEF Settling, RunPoints
<1>3. BaseFits(base_price) /\ mem_span \in [Cells -> Int] /\ stats \in Statistics
  BY DEF IInv, Typed
<1>4. k \in Int /\ base_price \in Nat
  BY <1>3 DEF IInv, Typed, ShiftFrames, BaseFits
<1>5. /\ shift[t].possible => ShiftPossible(k, base_price, base_price, stats)
      /\ m = IF shift[t].possible /\ ~NoVolume(stats) THEN k ELSE 0
      /\ ShiftAllowed(k)
  BY <1>1 DEF IInv, ThreadSound, ShiftFits
<1>6. /\ \A i \in Buckets : mem_span[i] # 0 => i < BookLength - k /\ i >= -k
      /\ k < 0 => \A i \in Buckets : mem_span[i] # 0 => i # BookLength + k
      /\ base_price + k + BookLength < HalfRange
  BY <1>5 DEF ShiftAllowed, Disciplines
<1>7. NextBase(t) = IF shift[t].possible THEN base_price + k ELSE base_price
  BY DEF NextBase
<1> HIDE DEF k, m
<1>8. CASE shift[t].possible
  <2>1. m = IF NoVolume(stats) THEN 0 ELSE k
    BY <1>5, <1>8
  <2>2. mem_span' \in [Cells -> Int] /\ mem_span'[BookLength] = mem_span[BookLength]
    BY <1>1, <1>2, <1>3, <1>4, <1>5, <1>6, <1>8, <2>1, ShiftSound
  <2>3. BaseFits(base_price + k) /\ Sound(mem_span', base_price + k, stats)
    BY <1>1, <1>2, <1>3, <1>4, <1>5, <1>6, <1>8, <2>1, ShiftSound
  <2>4. \A p \in UInts : VolumeAt(p, mem_span', base_price + m) = VolumeAt(p, mem_span, base_price)
    BY <1>1, <1>2, <1>3, <1>4, <1>5, <1>6, <1>8, <2>1, ShiftSound
  <2> QED
    BY <1>7, <1>8, <2>2, <2>3, <2>4 DEF m
<1>9. CASE ~shift[t].possible
  <2>1. m = 0 /\ base_price + m = base_price
    BY <1>4, <1>5, <1>9
  <2>2. mem_span' = mem_span
    BY <1>1, <1>3, <2>1, ShiftedByNothing
  <2> QED
    BY <1>2, <1>3, <1>7, <1>9, <2>1, <2>2 DEF m
<1> QED
  BY <1>8, <1>9

LEMMA MoveBucketsKeeps ==
    ASSUME Discipline = Disciplines, IInv, WriterExclusion',
           NEW t \in Threads, MoveBuckets(t)
    PROVE  IInv'
<1>1. pc[t] = "shift_move" /\ pc' = [pc EXCEPT ![t] = "shift_base"]
  BY DEF MoveBuckets, Goto
<1>2. UNCHANGED <<base_price, stats, modify_lock, version_counter, locals>>
  BY DEF MoveBuckets
<1>3. /\ mem_span' \in [Cells -> Int]
      /\ BaseFits(NextBase(t)) /\ Sound(mem_span', NextBase(t), stats)
  BY BucketsMoved
<1>4. Typed'
  BY <1>1, <1>2, <1>3 DEF IInv, Typed, locals, Points, HeldPoints, FluxPoints
<1>5. /\ pc'[t] = "shift_base" /\ base_price' = base_price /\ stats' = stats
      /\ shift' = shift /\ order' = order /\ run' = run
  BY <1>1, <1>2 DEF IInv, Typed, locals
<1>6. ShiftFits(t)'
  BY <1>3, <1>5 DEF ShiftFits, NextBase
<1>7. ThreadSound(t)'
  BY <1>1, <1>5, <1>6 DEF IInv, ThreadSound, RunFits, OrderInner, ShiftPoints, RunPoints
<1> QED
  BY <1>1, <1>4, <1>5, <1>7, PointClasses, HolderKeeps
     DEF IInv, Typed, ShiftPoints, Settling

\* The base price follows, and arithmetic modulo 2^32 leaves it as it is.
LEMMA BaseMoved ==
    ASSUME IInv, NEW t \in Threads, MoveBase(t)
    PROVE  base_price' = NextBase(t) /\ BaseFits(base_price') /\ base_price' \in UInts
<1>1. /\ pc[t] = "shift_base"
      /\ base_price' = IF shift[t].possible THEN UInt32(base_price + shift[t].shift_by)
                       ELSE base_price
  BY DEF MoveBase, Goto
<1>2. BaseFits(NextBase(t)) /\ base_price \in Nat
  BY <1>1 DEF IInv, ThreadSound, ShiftFits, BaseFits
<1>3. \A x : BaseFits(x) => UInt32(x) = x /\ x \in UInts
  BY LengthAssumption, WidthAssumption DEF BaseFits, UInt32, UInts
<1> QED
  BY <1>1, <1>2, <1>3 DEF NextBase, IInv

LEMMA MoveBaseKeeps ==
    ASSUME IInv, WriterExclusion', NEW t \in Threads, MoveBase(t)
    PROVE  IInv'
<1>1. pc[t] = "shift_base" /\ pc' = [pc EXCEPT ![t] = "shift_leave"]
  BY DEF MoveBase, Goto
<1>2. UNCHANGED <<mem_span, stats, modify_lock, version_counter, locals>>
  BY DEF MoveBase
<1>3. base_price' = NextBase(t) /\ BaseFits(base_price') /\ base_price' \in UInts
  BY BaseMoved
<1>4. Typed'
  BY <1>1, <1>2, <1>3 DEF IInv, Typed, locals, Points, HeldPoints, FluxPoints
<1>5. /\ pc'[t] = "shift_leave" /\ mem_span' = mem_span /\ stats' = stats
      /\ shift' = shift /\ order' = order /\ run' = run
  BY <1>1, <1>2 DEF IInv, Typed, locals
<1>6. Sound(mem_span', base_price', stats')
  BY <1>1, <1>3, <1>5 DEF IInv, ThreadSound, ShiftFits
<1>7. order'[t].volume = 0
  BY <1>1, <1>5 DEF IInv, ThreadSound, OrderInner, ShiftPoints
<1>8. ThreadSound(t)'
  BY <1>5, <1>7 DEF ThreadSound, RunFits, ShiftFits, OrderInner, ShiftPoints, RunPoints
<1> QED
  BY <1>1, <1>3, <1>4, <1>5, <1>6, <1>8, PointClasses, HolderKeeps
     DEF IInv, Typed, ShiftPoints
-----------------------------------------------------------------------------
(***************************************************************************)
(* The invariant holds.                                                    *)
(***************************************************************************)
LEMMA InvInit ==
    ASSUME Discipline = Disciplines
    PROVE  Init => IInv
<1> SUFFICES ASSUME Init PROVE IInv
  OBVIOUS
<1>1. /\ base_price \in BasePrices /\ stats = NoStats
      /\ pc = [t \in Threads |-> "idle"] /\ modify_lock = FALSE /\ version_counter = 0
      /\ order = [t \in Threads |-> Blank("add")] /\ run = [t \in Threads |-> NoRun]
      /\ ret = [t \in Threads |-> NoResponse] /\ shift = [t \in Threads |-> NoShift]
  BY DEF Init
<1>2. PICK w \in SlackValues : mem_span = [i \in Cells |-> IF i = BookLength THEN w ELSE 0]
  BY DEF Init
<1>3. mem_span \in [Cells -> Int] /\ \A i \in Buckets : mem_span[i] = 0
  BY <1>2, InputAssumption, LengthAssumption DEF Cells, Buckets
<1>4. BaseFits(base_price) /\ base_price \in UInts
  <2>1. base_price \in UInts /\ base_price + BookLength < HalfRange
    BY <1>1, InputAssumption, DisciplineAssumption DEF Disciplines, UInts
  <2> QED
    BY <2>1, WidthAssumption DEF BaseFits, UInts
<1>5. LockInv
  BY LockInit
<1>6. Typed
  BY <1>1, <1>3, <1>4, <1>5, BlankTypes DEF LockInv, LockType, Typed
<1>7. Sound(mem_span, base_price, stats)
  BY <1>1, <1>3 DEF NoStats, Sound, BidsSound, OffersSound, Apart
<1>8. Blank("add").volume = 0
  BY DEF Blank
<1>9. \A t \in Threads : pc[t] = "idle" /\ order[t].volume = 0
  BY <1>1, <1>8
<1>10. \A t \in Threads : ThreadSound(t)
  BY <1>9 DEF ThreadSound, RunFits, ShiftFits, OrderInner, RunPoints
<1>11. LoneShift
  BY <1>9 DEF LoneShift, ShiftPoints
<1> QED
  BY <1>4, <1>5, <1>6, <1>7, <1>10, <1>11 DEF IInv, LockInv

LEMMA InvStep ==
    ASSUME Discipline = Disciplines
    PROVE  IInv /\ [Next]_vars => IInv'
<1> SUFFICES ASSUME IInv, [Next]_vars PROVE IInv'
  OBVIOUS
<1>1. WriterExclusion'
  <2>1. LockInv
    BY DEF IInv, Typed, LockInv, LockType
  <2> QED
    BY <2>1, LockStep DEF LockInv
<1>2. CASE UNCHANGED vars
  BY <1>2 DEF vars, IInv, Typed, WriterExclusion, Readable, LoneShift, ThreadSound,
     RunFits, ShiftFits, ShiftAllowed, NextBase, OrderInner
<1>3. ASSUME NEW t \in Threads, CallerStep(t)
      PROVE  IInv'
  BY <1>1, <1>3, LockOrderKeeps, CallShiftKeeps, LockShiftKeeps DEF CallerStep
<1>4. ASSUME NEW t \in Threads, OrderStep(t)
      PROVE  IInv'
  BY <1>1, <1>4, PassageKeeps, StartAddKeeps, RunStepKeeps, FinishAddKeeps,
     WithdrawKeeps, StartMarketKeeps, FinishMarketKeeps DEF OrderStep
<1>5. ASSUME NEW t \in Threads, ShiftStep(t)
      PROVE  IInv'
  BY <1>1, <1>5, PassageKeeps, EnterShiftKeeps, MoveBucketsKeeps, MoveBaseKeeps
     DEF ShiftStep
<1>6. ASSUME NEW t \in Threads, Unlock(t)
      PROVE  IInv'
  BY <1>1, <1>6, PassageKeeps
<1> QED
  BY <1>2, <1>3, <1>4, <1>5, <1>6 DEF Next, HolderStep

\* With callers that observe all disciplines the book keeps its inductive
\* invariant through every step of process_order and shift_book.
THEOREM BookInvariant ==
    ASSUME Discipline = Disciplines
    PROVE  Spec => []IInv
BY InvInit, InvStep, PTL DEF Spec
-----------------------------------------------------------------------------
(***************************************************************************)
(* What the invariant means.                                               *)
(***************************************************************************)
\* A valid read sees a sound book.
LEMMA ReadableSound ==
    ASSUME IInv, Readable
    PROVE  Sound(mem_span, base_price, stats)
BY MorePoints DEF IInv, WriterExclusion

\* Whenever a read is valid the statistics are the ends of the demand and the
\* supply in the array, and the book is not crossed.
THEOREM StatisticsExact ==
    ASSUME Discipline = Disciplines
    PROVE  Spec => []StatsExact
<1>1. IInv => StatsExact
  <2> SUFFICES ASSUME IInv, Readable
               PROVE  /\ Spans(stats.lowest_bid, stats.best_bid, Demand)
                      /\ Spans(stats.best_offer, stats.highest_offer, Supply)
                      /\ Uncrossed
    BY DEF StatsExact
  <2>1. Sound(mem_span, base_price, stats) /\ base_price \in Nat
    BY ReadableSound DEF IInv, BaseFits
  <2>2. \A p \in base_price..(base_price + BookLength - 1) :
          p \in Int /\ p - base_price \in Buckets /\ base_price + (p - base_price) = p
    BY <2>1, LengthAssumption DEF Buckets
  <2>3. /\ stats.best_bid \in Int /\ stats.lowest_bid \in Int
        /\ stats.best_offer \in Int /\ stats.highest_offer \in Int
    BY DEF IInv, Typed, Statistics, OptPrices, UInts, None
  <2>4. \A p \in Int : p - base_price \in Buckets => p \in base_price..(base_price + BookLength - 1)
    BY <2>1, LengthAssumption DEF Buckets
  <2>5. \A p \in Demand : stats.lowest_bid # None /\ stats.lowest_bid <= p /\ p <= stats.best_bid
    BY <2>1, <2>2 DEF Demand, Sound, BidsSound
  <2>6. \A p \in Supply : stats.best_offer # None /\ stats.best_offer <= p /\ p <= stats.highest_offer
    BY <2>1, <2>2 DEF Supply, Sound, OffersSound
  <2>7. stats.best_bid # None => stats.best_bid \in Demand /\ stats.lowest_bid \in Demand
    BY <2>1, <2>3, <2>4 DEF Demand, Sound, BidsSound
  <2>8. stats.best_offer # None => stats.best_offer \in Supply /\ stats.highest_offer \in Supply
    BY <2>1, <2>3, <2>4 DEF Supply, Sound, OffersSound
  <2>9. Spans(stats.lowest_bid, stats.best_bid, Demand)
    BY <2>1, <2>5, <2>7 DEF Spans, Sound, BidsSound
  <2>10. Spans(stats.best_offer, stats.highest_offer, Supply)
    BY <2>1, <2>6, <2>8 DEF Spans, Sound, OffersSound
  <2>11. Uncrossed
    <3> SUFFICES ASSUME NEW bid \in Demand, NEW offer \in Supply PROVE bid < offer
      BY DEF Uncrossed
    <3>1. bid \in Int /\ offer \in Int
      BY <2>2 DEF Demand, Supply
    <3>2. stats.best_bid # None /\ bid <= stats.best_bid
      BY <2>1, <2>5 DEF Sound, BidsSound
    <3>3. stats.best_offer # None /\ stats.best_offer <= offer
      BY <2>6
    <3> QED
      BY <2>1, <2>3, <3>1, <3>2, <3>3 DEF Sound, Apart
  <2> QED
    BY <2>9, <2>10, <2>11
<1> QED
  BY <1>1, BookInvariant, PTL

\* The code's own check of the book reports nothing whenever a read is valid.
THEOREM ChecksAlwaysPass ==
    ASSUME Discipline = Disciplines
    PROVE  Spec => []InvariantsCheck
<1>1. IInv => InvariantsCheck
  <2> SUFFICES ASSUME IInv, Readable PROVE ChecksPass
    BY DEF InvariantsCheck
  <2>1. Sound(mem_span, base_price, stats) /\ base_price \in Nat
    BY ReadableSound DEF IInv, BaseFits
  <2>2. \A i \in Buckets : i \in Int /\ mem_span[i] \in Int
    BY LengthAssumption DEF IInv, Typed, Buckets, Cells
  <2>3. /\ stats.best_bid \in Int /\ stats.lowest_bid \in Int
        /\ stats.best_offer \in Int /\ stats.highest_offer \in Int
        /\ stats.best_bid # None => stats.best_bid >= 0
    BY DEF IInv, Typed, Statistics, OptPrices, UInts, None
  <2>4. stats.best_bid # None => stats.best_bid - base_price \in Buckets
    BY <2>1 DEF Sound, BidsSound
  <2>5. stats.best_bid # None => stats.lowest_bid <= stats.best_bid
    <3> SUFFICES ASSUME stats.best_bid # None PROVE stats.lowest_bid <= stats.best_bid
      OBVIOUS
    <3>1. mem_span[stats.best_bid - base_price] < 0
      BY <2>1 DEF Sound, BidsSound
    <3>2. stats.lowest_bid <= base_price + (stats.best_bid - base_price)
      BY <2>1, <2>4, <3>1 DEF Sound, BidsSound
    <3> QED
      BY <2>1, <2>3, <3>2
  <2>6. stats.best_offer # None => stats.best_offer <= stats.highest_offer
    <3> SUFFICES ASSUME stats.best_offer # None
                 PROVE  stats.best_offer <= stats.highest_offer
      OBVIOUS
    <3>1. /\ stats.best_offer - base_price \in Buckets
          /\ mem_span[stats.best_offer - base_price] > 0
      BY <2>1 DEF Sound, OffersSound
    <3>2. base_price + (stats.best_offer - base_price) <= stats.highest_offer
      BY <2>1, <3>1 DEF Sound, OffersSound
    <3> QED
      BY <2>1, <2>3, <3>2
  <2>7. stats.best_bid # None =>
          /\ \A i \in Buckets : i > stats.best_bid - base_price => mem_span[i] >= 0
          /\ \A i \in Buckets : i < stats.lowest_bid - base_price => mem_span[i] = 0
    <3> SUFFICES ASSUME stats.best_bid # None, NEW i \in Buckets
                 PROVE  /\ i > stats.best_bid - base_price => mem_span[i] >= 0
                        /\ i < stats.lowest_bid - base_price => mem_span[i] = 0
      OBVIOUS
    <3>1. mem_span[i] < 0 =>
            stats.lowest_bid <= base_price + i /\ base_price + i <= stats.best_bid
      BY <2>1 DEF Sound, BidsSound
    <3>2. mem_span[i] > 0 => stats.best_bid < base_price + i
      <4>1. mem_span[i] > 0 => stats.best_offer # None /\ stats.best_offer <= base_price + i
        BY <2>1 DEF Sound, OffersSound
      <4>2. stats.best_offer # None => stats.best_bid < stats.best_offer
        BY <2>1 DEF Sound, Apart
      <4> QED
        BY <2>1, <2>2, <2>3, <4>1, <4>2
    <3> QED
      BY <2>1, <2>2, <2>3, <2>5, <3>1, <3>2
  <2>8. stats.best_offer # None =>
          /\ \A i \in Buckets : i > stats.highest_offer - base_price => mem_span[i] = 0
          /\ \A i \in Buckets : i < stats.best_offer - base_price => mem_span[i] <= 0
    <3> SUFFICES ASSUME stats.best_offer # None, NEW i \in Buckets
                 PROVE  /\ i > stats.highest_offer - base_price => mem_span[i] = 0
                        /\ i < stats.best_offer - base_price => mem_span[i] <= 0
      OBVIOUS
    <3>1. mem_span[i] > 0 =>
            stats.best_offer <= base_price + i /\ base_price + i <= stats.highest_offer
      BY <2>1 DEF Sound, OffersSound
    <3>2. mem_span[i] < 0 => base_price + i < stats.best_offer
      <4>1. mem_span[i] < 0 => stats.best_bid # None /\ base_price + i <= stats.best_bid
        BY <2>1 DEF Sound, BidsSound
      <4>2. stats.best_bid # None => stats.best_bid < stats.best_offer
        BY <2>1 DEF Sound, Apart
      <4> QED
        BY <2>1, <2>2, <2>3, <4>1, <4>2
    <3> QED
      BY <2>1, <2>2, <2>3, <2>6, <3>1, <3>2
  <2>9. /\ (stats.best_bid = None) = (stats.lowest_bid = None)
        /\ (stats.best_offer = None) = (stats.highest_offer = None)
    BY <2>1 DEF Sound, BidsSound, OffersSound
  <2>10. /\ StatLiquid(stats.lowest_bid) /\ StatLiquid(stats.best_bid)
         /\ StatLiquid(stats.best_offer) /\ StatLiquid(stats.highest_offer)
    BY <2>1 DEF Sound, BidsSound, OffersSound, StatLiquid
  <2>11. /\ ValueOr(stats.best_bid, 0) >= ValueOr(stats.lowest_bid, 0)
         /\ ValueOr(stats.best_offer, 0) <= ValueOr(stats.highest_offer, 0)
    BY <2>3, <2>5, <2>6, <2>9 DEF ValueOr
  <2>12. stats.best_bid # None /\ stats.best_offer # None => stats.best_bid < stats.best_offer
    BY <2>1 DEF Sound, Apart
  <2> QED
    BY <2>7, <2>8, <2>9, <2>10, <2>11, <2>12 DEF ChecksPass
<1> QED
  BY <1>1, BookInvariant, PTL

\* The loop of run_through_book never leaves the array.
THEOREM RunsStayInside ==
    ASSUME Discipline = Disciplines
    PROVE  Spec => []RunInBounds
<1>1. IInv => RunInBounds
  <2> SUFFICES ASSUME IInv, NEW t \in Threads, pc[t] \in RunPoints, Running(run[t])
               PROVE  run[t].index \in Buckets
    BY DEF RunInBounds, RunPoints
  <2> DEFINE f == run[t]
  <2>1. RunSound(f, mem_span, base_price, stats) /\ f \in Frames
    BY DEF IInv, Typed, ThreadSound, RunFits
  <2>2. base_price \in Nat /\ f.index \in Int /\ f.volume \in Int
    BY <2>1 DEF IInv, BaseFits, Frames
  <2>3. /\ stats.best_bid \in Int /\ stats.lowest_bid \in Int
        /\ stats.best_offer \in Int /\ stats.highest_offer \in Int
    BY DEF IInv, Typed, Statistics, OptPrices, UInts, None
  <2>4. ~f.dummy /\ f.volume # 0 /\ f.n_iterations >= 0
    BY <2>1 DEF RunSound, Running
  <2> HIDE DEF f
  <2>5. CASE f.volume < 0
    <3>1. BuyRun(f, mem_span, base_price, stats)
      BY <2>1, <2>4, <2>5 DEF RunSound
    <3>2. /\ stats.best_offer - base_price \in Buckets
          /\ stats.highest_offer - base_price \in Buckets
          /\ stats.best_offer <= base_price + f.index
          /\ f.n_iterations = stats.highest_offer - (base_price + f.index)
      BY <3>1 DEF BuyRun
    <3> QED
      BY <2>2, <2>3, <2>4, <3>2, LengthAssumption DEF Buckets, f
  <2>6. CASE f.volume > 0
    <3>1. SellRun(f, mem_span, base_price, stats)
      BY <2>1, <2>4, <2>6 DEF RunSound
    <3>2. /\ stats.best_bid - base_price \in Buckets
          /\ stats.lowest_bid - base_price \in Buckets
          /\ base_price + f.index <= stats.best_bid
          /\ f.n_iterations = (base_price + f.index) - stats.lowest_bid
      BY <3>1 DEF SellRun
    <3> QED
      BY <2>2, <2>3, <2>4, <3>2, LengthAssumption DEF Buckets, f
  <2> QED
    BY <2>2, <2>4, <2>5, <2>6
<1> QED
  BY <1>1, BookInvariant, PTL

\* A withdrawal changes a bucket of the array, if anything.
LEMMA WithdrawInside ==
    ASSUME IInv, NEW t \in Threads, Withdraw(t)
    PROVE  mem_span'[BookLength] = mem_span[BookLength]
<1> DEFINE o == OrderFor("withdraw", order[t])
<1>1. mem_span' = WithdrawnMem(o, mem_span, base_price)
  BY DEF Withdraw
<1>2. o.volume \in Int /\ o.price \in UInts /\ (o.volume # 0 => o = order[t])
  BY OrderTypes DEF IInv
<1>3. o.volume # 0 => o.price # UInt32(base_price + BookLength)
  BY <1>2 DEF Withdraw, Goto, IInv, ThreadSound, OrderInner
<1>4. BaseFits(base_price) /\ base_price \in Nat /\ mem_span \in [Cells -> Int]
  BY DEF IInv, Typed, BaseFits
<1> HIDE DEF o
<1>5. CASE o.volume = 0
  BY <1>1, <1>5 DEF WithdrawnMem
<1>6. CASE o.volume # 0
  <2>1. UsedPrice(o, base_price) \in PricesOf(base_price)
    BY <1>2, <1>3, <1>4, <1>6, UsedInner
  <2>2. UsedPrice(o, base_price) - base_price # BookLength
    BY <1>4, <2>1, LengthAssumption DEF PricesOf
  <2> QED
    BY <1>1, <1>4, <1>6, <2>2, LengthAssumption DEF WithdrawnMem, Cells
<1> QED
  BY <1>5, <1>6

\* No call writes to the word behind the array.
THEOREM SlackNeverWritten ==
    ASSUME Discipline = Disciplines
    PROVE  Spec => SlackUntouched
<1>1. IInv /\ [Next]_vars => [mem_span'[BookLength] = mem_span[BookLength]]_vars
  <2> SUFFICES ASSUME IInv, Next
               PROVE  mem_span'[BookLength] = mem_span[BookLength]
    OBVIOUS
  <2>1. ASSUME NEW t \in Threads, RunStep(t)
        PROVE  mem_span'[BookLength] = mem_span[BookLength]
    <3>1. /\ run[t].index \in Buckets
          /\ \A c \in Cells : c # run[t].index => mem_span'[c] = mem_span[c]
      BY <2>1, RunStepSound
    <3> QED
      BY <3>1, LengthAssumption DEF Buckets, Cells
  <2>2. ASSUME NEW t \in Threads, FinishAdd(t)
        PROVE  mem_span'[BookLength] = mem_span[BookLength]
    BY <2>2, RestLeavesSound
  <2>3. ASSUME NEW t \in Threads, Withdraw(t)
        PROVE  mem_span'[BookLength] = mem_span[BookLength]
    BY <2>3, WithdrawInside
  <2>4. ASSUME NEW t \in Threads, MoveBuckets(t)
        PROVE  mem_span'[BookLength] = mem_span[BookLength]
    BY <2>4, BucketsMoved
  <2>5. ASSUME NEW t \in Threads,
               \/ CallerStep(t) \/ EnterOrder(t) \/ StartAdd(t) \/ StartMarket(t)
               \/ FinishMarket(t) \/ LeaveOrder(t) \/ EnterShift(t)
               \/ MoveBase(t) \/ LeaveShift(t) \/ Unlock(t)
        PROVE  mem_span'[BookLength] = mem_span[BookLength]
    BY <2>5 DEF CallerStep, LockOrder, CallShift, LockShift, EnterOrder, StartAdd,
       StartMarket, FinishMarket, LeaveOrder, EnterShift, MoveBase, LeaveShift,
       Unlock, book
  <2> QED
    BY <2>1, <2>2, <2>3, <2>4, <2>5 DEF Next, HolderStep, OrderStep, ShiftStep
<1> QED
  BY <1>1, BookInvariant, PTL DEF Spec, SlackUntouched

\* A shift leaves the volume of every price what it was.
THEOREM ShiftsKeepVolume ==
    ASSUME Discipline = Disciplines
    PROVE  Spec => ShiftKeepsVolume
<1> DEFINE A == \A t \in Threads : MoveBuckets(t) =>
                  \A p \in UInts :
                    VolumeAt(p, mem_span', base_price + shift[t].mem_shift)
                      = VolumeAt(p, mem_span, base_price)
<1>1. IInv => A
  BY BucketsMoved
<1>2. ShiftKeepsVolume <=> [][A]_vars
  BY PTL DEF ShiftKeepsVolume
<1> HIDE DEF A
<1> QED
  BY <1>1, <1>2, BookInvariant, PTL

\* The base price moves by the distance asked for and never wraps around.
THEOREM BaseMovesAsAsked ==
    ASSUME Discipline = Disciplines
    PROVE  Spec => BaseNeverWraps
<1>1. IInv /\ [Next]_vars =>
        [base_price' # base_price =>
           \E t \in Threads : base_price' = base_price + shift[t].shift_by]_vars
  <2> SUFFICES ASSUME IInv, Next, base_price' # base_price
               PROVE  \E t \in Threads : base_price' = base_price + shift[t].shift_by
    OBVIOUS
  <2>1. PICK t \in Threads : MoveBase(t)
    BY DEF Next, CallerStep, HolderStep, OrderStep, ShiftStep, LockOrder, CallShift,
       LockShift, EnterOrder, StartAdd, RunStep, FinishAdd, Withdraw, StartMarket,
       FinishMarket, LeaveOrder, EnterShift, MoveBuckets, LeaveShift, Unlock, book
  <2>2. base_price' = NextBase(t)
    BY <2>1, BaseMoved
  <2> QED
    BY <2>1, <2>2 DEF NextBase
<1> QED
  BY <1>1, BookInvariant, PTL DEF Spec, BaseNeverWraps
=============================================================================
